---------------------------- MODULE ConfigScreens ----------------------------
(* The screens that edit a copy of something kept elsewhere and write it back: the file *)
(* of the groups of processes, as forms or as text, and the settings of the environment,*)
(* of the ZapMQ itself and of its rules.                                                *)
EXTENDS Browser

CONSTANTS Groups,     \* what a group of the file may say
          NewGroup,   \* what a group says that was just added
          MaxGroups,  \* how many groups the file may have
          Broken,     \* a text that is not valid JSON
          Fields,     \* settings of the environment
          Fallen,     \* those with a value that is used while nothing is written
          WorkedOut,  \* those with a value worked out from the machine
          Optional,   \* those of the section that may be switched off
          Values,     \* what may be written in a setting
          InUse,      \* what is used while nothing is written, one of Values
          Off,        \* says that the section of a setting is not there at all
          MaxElsewhere  \* how often something is changed by somebody else

ASSUME FieldsAssumption == IsFiniteSet(Fields)

Files == BoundedSeq(Groups, MaxGroups)
Forms == {"environment", "own", "rules"}
OnGroups == page.name = "groups"
OnSettings == page.name = "settings"

-----------------------------------------------------------------------------
(* The Worker Control and the service *)

\* What a machine can work out may be missing from an answer.
ConfigAnswers(c) ==
  CASE c.op = "workerConfig" -> {stored.file}
    [] c.op = "settings" /\ page.form = "environment" ->
         {[written |-> stored.settings.environment, known |-> known] : known \in BOOLEAN}
    [] c.op = "settings" -> {[written |-> stored.settings[page.form], known |-> FALSE]}
    [] c.op = "saveSettingsForm" -> {[written |-> c.with, known |-> FALSE]}
    [] OTHER -> {None}

ConfigEffect(c) ==
  CASE c.op = "saveWorkerConfig" -> [stored EXCEPT !.file = c.with]
    [] c.op = "saveSettingsForm" -> [stored EXCEPT !.settings[page.form] = c.with]
    [] OTHER -> stored

ConfigOps == {"workerConfig", "settings", "saveWorkerConfig", "saveSettingsForm"}

ConfigServed(s) ==
  /\ InStage(s, ConfigOps, "sent")
  /\ \E answer \in ConfigAnswers(calls[s]) : Serve(s, answer, ConfigEffect(calls[s]))

\* Somebody else changes what is kept.
ChangedElsewhere ==
  /\ stored.elsewhere < MaxElsewhere
  /\ \/ /\ OnGroups
        /\ \E file \in Files : stored' = [stored EXCEPT !.elsewhere = @ + 1, !.file = file]
     \/ /\ OnSettings
        /\ \E f \in Fields, v \in Values :
             stored' = [stored EXCEPT !.elsewhere = @ + 1, !.settings[page.form][f] = v]
  /\ UNCHANGED <<page, view, calls>>

-----------------------------------------------------------------------------
(* The file of the groups *)

FileQuestion == <<Request("workerConfig", None, None)>>

GroupIndex(name, file) == LET at == {i \in DOMAIN file : file[i] = name} IN IF at = {} THEN 0 ELSE Min(at)

\* The group somebody came here to set up is opened the first time.
FileAnswered(s) ==
  /\ Answer(s, "workerConfig")
  /\ LET file  == calls[s].answer
         asked == GroupIndex(view.wanted, file)
     IN  view' = [view EXCEPT !.original = file, !.text = file, !.config = file, !.wanted = None,
                              !.selected = IF asked > 0 THEN asked ELSE Min({@, Len(file)}),
                              !.removing = IF @ = "this" THEN "another" ELSE @,
                              !.dirty = FALSE, !.refused = FALSE, !.problem = FALSE]
  /\ Ends(s, <<>>)
  /\ UNCHANGED <<page, stored>>

\* Nobody answered: what was on the screen stays, with a button to try again.
FileNotAnswered(s) ==
  /\ Failure(s, "workerConfig")
  /\ view' = [view EXCEPT !.problem = TRUE]
  /\ Ends(s, <<>>)
  /\ UNCHANGED <<page, stored>>

TryAgain ==
  /\ OnGroups
  /\ view.problem
  /\ Send(FileQuestion)
  /\ UNCHANGED <<page, view, stored>>

Loaded == OnGroups /\ view.config # None /\ view.removing = None
Shaped == Loaded /\ view.mode = "form"

Touched(config) == [view EXCEPT !.config = config, !.dirty = TRUE]

SelectGroup(i) ==
  /\ Shaped
  /\ i \in 0..Len(view.config)
  /\ view' = [view EXCEPT !.selected = i]
  /\ UNCHANGED <<page, calls, stored>>

EditGroup(g) ==
  /\ Shaped
  /\ view.selected \in DOMAIN view.config
  /\ view' = Touched([view.config EXCEPT ![view.selected] = g])
  /\ UNCHANGED <<page, calls, stored>>

AddGroup ==
  /\ Shaped
  /\ Len(view.config) < MaxGroups
  /\ view' = [Touched(Append(view.config, NewGroup)) EXCEPT !.selected = Len(view.config) + 1]
  /\ UNCHANGED <<page, calls, stored>>

\* The copy that is open when the question is asked is the one the group is taken out of:
\* another one that arrives meanwhile keeps it.
AskRemoveGroup ==
  /\ Shaped
  /\ view.selected \in DOMAIN view.config
  /\ view' = [view EXCEPT !.removing = "this"]
  /\ UNCHANGED <<page, calls, stored>>

KeepGroup ==
  /\ OnGroups
  /\ view.removing # None
  /\ view' = [view EXCEPT !.removing = None]
  /\ UNCHANGED <<page, calls, stored>>

RemoveGroup ==
  /\ OnGroups
  /\ view.removing # None
  /\ view' = [Touched(IF view.removing = "this" THEN RemoveAt(view.config, view.selected) ELSE view.config)
                EXCEPT !.removing = None, !.selected = 0]
  /\ UNCHANGED <<page, calls, stored>>

TypeFile(text) ==
  /\ Loaded
  /\ view.mode = "text"
  /\ view' = [view EXCEPT !.text = text, !.dirty = TRUE]
  /\ UNCHANGED <<page, calls, stored>>

\* Back to the forms only with a text that can be read.
SwitchMode(mode) ==
  /\ Loaded
  /\ mode # view.mode
  /\ mode = "form" => view.text # Broken
  /\ view' = IF mode = "text" THEN [view EXCEPT !.mode = mode, !.text = view.config]
             ELSE [view EXCEPT !.mode = mode, !.config = view.text]
  /\ UNCHANGED <<page, calls, stored>>

SaveFile ==
  /\ Loaded
  /\ view.dirty /\ ~view.saving
  /\ IF view.mode = "text" /\ view.text = Broken
     THEN view' = [view EXCEPT !.refused = TRUE] /\ UNCHANGED calls
     ELSE /\ view' = [view EXCEPT !.saving = TRUE, !.refused = FALSE]
          /\ Send(<<Request("saveWorkerConfig", None, IF view.mode = "text" THEN view.text ELSE view.config)>>)
  /\ UNCHANGED <<page, stored>>

FileSaved(s) ==
  /\ Answer(s, "saveWorkerConfig")
  /\ view' = [view EXCEPT !.saving = FALSE]
  /\ Ends(s, FileQuestion)
  /\ UNCHANGED <<page, stored>>

FileNotSaved(s) ==
  /\ Failure(s, "saveWorkerConfig")
  /\ view' = [view EXCEPT !.saving = FALSE, !.refused = TRUE]
  /\ Ends(s, <<>>)
  /\ UNCHANGED <<page, stored>>

DiscardFile ==
  /\ Loaded
  /\ view.dirty /\ ~view.saving
  /\ Send(FileQuestion)
  /\ UNCHANGED <<page, view, stored>>

-----------------------------------------------------------------------------
(* The settings: three forms, each read and written on its own *)

SettingsQuestion == <<Request("settings", None, None)>>
SectionOn(value) == \A f \in Optional : value[f] # Off

\* Only the copy of the environment is filled with what is in use without being written,
\* where nothing is written: what is worked out from the machine only when it is known.
Filled(answer) ==
  [f \in Fields |->
     IF page.form = "environment" /\ answer.written[f] = None
          /\ (f \in Fallen \/ (f \in WorkedOut /\ answer.known))
     THEN InUse ELSE answer.written[f]]

\* Mutant: what was filled in counts as written.
SettingsAnsweredClean(s) ==
  /\ Answer(s, "settings")
  /\ view' = [view EXCEPT !.value = Filled(calls[s].answer), !.read = calls[s].answer.written, !.late = FALSE,
                          !.refused = FALSE, !.dirty = FALSE]
  /\ Ends(s, <<>>)
  /\ UNCHANGED <<page, stored>>

\* late: typed since the save that is on its way was sent.
SettingsAnswered(s) ==
  /\ Answer(s, "settings")
  /\ LET written == calls[s].answer.written
         value   == Filled(calls[s].answer)
     IN  view' = [view EXCEPT !.value = value, !.read = written, !.late = FALSE, !.refused = FALSE,
                              !.dirty = Cardinality({f \in Fields : value[f] # written[f]}) > 0]
  /\ Ends(s, <<>>)
  /\ UNCHANGED <<page, stored>>

Typed(value) == [view EXCEPT !.value = value, !.dirty = TRUE, !.late = view.saving]

SetSetting(f, v) ==
  /\ OnSettings
  /\ view.value # None
  /\ f \in Optional => SectionOn(view.value)
  /\ view' = Typed([view.value EXCEPT ![f] = v])
  /\ UNCHANGED <<page, calls, stored>>

ToggleSection ==
  /\ OnSettings
  /\ page.form = "environment"
  /\ view.value # None
  /\ view' = Typed([f \in Fields |-> IF f \notin Optional THEN view.value[f]
                                      ELSE IF SectionOn(view.value) THEN Off ELSE None])
  /\ UNCHANGED <<page, calls, stored>>

DiscardSettings ==
  /\ OnSettings
  /\ page.form = "environment"
  /\ view.value # None
  /\ view.dirty \/ view.refused
  /\ ~view.saving
  /\ Send(SettingsQuestion)
  /\ UNCHANGED <<page, view, stored>>

SaveSettingsForm ==
  /\ OnSettings
  /\ view.value # None
  /\ view.dirty \/ (page.form = "environment" /\ view.refused)
  /\ ~view.saving
  /\ view' = [view EXCEPT !.saving = TRUE, !.refused = FALSE]
  /\ Send(<<Request("saveSettingsForm", None, view.value)>>)
  /\ UNCHANGED <<page, stored>>

\* The environment is read again; of the others what was written comes with the answer,
\* and what is on the screen stays.
SettingsFormSaved(s) ==
  /\ Answer(s, "saveSettingsForm")
  /\ IF page.form = "environment"
     THEN /\ view' = [view EXCEPT !.saving = FALSE]
          /\ Ends(s, SettingsQuestion)
     ELSE /\ view' = [view EXCEPT !.saving = FALSE, !.dirty = FALSE, !.read = calls[s].answer.written]
          /\ Ends(s, <<>>)
  /\ UNCHANGED <<page, stored>>

SettingsFormNotSaved(s) ==
  /\ Failure(s, "saveSettingsForm")
  /\ view' = [view EXCEPT !.saving = FALSE, !.refused = TRUE]
  /\ Ends(s, <<>>)
  /\ UNCHANGED <<page, stored>>

SettingsUnread(s) ==
  /\ Failure(s, "settings")
  /\ Ends(s, <<>>)
  /\ UNCHANGED <<page, view, stored>>

-----------------------------------------------------------------------------

ConfigStored ==
  [file |-> <<CHOOSE g \in Groups : TRUE>>, elsewhere |-> 0,
   settings |-> [form \in Forms |-> [f \in Fields |-> None]]]

GroupsOpening(wanted) ==
  [page |-> [name |-> "groups"], asks |-> FileQuestion,
   view |-> [config |-> None, original |-> None, text |-> None, mode |-> "form", wanted |-> wanted,
             selected |-> 0, removing |-> None, dirty |-> FALSE, saving |-> FALSE, refused |-> FALSE,
             problem |-> FALSE]]

SettingsOpening(form) ==
  [page |-> [name |-> "settings", form |-> form], asks |-> SettingsQuestion,
   view |-> [value |-> None, read |-> None, dirty |-> FALSE, saving |-> FALSE, late |-> FALSE, refused |-> FALSE]]

ConfigSteps ==
  \/ ChangedElsewhere
  \/ TryAgain
  \/ \E i \in 0..MaxGroups : SelectGroup(i)
  \/ \E g \in Groups : EditGroup(g)
  \/ AddGroup
  \/ AskRemoveGroup
  \/ KeepGroup
  \/ RemoveGroup
  \/ \E text \in Files \union {Broken} : TypeFile(text)
  \/ \E mode \in {"form", "text"} : SwitchMode(mode)
  \/ SaveFile
  \/ DiscardFile
  \/ \E f \in Fields, v \in Values \union {None} : SetSetting(f, v)
  \/ ToggleSection
  \/ SaveSettingsForm
  \/ DiscardSettings
  \/ \E s \in Slots : \/ ConfigServed(s)
                      \/ FileAnswered(s)
                      \/ FileNotAnswered(s)
                      \/ FileSaved(s)
                      \/ FileNotSaved(s)
                      \/ SettingsAnswered(s)
                      \/ SettingsFormSaved(s)
                      \/ SettingsFormNotSaved(s)
                      \/ SettingsUnread(s)

\* What others may still change is bounded; some of it may have been changed before.
ConfigInit ==
  \E n \in 0..MaxElsewhere :
    LET kept == [ConfigStored EXCEPT !.elsewhere = n]
    IN  \/ \E group \in Groups \union {None} : Opened(GroupsOpening(group), kept)
        \/ \E form \in Forms : Opened(SettingsOpening(form), kept)
ConfigSpec == ConfigInit /\ [][ConfigSteps]_browser

-----------------------------------------------------------------------------
(* What must hold *)

\* Whatever is on the screen and is not what was last read is said to be unsaved, through
\* late answers, both ways of editing the file and the values filled in; of the settings of
\* the ZapMQ and the rules, but for what was typed while a save was on its way.
UnsavedIsMarked ==
  /\ OnGroups /\ view.config # None /\ ~view.dirty =>
       /\ view.config = view.original
       /\ view.mode = "text" => view.text = view.original
  /\ OnSettings /\ view.value # None /\ ~view.dirty =>
       view.value = view.read \/ (page.form # "environment" /\ view.late)
=============================================================================
