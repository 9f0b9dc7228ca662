----------------------------- MODULE FileScreens -----------------------------
(* The screens that edit the files of a machine, through the Worker Control: those of   *)
(* the configuration of an application, and those of the reverse proxy, which refuses a *)
(* configuration that is not good and is asked to read it again.                        *)
EXTENDS Browser

CONSTANTS TargetFiles,  \* the files
          MaxEdits      \* how many times a content is typed, or a file written elsewhere

OnFiles == page.name \in {"application", "proxy"}
OnProxy == page.name = "proxy"

\* A content: the file it was read from, and which edition of it.
Content(f, n) == [from |-> f, edition |-> n]

-----------------------------------------------------------------------------
(* The Worker Control *)

\* A file is written when it is still the version that was read, told by its hash; a file
\* of the proxy, only when the proxy takes the configuration with it.
WriteAnswers == IF OnProxy THEN BOOLEAN ELSE {TRUE}

FilesServed(s) ==
  \/ /\ InStage(s, {"targetFile"}, "sent")
     /\ Serve(s, stored.files[calls[s].at], stored)
  \/ /\ InStage(s, {"writeFile"}, "sent")
     /\ LET f == calls[s].at
        IN  IF stored.files[f] # calls[s].with.sha THEN Refuse(s)
            ELSE \E saved \in WriteAnswers :
                   Serve(s, [saved |-> saved, sha |-> calls[s].with.content],
                         IF saved THEN [stored EXCEPT !.files[f] = calls[s].with.content, !.elsewhere = @ \ {f}]
                         ELSE stored)
  \/ /\ InStage(s, {"files"}, "sent")
     /\ Serve(s, None, stored)
  \/ /\ InStage(s, {"proxyReload", "proxyRestart"}, "sent")
     /\ \E taken \in BOOLEAN :
          Serve(s, taken, IF taken THEN [stored EXCEPT !.running = stored.files, !.elsewhere = {}] ELSE stored)
  \/ /\ InStage(s, {"proxyTest"}, "sent")
     /\ Serve(s, TRUE, stored)

MayEdit == stored.edits < MaxEdits
Edited == [stored EXCEPT !.edits = @ + 1]

WrittenElsewhere(f) ==
  /\ OnFiles
  /\ MayEdit
  /\ stored' = [Edited EXCEPT !.files[f] = Content(f, stored.edits + 1), !.elsewhere = @ \union {f}]
  /\ UNCHANGED <<page, view, calls>>

-----------------------------------------------------------------------------
(* One file open in the editor *)

FilesQuestion == <<Request("files", None, None)>>

\* What was typed and not saved is let go of, which is asked about.
SelectFile(f) ==
  /\ OnFiles
  /\ view' = [view EXCEPT !.open = f, !.loaded = None, !.edited = FALSE]
  /\ Send(<<Request("targetFile", f, None)>>)
  /\ UNCHANGED <<page, stored>>

FileRead(s) ==
  /\ Answer(s, "targetFile")
  /\ view' = [view EXCEPT !.loaded = [content |-> calls[s].answer, sha |-> calls[s].answer], !.text = calls[s].answer]
  /\ Ends(s, <<>>)
  /\ UNCHANGED <<page, stored>>

Editor == OnFiles /\ view.open # None /\ view.loaded # None

\* The textarea stays open while a save is on its way.
TypeInFile ==
  /\ Editor
  /\ MayEdit
  /\ view' = [view EXCEPT !.text.edition = stored.edits + 1, !.edited = TRUE]
  /\ stored' = Edited
  /\ UNCHANGED <<page, calls>>

DiscardText ==
  /\ Editor
  /\ ~view.busy /\ view.edited
  /\ view' = [view EXCEPT !.text = view.loaded.content, !.edited = FALSE]
  /\ UNCHANGED <<page, calls, stored>>

AskMachine(op, at, with) ==
  /\ ~view.busy
  /\ view' = [view EXCEPT !.busy = TRUE]
  /\ Send(<<Request(op, at, with)>>)
  /\ UNCHANGED <<page, stored>>

SaveText ==
  /\ Editor
  /\ view.edited
  /\ AskMachine("writeFile", view.open, [content |-> view.text, sha |-> view.loaded.sha])

\* What is in the editor by then counts as saved, with the hash of what was written.
TextSaved(s) ==
  /\ Answer(s, "writeFile")
  /\ IF calls[s].answer.saved
     THEN /\ view' = [view EXCEPT !.busy = FALSE, !.loaded = [content |-> view.text, sha |-> calls[s].answer.sha],
                                  !.edited = FALSE, !.unread = @ \/ OnProxy]
          /\ Ends(s, FilesQuestion)
     ELSE /\ view' = [view EXCEPT !.busy = FALSE]
          /\ Ends(s, <<>>)
  /\ UNCHANGED <<page, stored>>

-----------------------------------------------------------------------------
(* The proxy *)

\* Restarting is asked about first.
AskProxy(op) ==
  /\ OnProxy
  /\ op \in {"proxyTest", "proxyReload", "proxyRestart"}
  /\ AskMachine(op, None, None)

\* Mutant: asked to read is as good as read.
ProxySaysAnyway(s) ==
  /\ \E op \in {"proxyTest", "proxyReload", "proxyRestart"} :
       /\ Answer(s, op)
       /\ view' = [view EXCEPT !.busy = FALSE, !.unread = @ /\ op = "proxyTest"]
       /\ Ends(s, IF op = "proxyRestart" THEN FilesQuestion ELSE <<>>)
  /\ UNCHANGED <<page, stored>>

ProxySays(s) ==
  /\ \E op \in {"proxyTest", "proxyReload", "proxyRestart"} :
       /\ Answer(s, op)
       /\ view' = [view EXCEPT !.busy = FALSE, !.unread = @ /\ (op = "proxyTest" \/ ~calls[s].answer)]
       /\ Ends(s, IF op = "proxyRestart" THEN FilesQuestion ELSE <<>>)
  /\ UNCHANGED <<page, stored>>

\* Refused or lost: it is said, and what is on the screen stays.  unheard: something was
\* carried out of which the answer did not come.
MachineFails(s) ==
  /\ \E op \in {"writeFile", "proxyTest", "proxyReload", "proxyRestart"} : Failure(s, op)
  /\ view' = [view EXCEPT !.busy = FALSE]
  /\ Ends(s, <<>>)
  /\ stored' = [stored EXCEPT !.unheard = @ \/ calls[s].stage = "answered"]
  /\ UNCHANGED page

FilesHeard(s) ==
  /\ \/ \E op \in {"files", "targetFile"} : Failure(s, op)
     \/ Answer(s, "files")
  /\ Ends(s, <<>>)
  /\ UNCHANGED <<page, view, stored>>

-----------------------------------------------------------------------------

FileOpening(screen) ==
  [page |-> [name |-> screen], asks |-> FilesQuestion,
   view |-> [open |-> None, loaded |-> None, text |-> None, edited |-> FALSE, busy |-> FALSE, unread |-> FALSE]]

FileStored ==
  LET files == [f \in TargetFiles |-> Content(f, 0)]
  IN  [files |-> files, running |-> files, elsewhere |-> {}, edits |-> 0, unheard |-> FALSE]

FileSteps ==
  \/ \E f \in TargetFiles : WrittenElsewhere(f) \/ SelectFile(f)
  \/ TypeInFile
  \/ DiscardText
  \/ SaveText
  \/ \E op \in {"proxyTest", "proxyReload", "proxyRestart"} : AskProxy(op)
  \/ \E s \in Slots : \/ FilesServed(s)
                      \/ FileRead(s)
                      \/ TextSaved(s)
                      \/ ProxySays(s)
                      \/ MachineFails(s)
                      \/ FilesHeard(s)

FileInit == \E screen \in {"application", "proxy"} : Opened(FileOpening(screen), FileStored)
FileSpec == FileInit /\ [][FileSteps]_browser

-----------------------------------------------------------------------------
(* What must hold *)

\* Files opened one after the other while their contents, and the answers to a save, are on
\* the way: what was read from one is never written over another.
WrittenWhereItWasRead ==
  OnFiles => \A f \in TargetFiles : stored.files[f].from = f

\* The proxy refuses a configuration, or to read it, or the answers are late: while each of
\* them comes, it runs what was last saved here, of the files nobody else wrote since, or the
\* page says that it has not read it.
UnreadIsSaid ==
  OnProxy /\ ~stored.unheard /\ ~view.busy /\ ~view.unread
    => \A f \in TargetFiles \ stored.elsewhere : stored.running[f] = stored.files[f]
=============================================================================
