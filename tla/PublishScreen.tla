---------------------------- MODULE PublishScreen ----------------------------
(* The dialog in which a message is written by hand and published in a queue: its body,  *)
(* typed, read from a file or from a model saved before; the models of the queue; and the *)
(* asking whether to publish.                                                             *)
EXTENDS Browser

CONSTANTS Addressed, \* the names of queues a message may be written to
          Bodies,    \* what may be in the editor
          NotJson,   \* what of it is no JSON
          Names,     \* the names of the models
          MaxWrites  \* how many models are saved and removed, and messages published

OnPublish == page.name = "publish"
Unnamed == None

\* A model: a message under a name.  How long it lives is left out.
Model(name, body, rpc) == [name |-> name, body |-> body, rpc |-> rpc]

-----------------------------------------------------------------------------
(* The service, and the files of the machine of whoever writes *)

ModelWrites == {"saveModel", "removeModel"}

\* The models of a queue that is named have one of each name.
ModelsAfter(c) ==
  LET others == {m \in stored.models[c.at] : m.name # c.with.name}
  IN  IF c.op = "saveModel" THEN others \union {c.with} ELSE others

ModelsAnswer(q, models) == [of |-> q, models |-> models]

PublishServed(s) ==
  \/ /\ InStage(s, {"models"}, "sent")
     /\ Serve(s, ModelsAnswer(calls[s].at, stored.models[calls[s].at]), stored)
  \/ /\ InStage(s, ModelWrites, "sent")
     /\ LET after == ModelsAfter(calls[s])
        IN  Serve(s, ModelsAnswer(calls[s].at, after), [stored EXCEPT !.models[calls[s].at] = after])
  \/ /\ InStage(s, {"publish"}, "sent")
     /\ calls[s].at # Unnamed
     /\ Serve(s, calls[s].with, stored)
  \/ /\ InStage(s, {"publish"} \union ModelWrites, "sent")
     /\ Refuse(s)
  \/ /\ InStage(s, {"file"}, "sent")
     /\ \E body \in Bodies : Serve(s, body, stored)

MayWrite == stored.writes < MaxWrites
OneMoreWrite == [stored EXCEPT !.writes = @ + 1]

-----------------------------------------------------------------------------
(* The editor *)

\* Mutant: what was said yes to is whatever is in the editor.
RewrittenStillArmed(v, body) == [v EXCEPT !.text = body]

\* Another text is another message: whether to publish it is asked again.
Rewritten(v, body) == [v EXCEPT !.text = body, !.armed = None]

Problem(v) == v.text \in NotJson

\* Typed, formatted, or indented.
TypeBody(body) ==
  /\ OnPublish
  /\ body # view.text
  /\ view' = Rewritten(view, body)
  /\ UNCHANGED <<page, calls, stored>>

OpenFile ==
  /\ OnPublish
  /\ Send(<<Request("file", None, None)>>)
  /\ UNCHANGED <<page, view, stored>>

FileOpened(s) ==
  /\ \/ Answer(s, "file") /\ view' = Rewritten(view, calls[s].answer)
     \/ Failure(s, "file") /\ UNCHANGED view
  /\ Ends(s, <<>>)
  /\ UNCHANGED <<page, stored>>

-----------------------------------------------------------------------------
(* The queue and its models *)

ModelsQuestion(q) == <<Request("models", q, None)>>

\* Another queue, other models: asked for once, while it is the last that was asked for.
TypeQueue(q) ==
  /\ OnPublish
  /\ ~view.fixed
  /\ q # view.queue
  /\ IF q = Unnamed \/ q = view.loaded
     THEN view' = [view EXCEPT !.queue = q] /\ UNCHANGED calls
     ELSE view' = [view EXCEPT !.queue = q, !.loaded = q] /\ Send(ModelsQuestion(q))
  /\ UNCHANGED <<page, stored>>

NoModels == ModelsAnswer(None, {})

ModelsCame(s) ==
  /\ \/ Answer(s, "models")
        /\ view' = IF view.queue = calls[s].at THEN [view EXCEPT !.models = calls[s].answer] ELSE view
     \/ Failure(s, "models") /\ view' = [view EXCEPT !.models = NoModels]
  /\ Ends(s, <<>>)
  /\ UNCHANGED <<page, stored>>

UseModel(m) ==
  /\ OnPublish
  /\ view.queue # Unnamed
  /\ m \in view.models.models
  /\ view' = [Rewritten(view, m.body) EXCEPT !.modelName = m.name, !.rpc = m.rpc]
  /\ UNCHANGED <<page, calls, stored>>

NameModel(name) ==
  /\ OnPublish
  /\ IF view.naming THEN name # view.modelName ELSE view.queue # Unnamed /\ ~Problem(view)
  /\ view' = [view EXCEPT !.naming = TRUE, !.modelName = name]
  /\ UNCHANGED <<page, calls, stored>>

CancelNaming ==
  /\ OnPublish
  /\ view.naming
  /\ view' = [view EXCEPT !.naming = FALSE]
  /\ UNCHANGED <<page, calls, stored>>

SaveModel ==
  /\ OnPublish
  /\ view.naming
  /\ ~Problem(view)
  /\ MayWrite
  /\ view.queue # Unnamed
  /\ Send(<<Request("saveModel", view.queue, Model(view.modelName, view.text, view.rpc))>>)
  /\ stored' = OneMoreWrite
  /\ UNCHANGED <<page, view>>

RemoveModel(m) ==
  /\ OnPublish
  /\ view.queue # Unnamed
  /\ m \in view.models.models
  /\ MayWrite
  /\ Send(<<Request("removeModel", view.queue, m)>>)
  /\ stored' = OneMoreWrite
  /\ UNCHANGED <<page, view>>

\* Whatever queue is in the dialog by then.
ModelWritten(s) ==
  /\ \/ /\ Answer(s, "saveModel")
        /\ view' = [view EXCEPT !.models = calls[s].answer, !.naming = FALSE, !.modelName = None]
     \/ Answer(s, "removeModel") /\ view' = [view EXCEPT !.models = calls[s].answer]
     \/ Failure(s, "saveModel") /\ view' = [view EXCEPT !.failure = TRUE]
     \/ Failure(s, "removeModel") /\ UNCHANGED view
  /\ Ends(s, <<>>)
  /\ UNCHANGED <<page, stored>>

-----------------------------------------------------------------------------
(* Publishing *)

ToggleRpc ==
  /\ OnPublish
  /\ view' = [view EXCEPT !.rpc = ~@]
  /\ UNCHANGED <<page, calls, stored>>

\* What is about to be published is what is in the editor now.
Arm ==
  /\ OnPublish
  /\ view.armed = None
  /\ ~Problem(view) /\ view.queue # Unnamed /\ ~view.asking
  /\ view' = [view EXCEPT !.armed = view.text]
  /\ UNCHANGED <<page, calls, stored>>

Disarm ==
  /\ OnPublish
  /\ view.armed # None
  /\ view' = [view EXCEPT !.armed = None]
  /\ UNCHANGED <<page, calls, stored>>

\* The queue may have been typed over since.
Publish ==
  /\ OnPublish
  /\ view.armed # None
  /\ MayWrite
  /\ view' = [view EXCEPT !.armed = None, !.result = None, !.failure = FALSE, !.asking = view.rpc]
  /\ Send(<<Request("publish", view.queue, [body |-> view.text, rpc |-> view.rpc])>>)
  /\ stored' = OneMoreWrite
  /\ UNCHANGED page

PublishEnds(s) ==
  /\ \/ Answer(s, "publish") /\ view' = [view EXCEPT !.result = calls[s].answer, !.asking = FALSE]
     \/ Failure(s, "publish") /\ view' = [view EXCEPT !.failure = TRUE, !.asking = FALSE]
  /\ Ends(s, <<>>)
  /\ UNCHANGED <<page, stored>>

-----------------------------------------------------------------------------

\* Opened with a queue, from its page, or without one.
PublishOpening(q, body) ==
  [page |-> [name |-> "publish"], asks |-> IF q = Unnamed THEN <<>> ELSE ModelsQuestion(q),
   view |-> [queue |-> q, fixed |-> q # Unnamed, loaded |-> q, text |-> body, armed |-> None, models |-> NoModels,
             naming |-> FALSE, modelName |-> None, rpc |-> FALSE, asking |-> FALSE, result |-> None, failure |-> FALSE]]

PublishStore(models) == [models |-> models, writes |-> 0]

PublishSteps ==
  \/ \E body \in Bodies : TypeBody(body)
  \/ OpenFile
  \/ \E q \in Addressed \union {Unnamed} : TypeQueue(q)
  \/ OnPublish /\ \E m \in view.models.models : UseModel(m) \/ RemoveModel(m)
  \/ \E name \in Names : NameModel(name)
  \/ CancelNaming
  \/ SaveModel
  \/ ToggleRpc
  \/ Arm
  \/ Disarm
  \/ Publish
  \/ \E s \in Slots : \/ PublishServed(s)
                      \/ FileOpened(s)
                      \/ ModelsCame(s)
                      \/ ModelWritten(s)
                      \/ PublishEnds(s)

\* models: what was written under a name before.
PublishInit(models) ==
  \E q \in Addressed \union {Unnamed}, body \in Bodies \ NotJson : Opened(PublishOpening(q, body), PublishStore(models))
PublishSpec(models) == PublishInit(models) /\ [][PublishSteps]_browser

-----------------------------------------------------------------------------
(* What must hold *)

\* Typing, models used and files that finish being read while the question is on the screen:
\* what is published is what was in the editor when publishing it was asked for.
PublishedAsAsked ==
  OnPublish /\ view.armed # None => view.armed = view.text /\ ~Problem(view)
=============================================================================
