----------------------------- MODULE ScreenProofs -----------------------------
(* What the screens show and write is of what they were opened with, for any number of *)
(* queues, services, settings and requests in flight.  Of each: what is known of every  *)
(* request on its way and of the component, that a step keeps it, and what follows.    *)
EXTENDS QueueScreens, ServiceScreens, ConfigScreens, SessionScreens, PublishScreen, RequestLemmas, FiniteSetTheorems

-----------------------------------------------------------------------------
(* The session and the channel of the live events *)

SessionFields == {"user", "master", "going", "busy", "dialog", "users", "source", "connected", "retry"}

\* The fields of the frame, and that one goes nowhere but to the login and inside.
FrameInv ==
  /\ view = [f \in SessionFields |-> view[f]]
  /\ view.source \in BOOLEAN /\ view.retry \in BOOLEAN /\ view.connected \in BOOLEAN
  /\ OnSession
  /\ view.going # None => view.going.name \in {"login", "inside"}
  /\ LiveWhileInside

\* What a step changes besides the channel and the address.
Quiet(v, w) ==
  /\ w = [f \in SessionFields |-> w[f]]
  /\ w.source = v.source /\ w.retry = v.retry /\ w.connected = v.connected
  /\ w.going # None => w.going = v.going \/ w.going.name \in {"login", "inside"}

\* Going somewhere leaves the channel as it is.
LEMMA Navigates ==
  ASSUME NEW v, v = [f \in SessionFields |-> v[f]], NEW target, target.name \in {"login", "inside"}
  PROVE  Quiet(v, Navigating(v, target))
BY DEF Quiet, Navigating, Guarded, AtLogin, Inside, SessionFields

\* So does a session that is not valid anymore, whatever screen it ends on.
LEMMA Expires ==
  ASSUME NEW v, v = [f \in SessionFields |-> v[f]], NEW back \in BOOLEAN
  PROVE  Quiet(v, Expired(v, back))
<1> DEFINE out == [v EXCEPT !.user = None, !.master = FALSE]
<1>1. out = [f \in SessionFields |-> out[f]] /\ Quiet(v, out)
  BY DEF SessionFields, Quiet
<1> HIDE DEF out
<1>2. ASSUME NEW x
      PROVE  Quiet(v, Navigating(out, AtLogin(x)))
  <2>1. AtLogin(x).name \in {"login", "inside"}
    BY DEF AtLogin
  <2>2. Quiet(out, Navigating(out, AtLogin(x)))
    BY <1>1, <2>1, Navigates
  <2> QED BY <1>1, <2>2 DEF Quiet
<1>3. Expired(v, back) = out \/ \E x : Expired(v, back) = Navigating(out, AtLogin(x))
  BY DEF Expired, out
<1> QED BY <1>1, <1>2, <1>3

\* A step that is neither of the address nor of the channel keeps the invariant.
LEMMA Settles ==
  ASSUME FrameInv, page' = page, Quiet(view, view')
  PROVE  FrameInv'
BY DEF FrameInv, LiveWhileInside, OnSession, IsInside, Quiet

\* Entering leaves the channel as it is too: it is opened when the address changes.
LEMMA Enters ==
  ASSUME NEW v, v = [f \in SessionFields |-> v[f]], NEW back
  PROVE  Quiet(v, Entering(v, back))
<1>1. ASSUME NEW x PROVE Inside(x).name \in {"login", "inside"}
  BY DEF Inside
<1> QED BY <1>1, Navigates DEF Entering

\* a change of fields that are not of the frame
LEMMA Turns ==
  ASSUME FrameInv
  PROVE  /\ Quiet(view, view)
         /\ \A x : /\ Quiet(view, [view EXCEPT !.busy = x])
                   /\ Quiet(view, [view EXCEPT !.users = x])
                   /\ Quiet(view, [view EXCEPT !.user = x])
                   /\ Quiet(view, [view EXCEPT !.dialog = x])
         /\ \A x : Quiet(view, Accepted(view, x))
BY DEF FrameInv, Quiet, SessionFields, Accepted

\* Every step of the session and the channel keeps the invariant.
LEMMA FrameStep == FrameInv /\ [SessionSteps]_browser => FrameInv'
<1> SUFFICES ASSUME FrameInv, [SessionSteps]_browser
             PROVE  FrameInv'
  OBVIOUS
<1>0. view = [f \in SessionFields |-> view[f]] /\ Quiet(view, view)
  BY Turns DEF FrameInv
<1>l. ASSUME NEW x PROVE AtLogin(x).name = "login" /\ Inside(x).name = "inside"
  BY DEF AtLogin, Inside
<1>1. CASE NavigationEnds
  <2> DEFINE target == view.going
  <2>1. target.name \in {"login", "inside"} /\ page' = target
    BY <1>1 DEF FrameInv, NavigationEnds
  <2>2. /\ view' = [f \in SessionFields |-> view'[f]]
        /\ view'.source = (target.name = "inside" /\ (IsInside => view.source))
        /\ view'.connected = (view.connected /\ target.name = "inside")
        /\ view'.retry = (view.retry /\ target.name = "inside")
        /\ view'.going = None \/ view'.going.name = "inside"
    BY <1>0, <1>1, <1>l DEF NavigationEnds, SessionFields
  <2> QED BY <2>1, <2>2 DEF FrameInv, LiveWhileInside, OnSession, IsInside
<1>2. CASE \E a \in Addresses : GoTo(a)
  BY <1>0, <1>2, <1>l, Navigates, Settles DEF GoTo
<1>3. ASSUME NEW s \in Slots, SessionKnown(s)
      PROVE  FrameInv'
  <2>1. PICK inside \in BOOLEAN :
          LET known == IF inside THEN Accepted(view, calls[s].answer) ELSE [view EXCEPT !.user = None]
          IN  view' = IF inside THEN Entering(known, calls[s].with)
                      ELSE IF page.name = "starting" THEN Navigating(known, Inside(calls[s].with))
                      ELSE known
    BY <1>3 DEF SessionKnown
  <2> DEFINE known == IF inside THEN Accepted(view, calls[s].answer) ELSE [view EXCEPT !.user = None]
  <2>2. Quiet(view, known)
    BY Turns
  <2>3. known = [f \in SessionFields |-> known[f]]
    BY <2>2 DEF Quiet
  <2> HIDE DEF known
  <2>4. Quiet(known, Entering(known, calls[s].with)) /\ Quiet(known, Navigating(known, Inside(calls[s].with)))
    BY <2>3, <1>l, Enters, Navigates
  <2>5. view' = Entering(known, calls[s].with) \/ view' = Navigating(known, Inside(calls[s].with)) \/ view' = known
    BY <2>1 DEF known
  <2>6. Quiet(view, view')
    BY <2>2, <2>4, <2>5 DEF Quiet
  <2> QED BY <1>3, <2>6, Settles DEF SessionKnown
<1>4. ASSUME NEW u \in Logins, SubmitLogin(u)
      PROVE  FrameInv'
  BY <1>4, Turns, Settles DEF SubmitLogin
<1>5. ASSUME NEW s \in Slots, LoginEnds(s)
      PROVE  FrameInv'
  <2> DEFINE known == [Accepted(view, calls[s].answer) EXCEPT !.busy = FALSE]
  <2>1. Quiet(view, known) /\ known = [f \in SessionFields |-> known[f]]
    BY <1>0 DEF Quiet, Accepted, SessionFields
  <2> HIDE DEF known
  <2>2. view' = Entering(known, calls[s].with.back) \/ view' = [view EXCEPT !.busy = FALSE]
    BY <1>5 DEF LoginEnds, known
  <2>3. Quiet(known, Entering(known, calls[s].with.back))
    BY <2>1, Enters
  <2>4. Quiet(view, Entering(known, calls[s].with.back))
    BY <2>1, <2>3 DEF Quiet
  <2>5. Quiet(view, [view EXCEPT !.busy = FALSE])
    BY Turns
  <2> QED BY <1>5, <2>2, <2>4, <2>5, Settles DEF LoginEnds
<1>6. ASSUME NEW s \in Slots, LoggedOut(s)
      PROVE  FrameInv'
  BY <1>0, <1>6, Expires, Settles DEF LoggedOut
<1>7. ASSUME NEW s \in Slots, NEW o \in SessionOps, ThrownOut(s, o)
      PROVE  FrameInv'
  <2> DEFINE out == Expired(view, TRUE)
  <2>1. Quiet(view, out)
    BY <1>0, Expires
  <2> HIDE DEF out
  <2>2. Quiet(view, [out EXCEPT !.dialog.busy = FALSE])
    BY <2>1 DEF Quiet, SessionFields
  <2>3. view' = out \/ view' = [out EXCEPT !.dialog.busy = FALSE]
    BY <1>7 DEF ThrownOut, out
  <2> QED BY <1>7, <2>1, <2>2, <2>3, Settles DEF ThrownOut
<1>8. ASSUME NEW u \in Logins, NEW o \in {"changePassword", "createUser", "resetPassword"}, OpenDialog(o, u)
      PROVE  FrameInv'
  BY <1>8, Turns, Settles DEF OpenDialog
<1>9. CASE SaveDialog
  <2>1. Quiet(view, [view EXCEPT !.dialog.busy = TRUE])
    BY <1>0 DEF Quiet, SessionFields
  <2> QED BY <1>9, <2>1, Settles DEF SaveDialog
<1>10. CASE CancelDialog
  BY <1>10, Turns, Settles DEF CancelDialog
<1>11. ASSUME NEW s \in Slots, DialogEnds(s)
      PROVE  FrameInv'
  <2>1. Quiet(view, [view EXCEPT !.dialog.busy = FALSE])
    BY <1>0 DEF Quiet, SessionFields
  <2>2. ASSUME NEW v, Quiet(view, v)
        PROVE  Quiet(view, [v EXCEPT !.dialog = None])
    BY <2>2 DEF Quiet, SessionFields
  <2>3. \/ view' \in {view, [view EXCEPT !.dialog = None], [view EXCEPT !.dialog.busy = FALSE]}
        \/ view' \in {Accepted(view, calls[s].answer), [Accepted(view, calls[s].answer) EXCEPT !.dialog = None]}
    BY <1>11 DEF DialogEnds
  <2>4. Quiet(view, view')
    BY <2>1, <2>2, <2>3, <1>0, Turns
  <2> QED BY <1>11, <2>4, Settles DEF DialogEnds
<1>12. ASSUME NEW s \in Slots, UsersAnswered(s)
      PROVE  FrameInv'
  BY <1>0, <1>12, Turns, Settles DEF UsersAnswered
<1>13. CASE LiveArrives
  <2>1. /\ view' = [f \in SessionFields |-> view'[f]] /\ view'.source = view.source /\ view'.retry = view.retry
        /\ view'.connected = TRUE /\ view'.going = view.going /\ page' = page /\ view.source
    BY <1>0, <1>13 DEF LiveArrives, SessionFields
  <2> QED BY <2>1 DEF FrameInv, LiveWhileInside, OnSession, IsInside
<1>14. CASE LiveRefused \/ LiveBreaks
  <2>1. /\ view' = [f \in SessionFields |-> view'[f]] /\ view'.connected = FALSE
        /\ \/ view'.source = view.source /\ view'.retry = view.retry
           \/ view'.source = FALSE /\ view'.retry = TRUE
        /\ view'.going = view.going /\ page' = page /\ view.source
    BY <1>0, <1>14 DEF LiveRefused, LiveBreaks, ChannelBroken, SessionFields
  <2> QED BY <2>1 DEF FrameInv, LiveWhileInside, OnSession, IsInside
<1>15. CASE LiveRetried
  <2>1. /\ view' = [f \in SessionFields |-> view'[f]] /\ view'.connected = view.connected
        /\ view'.source = TRUE /\ view'.retry = FALSE
        /\ view'.going = view.going /\ page' = page /\ view.retry
    BY <1>0, <1>15 DEF LiveRetried, SessionFields
  <2> QED BY <2>1 DEF FrameInv, LiveWhileInside, OnSession, IsInside
<1>16. ASSUME UNCHANGED <<page, view>>
       PROVE  FrameInv'
  BY <1>0, <1>16, Settles
<1>17. ASSUME NEW s \in Slots, PollAnswered(s) \/ UserManaged(s) \/ SessionServed(s)
       PROVE  FrameInv'
  BY <1>16, <1>17 DEF PollAnswered, UserManaged, SessionServed, Serve, Refuse
<1>18. CASE ServiceStartsAgain \/ LogOut \/ Poll
  BY <1>16, <1>18 DEF ServiceStartsAgain, LogOut, Poll
<1>19. ASSUME NEW u \in Logins, NEW o \in Managing, ManagedElsewhere(o, u) \/ ManageUser(o, u)
       PROVE  FrameInv'
  BY <1>16, <1>19 DEF ManagedElsewhere, ManageUser
<1>20. CASE UNCHANGED browser
  BY <1>16, <1>20 DEF browser
<1> QED BY <1>1, <1>2, <1>3, <1>4, <1>5, <1>6, <1>7, <1>8, <1>9, <1>10, <1>11, <1>12, <1>13, <1>14, <1>15,
           <1>17, <1>18, <1>19, <1>20 DEF SessionSteps, SessionHeard

\* Somebody inside has the live channel open, or asked to be opened again, whatever the
\* order in which the session ends and begins and the channel breaks.
THEOREM LiveWhileIn ==
  ASSUME NEW cookie
  PROVE  SessionSpec(cookie) => []LiveWhileInside
<1>1. SessionInit(cookie) => FrameInv
  <2> SUFFICES ASSUME SessionInit(cookie) PROVE FrameInv
    OBVIOUS
  <2>1. view = SessionView /\ page.name \in {"starting", "login"}
    BY DEF SessionInit, SessionOpenings, AtLogin, Opened
  <2>2. /\ view = [f \in SessionFields |-> view[f]] /\ view.going = None
        /\ view.source = FALSE /\ view.retry = FALSE /\ view.connected = FALSE
    BY <2>1 DEF SessionView, SessionFields
  <2> QED BY <2>1, <2>2 DEF FrameInv, LiveWhileInside, OnSession, IsInside
<1>2. FrameInv => LiveWhileInside
  BY DEF FrameInv
<1> QED BY <1>1, <1>2, FrameStep, PTL DEF SessionSpec

-----------------------------------------------------------------------------
(* Publishing a message *)

PublishFields == {"queue", "fixed", "loaded", "text", "armed", "models", "naming", "modelName", "rpc", "asking", "result", "failure"}

\* The fields of the editor, and what was said yes to.
EditorInv == view = [f \in PublishFields |-> view[f]] /\ PublishedAsAsked

\* What is in the editor and what was said yes to stay, or nothing is said yes to anymore.
LEMMA EditorKept ==
  ASSUME EditorInv, page' = page, view' = [f \in PublishFields |-> view'[f]],
         view'.armed = None \/ (view'.armed = view.armed /\ view'.text = view.text)
  PROVE  EditorInv'
BY DEF EditorInv, PublishedAsAsked, OnPublish, Problem

\* Every step of the editor keeps the invariant.
LEMMA EditorStep == EditorInv /\ [PublishSteps]_browser => EditorInv'
<1> SUFFICES ASSUME EditorInv, [PublishSteps]_browser
             PROVE  EditorInv'
  OBVIOUS
<1>0. view = [f \in PublishFields |-> view[f]]
  BY DEF EditorInv
<1>1. ASSUME UNCHANGED <<page, view>>
      PROVE  EditorInv'
  BY <1>0, <1>1, EditorKept
<1>2. ASSUME NEW body, \/ view' = Rewritten(view, body)
                       \/ \E name, rpc : view' = [Rewritten(view, body) EXCEPT !.modelName = name, !.rpc = rpc],
             page' = page
      PROVE  EditorInv'
  <2>1. view' = [f \in PublishFields |-> view'[f]] /\ view'.armed = None
    BY <1>0, <1>2 DEF Rewritten, PublishFields
  <2> QED BY <1>2, <2>1, EditorKept
<1>3. CASE \E body \in Bodies : TypeBody(body)
  BY <1>2, <1>3 DEF TypeBody
<1>4. ASSUME NEW s \in Slots, FileOpened(s)
      PROVE  EditorInv'
  BY <1>1, <1>2, <1>4 DEF FileOpened
<1>5. CASE \E m \in view.models.models : UseModel(m)
  BY <1>2, <1>5 DEF UseModel
<1>6. CASE Arm
  <2>1. /\ view' = [f \in PublishFields |-> view'[f]] /\ view'.armed = view'.text /\ view'.text = view.text
        /\ view.text \notin NotJson
    BY <1>0, <1>6 DEF Arm, Problem, PublishFields
  <2> QED BY <2>1 DEF EditorInv, PublishedAsAsked, Problem
<1>7. CASE Disarm \/ Publish
  <2>1. view' = [f \in PublishFields |-> view'[f]] /\ view'.armed = None /\ page' = page
    BY <1>0, <1>7 DEF Disarm, Publish, PublishFields
  <2> QED BY <2>1, EditorKept
<1>8. ASSUME page' = page, \/ \E q : view' = [view EXCEPT !.queue = q]
                           \/ \E q : view' = [view EXCEPT !.queue = q, !.loaded = q]
                           \/ \E name : view' = [view EXCEPT !.naming = TRUE, !.modelName = name]
                           \/ view' = [view EXCEPT !.naming = FALSE]
                           \/ \E models : view' = [view EXCEPT !.models = models]
                           \/ \E models : view' = [view EXCEPT !.models = models, !.naming = FALSE, !.modelName = None]
                           \/ view' = [view EXCEPT !.failure = TRUE]
                           \/ view' = [view EXCEPT !.failure = TRUE, !.asking = FALSE]
                           \/ \E result : view' = [view EXCEPT !.result = result, !.asking = FALSE]
                           \/ view' = [view EXCEPT !.rpc = ~@]
                           \/ view' = view
      PROVE  EditorInv'
  <2>1. view' = [f \in PublishFields |-> view'[f]] /\ view'.armed = view.armed /\ view'.text = view.text
    BY <1>0, <1>8 DEF PublishFields
  <2> QED BY <1>8, <2>1, EditorKept
<1>9. CASE \E q \in Addressed \union {Unnamed} : TypeQueue(q)
  BY <1>8, <1>9 DEF TypeQueue
<1>10. ASSUME NEW s \in Slots, ModelsCame(s) \/ ModelWritten(s) \/ PublishEnds(s)
       PROVE  EditorInv'
  <2>1. CASE ModelsCame(s)
    BY <1>8, <2>1 DEF ModelsCame
  <2>2. CASE ModelWritten(s)
    BY <1>8, <2>2 DEF ModelWritten
  <2>3. CASE PublishEnds(s)
    BY <1>8, <2>3 DEF PublishEnds
  <2> QED BY <1>10, <2>1, <2>2, <2>3
<1>11. CASE (\E name \in Names : NameModel(name)) \/ CancelNaming \/ ToggleRpc
  BY <1>8, <1>11 DEF NameModel, CancelNaming, ToggleRpc
<1>12. CASE OpenFile \/ SaveModel \/ (\E m \in view.models.models : RemoveModel(m)) \/ UNCHANGED browser
  BY <1>1, <1>12 DEF OpenFile, SaveModel, RemoveModel, browser
<1>13. ASSUME NEW s \in Slots, PublishServed(s)
       PROVE  EditorInv'
  BY <1>1, <1>13 DEF PublishServed, Serve, Refuse
<1> QED BY <1>3, <1>4, <1>5, <1>6, <1>7, <1>9, <1>10, <1>11, <1>12, <1>13 DEF PublishSteps

\* What is published is what was in the editor when publishing it was asked for, and can
\* be read: however many queues, bodies, models and requests in flight there are.
THEOREM PublishedAsItWasAsked ==
  ASSUME NEW models
  PROVE  PublishSpec(models) => []PublishedAsAsked
<1>1. PublishInit(models) => EditorInv
  <2> SUFFICES ASSUME PublishInit(models) PROVE EditorInv
    OBVIOUS
  <2>1. view = [f \in PublishFields |-> view[f]] /\ view.armed = None
    BY DEF PublishInit, PublishOpening, Opened, PublishFields
  <2> QED BY <2>1 DEF EditorInv, PublishedAsAsked
<1>2. EditorInv => PublishedAsAsked
  BY DEF EditorInv
<1> QED BY <1>1, <1>2, EditorStep, PTL DEF PublishSpec

-----------------------------------------------------------------------------
(* The workers and the services *)

IsFile(x) == x = [f \in {"items", "folders"} |-> x[f]] /\ x.items = [u \in Units |-> x.items[u]]

\* What a change of the file asks for.
IsChange(change) == change.kind \in {"add", "settings", "remove"}

\* The file that is written back, against the one that was read.
OnlyChosen(change, base, config) ==
  /\ \A u \in Units : \/ u \in change.names /\ (change.kind = "add" => base.items[u] = None)
                      \/ config.items[u] = base.items[u]
  /\ change.kind # "add" => config.folders = base.folders

\* What the continuation makes of the file that was read: the file, but for what was chosen.
LEMMA MutatedKeeps ==
  ASSUME NEW base, IsFile(base), NEW change, IsChange(change)
  PROVE  IsFile(Mutated(base, change)) /\ OnlyChosen(change, base, Mutated(base, change))
<1>1. CASE change.kind = "add"
  <2>1. Mutated(base, change) =
          [items |-> [u \in Units |-> IF u \in change.names /\ base.items[u] = None THEN Plain ELSE base.items[u]],
           folders |-> change.value]
    BY <1>1 DEF Mutated
  <2> DEFINE config == Mutated(base, change)
  <2>2. /\ config = [f \in {"items", "folders"} |-> config[f]]
        /\ config.items = [u \in Units |-> IF u \in change.names /\ base.items[u] = None THEN Plain ELSE base.items[u]]
    BY <2>1
  <2> HIDE DEF config
  <2> QED BY <1>1, <2>2 DEF IsFile, OnlyChosen, config
<1>2. ASSUME NEW value,
             Mutated(base, change) = [base EXCEPT !.items = [u \in Units |-> IF u \in change.names THEN value ELSE @[u]]],
             change.kind # "add"
      PROVE  IsFile(Mutated(base, change)) /\ OnlyChosen(change, base, Mutated(base, change))
  <2> DEFINE config == Mutated(base, change)
  <2>1. /\ config = [f \in {"items", "folders"} |-> config[f]]
        /\ config.items = [u \in Units |-> IF u \in change.names THEN value ELSE base.items[u]]
        /\ config.folders = base.folders
    BY <1>2 DEF IsFile
  <2> HIDE DEF config
  <2> QED BY <1>2, <2>1 DEF IsFile, OnlyChosen, config
<1>3. CASE change.kind = "settings"
  BY <1>2, <1>3 DEF Mutated
<1>4. CASE change.kind = "remove"
  BY <1>2, <1>4 DEF Mutated
<1> QED BY <1>1, <1>3, <1>4 DEF IsChange

\* A question for the file that goes on to change it, and the file written back.
GoodChange(c) ==
  /\ c.op = "file" /\ c.at = "change" => IsChange(c.with)
  /\ c.op = "file" /\ c.stage = "answered" => IsFile(c.answer)
  /\ c.op = "saveFile" => IsFile(c.with.config) /\ OnlyChosen(c.with.change, c.with.base, c.with.config)

\* Of every request about the file, and of the file that is kept.
ChangeInv ==
  /\ CallTable
  /\ \A s \in Slots : calls[s] # None => GoodChange(calls[s])
  /\ stored = [f \in {"units", "file", "spent"} |-> stored[f]]
  /\ IsFile(stored.file)

StoredKept == stored' = [f \in {"units", "file", "spent"} |-> stored'[f]] /\ stored'.file = stored.file

\* Requests that may be sent.
Good(r) == Fresh(r) /\ \A i \in DOMAIN r : GoodChange(r[i])

\* A step that leaves what is kept as it is and asks only good questions keeps the invariant.
LEMMA ChangesKept ==
  ASSUME ChangeInv, StoredKept, NEW r, Good(r),
         Send(r) \/ (\E s \in Slots : Ends(s, r)) \/ UNCHANGED calls
  PROVE  ChangeInv'
<1>1. CASE Send(r)
  <2>1. CallTable' /\ \A q \in Slots : calls'[q] = calls[q] \/ \E i \in DOMAIN r : calls'[q] = r[i]
    BY <1>1, Sending DEF ChangeInv, Good
  <2> QED BY <2>1 DEF ChangeInv, Good, StoredKept
<1>2. ASSUME NEW s \in Slots, Ends(s, r)
      PROVE  ChangeInv'
  <2>1. CallTable' /\ \A q \in Slots : calls'[q] \in {calls[q], None} \/ \E i \in DOMAIN r : calls'[q] = r[i]
    BY <1>2, Ending DEF ChangeInv, Good
  <2> QED BY <2>1 DEF ChangeInv, Good, StoredKept
<1>3. CASE UNCHANGED calls
  BY <1>3 DEF ChangeInv, StoredKept, CallTable
<1> QED BY <1>1, <1>2, <1>3

\* Nothing is asked.
LEMMA NothingAsked == Good(<<>>)
BY Requests DEF Good

\* Nothing but the file written back says what was changed.
LEMMA HarmlessQuestions ==
  ASSUME NEW op, NEW at, NEW with, op # "saveFile", op = "file" => at = "dialog" \/ (at = "change" /\ IsChange(with))
  PROVE  Good(<<Request(op, at, with)>>)
<1>1. Request(op, at, with).op = op /\ Request(op, at, with).at = at /\ Request(op, at, with).with = with
      /\ Request(op, at, with).stage = "sent"
  BY DEF Request
<1>2. GoodChange(Request(op, at, with))
  BY <1>1 DEF GoodChange
<1> QED BY <1>2, Requests DEF Good

\* Every step of the workers and the services keeps the invariant.
LEMMA ChangeStep == ChangeInv /\ [ServiceSteps]_browser => ChangeInv'
<1> SUFFICES ASSUME ChangeInv, [ServiceSteps]_browser
             PROVE  ChangeInv'
  OBVIOUS
<1>a. ASSUME stored' = stored \/ stored' = Spend
      PROVE  StoredKept
  BY <1>a DEF StoredKept, ChangeInv, Spend
<1>b. ASSUME UNCHANGED <<calls, stored>>
      PROVE  ChangeInv'
  BY <1>a, <1>b, NothingAsked, ChangesKept
<1>c. \A f : Good(StatusQuestion) /\ Good(EventsQuestion(f))
  BY HarmlessQuestions DEF StatusQuestion, EventsQuestion
<1>d. ASSUME NEW kind \in {"add", "settings", "remove"}, NEW names, NEW value
      PROVE  Good(<<Change(kind, names, value)>>)
  <2>1. IsChange([kind |-> kind, names |-> names, value |-> value])
    BY DEF IsChange
  <2> QED BY <2>1, HarmlessQuestions DEF Change
<1>1. ASSUME NEW s \in Slots, ServiceServed(s)
      PROVE  ChangeInv'
  <2> DEFINE c == calls[s]
  <2>1. c # None /\ Serve(s, ServiceAnswer(c), ServiceEffect(c)) /\ c.op \in ServiceReads \union UnitCommands \union {"saveFile"}
    BY <1>1 DEF ServiceServed, InStage
  <2>2. /\ CallTable'
        /\ \A q \in Slots \ {s} : calls'[q] = calls[q]
        /\ ServedAs(calls'[s], c, "answered", ServiceAnswer(c)) /\ stored' = ServiceEffect(c)
    BY <2>1, Serving DEF ChangeInv, Serves
  <2>3. GoodChange(c)
    BY <2>1 DEF ChangeInv
  <2>4. stored' = [f \in {"units", "file", "spent"} |-> stored'[f]] /\ IsFile(stored'.file)
    <3>1. stored = [f \in {"units", "file", "spent"} |-> stored[f]] /\ IsFile(stored.file)
      BY DEF ChangeInv
    <3>2. CASE c.op = "saveFile"
      BY <2>2, <2>3, <3>1, <3>2 DEF ServiceEffect, GoodChange
    <3>3. CASE c.op # "saveFile"
      BY <2>2, <3>1, <3>3 DEF ServiceEffect
    <3> QED BY <3>2, <3>3
  <2>5. GoodChange(calls'[s])
    <3>1. c.op = "file" => ServiceAnswer(c) = stored.file
      BY DEF ServiceAnswer
    <3> QED BY <2>2, <2>3, <3>1 DEF GoodChange, ServedAs, ChangeInv
  <2> QED BY <2>2, <2>4, <2>5 DEF ChangeInv
<1>2. ASSUME NEW s \in Slots, ChangeFile(s)
      PROVE  ChangeInv'
  <2> DEFINE base == calls[s].answer
             x == [change |-> calls[s].with, base |-> base, config |-> Mutated(base, calls[s].with)]
             q == Request("saveFile", None, x)
  <2>1. calls[s] # None /\ calls[s].op = "file" /\ calls[s].stage = "answered" /\ calls[s].at = "change"
        /\ Ends(s, <<q>>) /\ UNCHANGED stored
    BY <1>2 DEF ChangeFile, Answer, InStage
  <2>2. IsFile(base) /\ IsChange(calls[s].with)
    BY <2>1 DEF ChangeInv, GoodChange
  <2>3. IsFile(x.config) /\ OnlyChosen(x.change, x.base, x.config)
    BY <2>2, MutatedKeeps
  <2>4. q.op = "saveFile" /\ q.with = x
    BY DEF Request
  <2>5. GoodChange(q) /\ Fresh(<<q>>)
    BY <2>3, <2>4, Requests DEF GoodChange
  <2>6. Good(<<q>>)
    BY <2>5 DEF Good
  <2> QED BY <1>a, <2>1, <2>6, ChangesKept
<1>3. ASSUME NEW s \in Slots, CommandEnds(s) \/ ChangeEnds(s)
      PROVE  ChangeInv'
  BY <1>3, <1>a, <1>c, ChangesKept DEF CommandEnds, ChangeEnds
<1>4. ASSUME NEW s \in Slots, \/ StatusAnswered(s) \/ StatusFailed(s) \/ InstalledAnswered(s) \/ OpenSettings(s)
                              \/ EventsAnswered(s) \/ EventsFailed(s) \/ ServiceUnheard(s)
      PROVE  ChangeInv'
  <2>1. Ends(s, <<>>) /\ UNCHANGED stored
    BY <1>4 DEF StatusAnswered, StatusFailed, InstalledAnswered, OpenSettings, EventsAnswered, EventsFailed, ServiceUnheard
  <2> QED BY <1>a, <2>1, NothingAsked, ChangesKept
<1>5. CASE StatusTimer \/ EventsTimer
  BY <1>5, <1>a, <1>c, ChangesKept DEF StatusTimer, EventsTimer
<1>6. ASSUME NEW f \in Filters, FilterEvents(f)
      PROVE  ChangeInv'
  BY <1>6, <1>a, <1>c, ChangesKept DEF FilterEvents
<1>7. ASSUME NEW op \in UnitCommands, NEW u, NEW with, Command(op, u, with)
      PROVE  ChangeInv'
  <2>1. Good(<<Request(op, u, with)>>)
    BY HarmlessQuestions DEF UnitCommands
  <2> QED BY <1>7, <1>a, <2>1, ChangesKept DEF Command
<1>8. ASSUME NEW u \in Units, \/ ToggleGroup(u) \/ RestartUnit(u) \/ (\E n \in 0..MaxWorkers : ResizeGroup(u, n))
                              \/ \E on \in BOOLEAN : ActOnService(u, on)
      PROVE  ChangeInv'
  BY <1>7, <1>8 DEF ToggleGroup, RestartUnit, ResizeGroup, ActOnService, UnitCommands
<1>9. ASSUME NEW u \in Units, ChooseService(u) \/ AskSettings(u) \/ RemoveService(u)
      PROVE  ChangeInv'
  <2>1. CASE ChooseService(u)
    BY <1>b, <2>1 DEF ChooseService
  <2>2. CASE AskSettings(u)
    BY <1>a, <2>2, HarmlessQuestions, ChangesKept DEF AskSettings
  <2>3. CASE RemoveService(u)
    BY <1>a, <1>d, <2>3, ChangesKept DEF RemoveService
  <2> QED BY <1>9, <2>1, <2>2, <2>3
<1>10. CASE OpenAddServices
  BY <1>10, <1>a, HarmlessQuestions, ChangesKept DEF OpenAddServices
<1>11. CASE DoneAdding
  BY <1>11, <1>a, <1>d, ChangesKept DEF DoneAdding
<1>12. CASE \E choice \in Ways : SaveSettings(choice)
  BY <1>12, <1>a, <1>d, ChangesKept DEF SaveSettings
<1>13. CASE (\E f \in Folders : ChangeFolder(f)) \/ CloseDialog \/ UNCHANGED browser
  BY <1>13, <1>b DEF ChangeFolder, CloseDialog, browser
<1> QED BY <1>1, <1>2, <1>3, <1>4, <1>5, <1>6, <1>8, <1>9, <1>10, <1>11, <1>12, <1>13 DEF ServiceSteps

\* A change of the watched services writes back the file as it was read, but for what was
\* chosen, for any number of services, folders and requests in flight.
THEOREM OnlyWhatWasChosen == ServiceSpec => []OnlyWhatWasChosenChanges
<1>1. ServiceInit => ChangeInv
  <2> SUFFICES ASSUME NEW screen \in {"workers", "services", "events"}, Opened(ServiceOpening(screen), ServiceStored)
               PROVE  ChangeInv
    BY DEF ServiceInit
  <2> DEFINE asks == ServiceOpening(screen).asks
  <2>1. asks = StatusQuestion \/ \E f : asks = EventsQuestion(f)
    BY DEF ServiceOpening
  <2>2. Good(asks)
    BY <2>1, HarmlessQuestions DEF StatusQuestion, EventsQuestion
  <2> HIDE DEF asks
  <2>3. CallTable /\ \A s \in Slots : calls[s] # None => \E i \in DOMAIN asks : calls[s] = asks[i]
    BY <2>2, Opening DEF Good, asks
  <2>4. stored = [f \in {"units", "file", "spent"} |-> stored[f]] /\ IsFile(stored.file)
    BY DEF Opened, ServiceStored, IsFile
  <2> QED BY <2>2, <2>3, <2>4 DEF ChangeInv, Good
<1>2. ChangeInv => OnlyWhatWasChosenChanges
  BY DEF ChangeInv, GoodChange, OnlyChosen, OnlyWhatWasChosenChanges
<1> QED BY <1>1, <1>2, ChangeStep, PTL DEF ServiceSpec

-----------------------------------------------------------------------------
(* The queues *)

\* What each of the screens asks for and orders.
OpsOf(screen) ==
  CASE screen = "queue" -> {"queue", "saveSettings", "clearSettings", "pause", "purge"}
    [] screen = "dead" -> {"deadSummary", "deadLetters", "requeue", "discard", "discardAll"}
    [] OTHER -> {}

OfItsQueue(c) ==
  /\ c.op \in {"queue", "deadLetters"} /\ c.stage = "answered" => c.answer.of = c.at
  /\ c.op \in {"saveSettings", "discardAll"} => c.with.of = c.at

Asks(screen, c) == c.op \in OpsOf(screen) /\ OfItsQueue(c)

\* Every request is of the screen that is open: a queue is opened from the list, which asks nothing.
AskedOfQueues == CallTable /\ \A s \in Slots : calls[s] # None => Asks(page.name, calls[s])

ShownOfQueues ==
  /\ page.name \in {"queues", "queue", "dead", "watch"}
  /\ page.name = "queue" =>
       /\ view = [f \in {"detail", "failed", "saving", "form"} |-> view[f]]
       /\ view.detail # None => view.detail.of = page.at
       /\ view.form # None => view.form = [f \in {"of", "value"} |-> view.form[f]] /\ view.form.of = page.at
  /\ page.name = "dead" =>
       /\ view = [f \in {"summary", "letters"} |-> view[f]]
       /\ view.letters # None => view.letters.of = page.at

\* What is asked and what is shown are of the queue in the address.
QueueInv == AskedOfQueues /\ ShownOfQueues

AsksAll(screen, r) == Fresh(r) /\ \A i \in DOMAIN r : Asks(screen, r[i])

\* A step that stays on its screen and asks what the screen asks keeps what is known of the requests.
LEMMA AskedKept ==
  ASSUME AskedOfQueues, NEW r, AsksAll(page.name, r), page'.name = page.name,
         Send(r) \/ (\E s \in Slots : Ends(s, r)) \/ UNCHANGED calls
  PROVE  AskedOfQueues'
<1>1. CASE Send(r)
  <2>1. CallTable' /\ \A q \in Slots : calls'[q] = calls[q] \/ \E i \in DOMAIN r : calls'[q] = r[i]
    BY <1>1, Sending DEF AskedOfQueues, AsksAll
  <2> QED BY <2>1 DEF AskedOfQueues, AsksAll
<1>2. ASSUME NEW s \in Slots, Ends(s, r)
      PROVE  AskedOfQueues'
  <2>1. CallTable' /\ \A q \in Slots : calls'[q] \in {calls[q], None} \/ \E i \in DOMAIN r : calls'[q] = r[i]
    BY <1>2, Ending DEF AskedOfQueues, AsksAll
  <2> QED BY <2>1 DEF AskedOfQueues, AsksAll
<1>3. CASE UNCHANGED calls
  BY <1>3 DEF AskedOfQueues, CallTable
<1> QED BY <1>1, <1>2, <1>3

\* Nothing is asked.
LEMMA AskingNothing == \A screen : AsksAll(screen, <<>>)
BY Requests DEF AsksAll

\* One request of the screen, that says its queue where it writes.
LEMMA AskingOne ==
  ASSUME NEW screen, NEW op \in OpsOf(screen), NEW at, NEW with, op \in {"saveSettings", "discardAll"} => with.of = at
  PROVE  AsksAll(screen, <<Request(op, at, with)>>) /\ Asks(screen, Request(op, at, with))
<1>1. Request(op, at, with).op = op /\ Request(op, at, with).at = at /\ Request(op, at, with).with = with
      /\ Request(op, at, with).stage = "sent"
  BY DEF Request
<1>2. Asks(screen, Request(op, at, with))
  BY <1>1 DEF Asks, OfItsQueue
<1> QED BY <1>2, Requests DEF AsksAll

\* What the screen of the dead letters asks again, of all the queues and of the one chosen.
LEMMA AskingOfTheDead ==
  ASSUME NEW q
  PROVE  AsksAll("dead", DeadQuestions(q)) /\ AsksAll("dead", <<Request("deadSummary", None, None)>> \o DeadQuestions(q))
<1> DEFINE x == Request("deadSummary", None, None)
           y == Request("deadLetters", q, None)
<1>1. AsksAll("dead", <<x>>) /\ AsksAll("dead", <<y>>) /\ Asks("dead", x) /\ Asks("dead", y)
  <2>1. "deadSummary" \in OpsOf("dead") /\ "deadLetters" \in OpsOf("dead")
    BY DEF OpsOf
  <2> QED BY <2>1, AskingOne
<1>2. IsRequest(x) /\ IsRequest(y)
  BY Requests
<1> HIDE DEF x, y
<1>3. AsksAll("dead", <<x, y>>)
  BY <1>1, <1>2 DEF AsksAll, Fresh, Few
<1>4. <<x>> \o <<>> = <<x>> /\ <<x>> \o <<y>> = <<x, y>>
  BY Pairs
<1>5. DeadQuestions(q) = <<>> \/ DeadQuestions(q) = <<y>>
  BY DEF DeadQuestions, y
<1> QED BY <1>1, <1>3, <1>4, <1>5, AskingNothing DEF x

\* Every step of the screens of the queues keeps the invariant.
LEMMA QueueStep == QueueInv /\ [QueueSteps]_browser => QueueInv'
<1> SUFFICES ASSUME QueueInv, [QueueSteps]_browser
             PROVE  QueueInv'
  OBVIOUS
<1>0. AskedOfQueues /\ ShownOfQueues /\ CallTable
  BY DEF QueueInv, AskedOfQueues
<1>a. ASSUME UNCHANGED <<page, view>>, NEW r, AsksAll(page.name, r),
             Send(r) \/ (\E s \in Slots : Ends(s, r)) \/ UNCHANGED calls
      PROVE  QueueInv'
  BY <1>0, <1>a, AskedKept DEF QueueInv, ShownOfQueues
<1>b. ASSUME UNCHANGED <<page, view, calls>>
      PROVE  QueueInv'
  BY <1>a, <1>b, AskingNothing
<1>c. \A o \in OpsOf("queue") \ {"saveSettings"} : \A at, with : AsksAll("queue", <<Request(o, at, with)>>)
  BY AskingOne DEF OpsOf
<1>d. \A q : AsksAll("queue", QueueQuestion(q))
  BY <1>c DEF QueueQuestion, OpsOf
\* Answers are heard on the screen that asked.
<1>e. ASSUME NEW s \in Slots, calls[s] # None
      PROVE  /\ calls[s].op \in OpsOf("queue") => page.name = "queue"
             /\ calls[s].op \in OpsOf("dead") => page.name = "dead"
             /\ OfItsQueue(calls[s])
  BY <1>0, <1>e DEF AskedOfQueues, Asks, OpsOf, ShownOfQueues
\* The screen of one queue changes what it shows of it.
<1>f. ASSUME page.name = "queue", page' = page, view' = [f \in {"detail", "failed", "saving", "form"} |-> view'[f]],
             view'.detail \in {view.detail, None} \/ view'.detail.of = page.at,
             view'.form \in {view.form, None} \/ (view'.form = [f \in {"of", "value"} |-> view'.form[f]] /\ view'.form.of = page.at),
             NEW r, AsksAll("queue", r),
             Send(r) \/ (\E s \in Slots : Ends(s, r)) \/ UNCHANGED calls
      PROVE  QueueInv'
  <2>1. AskedOfQueues'
    BY <1>0, <1>f, AskedKept
  <2> QED BY <1>0, <1>f, <2>1 DEF QueueInv, ShownOfQueues
<1>g. page.name = "queue" => view = [f \in {"detail", "failed", "saving", "form"} |-> view[f]]
  BY <1>0 DEF ShownOfQueues
<1>1. ASSUME NEW s \in Slots, QueueServed(s)
      PROVE  QueueInv'
  <2> DEFINE c == calls[s]
  <2>1. c # None /\ (Serve(s, QueueAnswer(c), QueueEffect(c)) \/ Refuse(s))
    BY <1>1 DEF QueueServed, InStage
  <2>2. Serves(s, calls'[s]) /\ UNCHANGED <<page, view>>
    BY <1>0, <2>1, Serving
  <2>3. ServedAs(calls'[s], c, "answered", QueueAnswer(c)) \/ ServedAs(calls'[s], c, "refused", c.answer)
    BY <1>0, <2>1, Serving
  <2>4. Asks(page.name, c)
    BY <1>0, <2>1 DEF AskedOfQueues
  <2>5. c.op \in {"queue", "deadLetters"} => QueueAnswer(c).of = c.at
    BY DEF QueueAnswer, QueueDetail
  <2>6. Asks(page.name, calls'[s])
    BY <2>3, <2>4, <2>5 DEF Asks, OfItsQueue, ServedAs
  <2> QED BY <1>0, <2>2, <2>6 DEF QueueInv, AskedOfQueues, ShownOfQueues, Serves
<1>2. ASSUME NEW q \in Queues, NEW query \in {None, "define"}, OpenQueue(q, query)
      PROVE  QueueInv'
  <2>1. page.name = "queues" /\ page'.name = "queue"
    BY <1>2 DEF OpenQueue, QueuePage
  <2>2. \A s \in Slots : calls[s] = None
    BY <1>0, <2>1 DEF AskedOfQueues, Asks, OpsOf
  <2>3. CallTable' /\ \A p \in Slots : calls'[p] = calls[p] \/ \E i \in DOMAIN QueueQuestion(q) : calls'[p] = QueueQuestion(q)[i]
    BY <1>0, <1>2, <1>d, Sending DEF OpenQueue, AsksAll
  <2>4. AskedOfQueues'
    BY <1>d, <2>1, <2>2, <2>3 DEF AskedOfQueues, AsksAll
  <2>5. view' = [f \in {"detail", "failed", "saving", "form"} |-> view'[f]] /\ view'.detail = None /\ view'.form = None
    BY <1>2 DEF OpenQueue
  <2> QED BY <2>1, <2>4, <2>5 DEF QueueInv, ShownOfQueues
<1>3. ASSUME NEW q \in Queues, QueueChanged(q)
      PROVE  QueueInv'
  <2>1. page.name = "queue" /\ page'.name = "queue"
    BY <1>3 DEF QueueChanged, QueuePage
  <2>2. AskedOfQueues'
    BY <1>0, <1>3, <1>d, <2>1, AskedKept DEF QueueChanged
  <2>3. view' = [f \in {"detail", "failed", "saving", "form"} |-> view'[f]] /\ view'.detail = None /\ view'.form = None
    BY <1>3, <1>g, <2>1 DEF QueueChanged
  <2> QED BY <2>1, <2>2, <2>3 DEF QueueInv, ShownOfQueues
<1>4. ASSUME NEW s \in Slots, QueueAnswered(s)
      PROVE  QueueInv'
  <2> DEFINE detail == calls[s].answer
             shown == [view EXCEPT !.detail = detail, !.failed = FALSE]
  <2>1. calls[s] # None /\ calls[s].op = "queue" /\ calls[s].stage = "answered" /\ page.name = "queue" /\ detail.of = calls[s].at
    BY <1>4, <1>e DEF QueueAnswered, Answer, InStage, OpsOf, OfItsQueue
  <2>2. Ends(s, <<>>) /\ page' = page /\ UNCHANGED stored
    BY <1>4 DEF QueueAnswered
  <2>3. shown = [f \in {"detail", "failed", "saving", "form"} |-> shown[f]] /\ shown.detail = detail /\ shown.form = view.form
    BY <1>g, <2>1
  <2> HIDE DEF shown
  <2>4. /\ Editing(shown) = [f \in {"detail", "failed", "saving", "form"} |-> Editing(shown)[f]]
        /\ Editing(shown).detail = detail /\ Editing(shown).form = FormOf(detail, page.at)
    BY <2>3 DEF Editing
  <2>5. FormOf(detail, page.at) = [f \in {"of", "value"} |-> FormOf(detail, page.at)[f]] /\ FormOf(detail, page.at).of = page.at
    BY DEF FormOf
  <2>6. CASE view' = view
    BY <1>a, <2>2, <2>6, AskingNothing
  <2>7. CASE calls[s].at = page.at /\ (view' = shown \/ view' = Editing(shown))
    BY <1>f, <2>1, <2>2, <2>3, <2>4, <2>5, <2>7, AskingNothing
  <2> QED BY <1>4, <2>6, <2>7 DEF QueueAnswered, shown
<1>5. ASSUME NEW s \in Slots, QueueFailed(s) \/ DefinitionSaved(s) \/ DefinitionNotSaved(s)
      PROVE  QueueInv'
  <2>1. page.name = "queue" /\ page' = page
    BY <1>5, <1>e DEF QueueFailed, DefinitionSaved, DefinitionNotSaved, Answer, Failure, InStage, OpsOf
  <2>2. Ends(s, <<>>) \/ Ends(s, QueueQuestion(page.at))
    BY <1>5 DEF QueueFailed, DefinitionSaved, DefinitionNotSaved
  <2>3. /\ view' = [f \in {"detail", "failed", "saving", "form"} |-> view'[f]]
        /\ view'.detail = view.detail /\ view'.form \in {view.form, None}
    BY <1>5, <1>g, <2>1 DEF QueueFailed, DefinitionSaved, DefinitionNotSaved
  <2> QED BY <1>f, <1>d, <2>1, <2>2, <2>3, AskingNothing
<1>6. CASE EditQueue
  <2>1. page.name = "queue" /\ page' = page /\ UNCHANGED calls
    BY <1>6 DEF EditQueue, QueueFormOffered
  <2>2. /\ view' = [f \in {"detail", "failed", "saving", "form"} |-> view'[f]]
        /\ view'.detail = view.detail /\ view'.form = FormOf(view.detail, page.at)
    BY <1>6, <1>g, <2>1 DEF EditQueue, Editing
  <2>3. FormOf(view.detail, page.at) = [f \in {"of", "value"} |-> FormOf(view.detail, page.at)[f]] /\ FormOf(view.detail, page.at).of = page.at
    BY DEF FormOf
  <2> QED BY <1>f, <2>1, <2>2, <2>3, AskingNothing
<1>7. ASSUME NEW d \in Definitions, TypeDefinition(d)
      PROVE  QueueInv'
  <2>1. page.name = "queue" /\ page' = page /\ UNCHANGED calls /\ view.form # None
    BY <1>7 DEF TypeDefinition, QueueFormOffered
  <2>2. view.form = [f \in {"of", "value"} |-> view.form[f]] /\ view.form.of = page.at
    BY <1>0, <2>1 DEF ShownOfQueues
  <2>3. /\ view' = [f \in {"detail", "failed", "saving", "form"} |-> view'[f]]
        /\ view'.detail = view.detail /\ view'.form = [view.form EXCEPT !.value = d]
    BY <1>7, <1>g, <2>1 DEF TypeDefinition
  <2>4. view'.form = [f \in {"of", "value"} |-> view'.form[f]] /\ view'.form.of = page.at
    BY <2>2, <2>3
  <2> QED BY <1>f, <2>1, <2>3, <2>4, AskingNothing
<1>8. CASE CancelDefinition
  <2>1. page.name = "queue" /\ page' = page /\ UNCHANGED calls
    BY <1>8 DEF CancelDefinition, QueueFormOffered
  <2>2. /\ view' = [f \in {"detail", "failed", "saving", "form"} |-> view'[f]]
        /\ view'.detail = view.detail /\ view'.form = None
    BY <1>8, <1>g, <2>1 DEF CancelDefinition
  <2> QED BY <1>f, <2>1, <2>2, AskingNothing
<1>9. CASE SaveDefinition
  <2>1. page.name = "queue" /\ page' = page /\ Send(<<Request("saveSettings", page.at, view.form)>>) /\ view.form # None
    BY <1>9 DEF SaveDefinition, QueueFormOffered
  <2>2. AsksAll("queue", <<Request("saveSettings", page.at, view.form)>>)
    BY <1>0, <2>1, AskingOne DEF ShownOfQueues, OpsOf
  <2>3. /\ view' = [f \in {"detail", "failed", "saving", "form"} |-> view'[f]]
        /\ view'.detail = view.detail /\ view'.form = view.form
    BY <1>9, <1>g, <2>1 DEF SaveDefinition
  <2> QED BY <1>f, <2>1, <2>2, <2>3
<1>10. CASE QueueTimer \/ ResetDefinition \/ TogglePause \/ PurgeQueue
  <2>1. page.name = "queue" /\ UNCHANGED <<page, view>>
    BY <1>10 DEF QueueTimer, ResetDefinition, TogglePause, PurgeQueue, QueueFormOffered
  <2>2. Send(QueueQuestion(page.at)) \/ \E o \in {"clearSettings", "pause", "purge"} : \E at, with : Send(<<Request(o, at, with)>>)
    BY <1>10 DEF QueueTimer, ResetDefinition, TogglePause, PurgeQueue
  <2> QED BY <1>a, <1>c, <1>d, <2>1, <2>2 DEF OpsOf
<1>11. ASSUME NEW s \in Slots, QueueCommanded(s)
       PROVE  QueueInv'
  <2>1. page.name = "queue" /\ page' = page /\ Ends(s, QueueQuestion(page.at))
    BY <1>11, <1>e DEF QueueCommanded, Answer, InStage, OpsOf
  <2>2. /\ view' = [f \in {"detail", "failed", "saving", "form"} |-> view'[f]]
        /\ view'.detail = view.detail /\ view'.form \in {view.form, None}
    BY <1>11, <1>g, <2>1 DEF QueueCommanded
  <2> QED BY <1>f, <1>d, <2>1, <2>2
<1>12. ASSUME NEW s \in Slots, QueueUnheard(s)
       PROVE  QueueInv'
  BY <1>12, <1>a, AskingNothing DEF QueueUnheard
<1>h. page.name = "dead" => view = [f \in {"summary", "letters"} |-> view[f]]
  BY <1>0 DEF ShownOfQueues
<1>i. ASSUME page.name = "dead", page'.name = "dead", view' = [f \in {"summary", "letters"} |-> view'[f]],
             \/ view'.letters = None
             \/ page' = page /\ (view'.letters = view.letters \/ view'.letters.of = page.at),
             NEW r, AsksAll("dead", r),
             Send(r) \/ (\E s \in Slots : Ends(s, r)) \/ UNCHANGED calls
      PROVE  QueueInv'
  <2>1. AskedOfQueues'
    BY <1>0, <1>i, AskedKept
  <2> QED BY <1>0, <1>i, <2>1 DEF QueueInv, ShownOfQueues
<1>13. ASSUME NEW q \in Queues, PickQueue(q)
       PROVE  QueueInv'
  <2>1. page.name = "dead" /\ page'.name = "dead" /\ Send(DeadQuestions(q))
    BY <1>13 DEF PickQueue, Chosen, QueuePage
  <2>2. view' = [f \in {"summary", "letters"} |-> view'[f]] /\ view'.letters = None
    BY <1>13, <1>h, <2>1 DEF PickQueue, Chosen
  <2> QED BY <1>i, <2>1, <2>2, AskingOfTheDead
<1>14. CASE DeadTimer
  BY <1>14, <1>a, AskingOfTheDead DEF DeadTimer
<1>15. ASSUME NEW s \in Slots, DeadSummaryAnswered(s)
       PROVE  QueueInv'
  <2> DEFINE summary == calls[s].answer
  <2>1. page.name = "dead"
    BY <1>15, <1>e DEF DeadSummaryAnswered, Answer, InStage, OpsOf
  <2>2. CASE page.at = None /\ summary # {}
    <3>1. PICK q \in summary : /\ page' = QueuePage("dead", q, None)
                               /\ view' = [view EXCEPT !.summary = summary, !.letters = None]
                               /\ Ends(s, DeadQuestions(q))
      BY <1>15, <2>2 DEF DeadSummaryAnswered
    <3>2. page'.name = "dead" /\ view' = [f \in {"summary", "letters"} |-> view'[f]] /\ view'.letters = None
      BY <1>h, <2>1, <3>1 DEF QueuePage
    <3> QED BY <1>i, <2>1, <3>1, <3>2, AskingOfTheDead
  <2>3. CASE ~(page.at = None /\ summary # {})
    <3>1. view' = [view EXCEPT !.summary = summary] /\ Ends(s, <<>>) /\ page' = page
      BY <1>15, <2>3 DEF DeadSummaryAnswered
    <3>2. view' = [f \in {"summary", "letters"} |-> view'[f]] /\ view'.letters = view.letters
      BY <1>h, <2>1, <3>1
    <3> QED BY <1>i, <2>1, <3>1, <3>2, AskingNothing
  <2> QED BY <2>2, <2>3
<1>16. ASSUME NEW s \in Slots, DeadLettersAnswered(s)
       PROVE  QueueInv'
  <2>1. page.name = "dead" /\ calls[s].answer.of = calls[s].at /\ Ends(s, <<>>) /\ page' = page
    BY <1>16, <1>e DEF DeadLettersAnswered, Answer, InStage, OpsOf, OfItsQueue
  <2>2. CASE calls[s].at = page.at
    <3>1. view' = [f \in {"summary", "letters"} |-> view'[f]] /\ view'.letters = calls[s].answer
      BY <1>16, <1>h, <2>1, <2>2 DEF DeadLettersAnswered
    <3> QED BY <1>i, <2>1, <2>2, <3>1, AskingNothing
  <2>3. CASE calls[s].at # page.at
    BY <1>16, <1>a, <2>1, <2>3, AskingNothing DEF DeadLettersAnswered
  <2> QED BY <2>2, <2>3
<1>17. ASSUME NEW l \in Letters, NEW o \in {"requeue", "discard"}, DisposeOfLetter(o, l)
       PROVE  QueueInv'
  <2>1. AsksAll("dead", <<Request(o, view.letters.of, l)>>)
    BY AskingOne DEF OpsOf
  <2> QED BY <1>17, <1>a, <2>1 DEF DisposeOfLetter
<1>18. CASE DiscardAll
  <2>1. page.name = "dead" /\ view.letters # None
    BY <1>18 DEF DiscardAll
  <2>2. AsksAll("dead", <<Request("discardAll", page.at, view.letters)>>)
    BY <1>0, <2>1, AskingOne DEF ShownOfQueues, OpsOf
  <2> QED BY <1>18, <1>a, <2>1, <2>2 DEF DiscardAll
<1>19. ASSUME NEW s \in Slots, LettersDisposedOf(s)
       PROVE  QueueInv'
  <2>1. page.name = "dead"
    BY <1>19, <1>e DEF LettersDisposedOf, Answer, Failure, InStage, OpsOf
  <2> QED BY <1>19, <1>a, <2>1, AskingOfTheDead DEF LettersDisposedOf
<1>20. CASE ClearWatch \/ WatchBreaks \/ WatchAgain \/ (\E m \in Watched, i \in DOMAIN Kinds : TakeStep(m, Kinds[i]))
  <2>1. page.name = "watch" /\ page' = page /\ UNCHANGED calls
    BY <1>20 DEF ClearWatch, WatchBreaks, WatchAgain, TakeStep
  <2>2. AskedOfQueues'
    BY <1>0, <2>1, AskingNothing, AskedKept
  <2> QED BY <2>1, <2>2 DEF QueueInv, ShownOfQueues
<1>21. CASE MessageDies \/ UNCHANGED browser
  BY <1>21, <1>b DEF MessageDies, browser
<1> QED BY <1>1, <1>2, <1>3, <1>4, <1>5, <1>6, <1>7, <1>8, <1>9, <1>10, <1>11, <1>12, <1>13, <1>14, <1>15, <1>16, <1>17,
           <1>18, <1>19, <1>20, <1>21 DEF QueueSteps

\* A screen of the queues is opened.
LEMMA QueueBegins == QueueInit => QueueInv
<1> SUFFICES ASSUME NEW screen \in {"queues", "dead", "watch"}, Opened(QueueOpening(screen), QueueStored)
             PROVE  QueueInv
  BY DEF QueueInit
<1> DEFINE asks == QueueOpening(screen).asks
<1>1. page.name = screen
  BY DEF Opened, QueueOpening, QueuePage
<1>2. asks = <<>> \/ (screen = "dead" /\ asks = <<Request("deadSummary", None, None)>>)
  BY DEF QueueOpening
<1>3. AsksAll(page.name, asks)
  BY <1>1, <1>2, AskingNothing, AskingOne DEF OpsOf
<1> HIDE DEF asks
<1>4. AskedOfQueues
  BY <1>3, Opening DEF AskedOfQueues, AsksAll, asks
<1>5. screen = "dead" => view = [f \in {"summary", "letters"} |-> view[f]] /\ view.letters = None
  BY DEF Opened, QueueOpening
<1> QED BY <1>1, <1>4, <1>5 DEF QueueInv, ShownOfQueues

\* What the screen of a queue shows, has in its form and writes is of the queue in the
\* address, however the answers of the queues it was opened with before cross.
THEOREM ShownIsOfItsQueue == QueueSpec => []WhatIsShownIsOfItsQueue
<1>1. QueueInit => QueueInv
  BY QueueBegins
<1>2. QueueInv => WhatIsShownIsOfItsQueue
  BY DEF QueueInv, AskedOfQueues, ShownOfQueues, Asks, OfItsQueue, WhatIsShownIsOfItsQueue
<1> QED BY <1>1, <1>2, QueueStep, PTL DEF QueueSpec

-----------------------------------------------------------------------------
(* The messages that go through a queue *)

AllKinds == {"published", "delivered", "confirmed", "dead"}
RowFields == {"at", "body", "state", "took"}
WatchFields == {"rows", "heard", "source"}

\* A row says the furthest of what came of its message, and when it was published, or after.
RowRight(m, row, heard) ==
  /\ row = [f \in RowFields |-> row[f]]
  /\ heard \subseteq AllKinds /\ row.state \in heard
  /\ \A kind \in heard : Rank(kind) <= Rank(row.state)
  /\ row.body \in BOOLEAN /\ (row.body <=> "published" \in heard)
  /\ row.took => {"published", "confirmed"} \subseteq heard
  /\ row.at = IF row.body THEN m ELSE m + Cardinality(Watched)

RowsRight(rows, heard) ==
  /\ DOMAIN rows \subseteq Watched /\ DOMAIN heard = DOMAIN rows
  /\ \A m \in DOMAIN rows : RowRight(m, rows[m], heard[m])

WatchInv ==
  page.name = "watch" =>
    /\ view = [f \in WatchFields |-> view[f]]
    /\ RowsRight(view.rows, view.heard)
    /\ Cardinality(DOMAIN view.rows) <= Kept

\* The order of the kinds.
LEMMA Ranks ==
  /\ Rank("published") = 1 /\ Rank("delivered") = 2 /\ Rank("confirmed") = 3 /\ Rank("dead") = 4
  /\ \A i \in DOMAIN Kinds : Kinds[i] \in AllKinds
<1>1. /\ DOMAIN Kinds = 1..4
      /\ Kinds[1] = "published" /\ Kinds[2] = "delivered" /\ Kinds[3] = "confirmed" /\ Kinds[4] = "dead"
  BY DEF Kinds
<1>2. Rank("published") = 1
  BY <1>1 DEF Rank
<1>3. Rank("delivered") = 2
  BY <1>1 DEF Rank
<1>4. Rank("confirmed") = 3
  BY <1>1 DEF Rank
<1>5. Rank("dead") = 4
  BY <1>1 DEF Rank
<1> QED BY <1>1, <1>2, <1>3, <1>4, <1>5 DEF AllKinds

\* One step of a message more.
LEMMA MergedRight ==
  ASSUME NEW m, NEW kind \in AllKinds, NEW row, NEW heard,
         RowRight(m, row, heard) \/ (row = Followed(m, kind) /\ heard = {})
  PROVE  RowRight(m, Merged(row, m, kind), heard \union {kind})
<1> DEFINE N == Cardinality(Watched)
           advanced == IF Rank(kind) >= Rank(row.state) THEN [row EXCEPT !.state = kind] ELSE row
           described == IF kind = "published"
                        THEN [advanced EXCEPT !.at = Moment(m, kind), !.body = TRUE] ELSE advanced
           merged == IF kind = "confirmed" /\ described.body THEN [described EXCEPT !.took = TRUE] ELSE described
<1>1. Merged(row, m, kind) = merged
  BY DEF Merged
<1>2. /\ row = [f \in RowFields |-> row[f]] /\ heard \subseteq AllKinds /\ row.body \in BOOLEAN
      /\ row.body <=> "published" \in heard
      /\ row.took => {"published", "confirmed"} \subseteq heard
      /\ row.state \in heard \union {kind} /\ \A k \in heard : Rank(k) <= Rank(row.state)
      /\ kind = "published" \/ row.at = IF row.body THEN m ELSE m + N
  <2>1. CASE RowRight(m, row, heard)
    BY <2>1 DEF RowRight
  <2>2. CASE row = Followed(m, kind) /\ heard = {}
    <3> DEFINE at == Moment(m, kind)
               no == FALSE
    <3>1. row = [at |-> at, body |-> no, state |-> kind, took |-> no] /\ (kind = "published" \/ at = m + N)
      BY <2>2 DEF Followed, Moment
    <3>2. ~no
      OBVIOUS
    <3>3. no \in BOOLEAN
      OBVIOUS
    <3> HIDE DEF at, no
    <3>4. row = [f \in RowFields |-> row[f]]
      BY <3>1 DEF RowFields
    <3>5. row.body = no /\ row.state = kind /\ row.took = no /\ row.at = at
      BY <3>1
    <3>6. ~row.body /\ ~row.took /\ row.body \in BOOLEAN
      BY <3>2, <3>3, <3>5
    <3> QED BY <2>2, <3>1, <3>4, <3>5, <3>6
  <2> QED BY <2>1, <2>2
<1> HIDE DEF N
<1> DEFINE after == heard \union {kind}
<1>3. /\ advanced = [f \in RowFields |-> advanced[f]]
      /\ advanced.body = row.body /\ advanced.took = row.took /\ advanced.at = row.at
      /\ advanced.state = (IF Rank(kind) >= Rank(row.state) THEN kind ELSE row.state)
  BY <1>2 DEF RowFields
<1>4. advanced.state \in after /\ \A k \in after : Rank(k) <= Rank(advanced.state)
  BY <1>2, <1>3, Ranks DEF AllKinds
<1> HIDE DEF advanced
<1>5. /\ described = [f \in RowFields |-> described[f]] /\ described.state = advanced.state
      /\ described.took = row.took
  BY <1>3 DEF RowFields
<1>6. /\ described.body \in BOOLEAN /\ (described.body <=> row.body \/ kind = "published")
      /\ described.at = IF described.body THEN m ELSE m + N
  <2>1. CASE kind = "published"
    <3> DEFINE at == Moment(m, kind)
    <3>1. described = [advanced EXCEPT !.at = at, !.body = TRUE] /\ at = m
      BY <2>1 DEF Moment
    <3> HIDE DEF at
    <3>2. described.body = TRUE /\ described.at = m
      BY <1>3, <3>1 DEF RowFields
    <3> QED BY <2>1, <3>2
  <2>2. CASE kind # "published"
    BY <1>2, <1>3, <2>2
  <2> QED BY <2>1, <2>2
<1> HIDE DEF described
<1>7. /\ merged = [f \in RowFields |-> merged[f]] /\ merged.state = advanced.state
      /\ merged.body = described.body /\ merged.at = described.at
  BY <1>5 DEF RowFields
<1>8. merged.took => {"published", "confirmed"} \subseteq after
  BY <1>2, <1>5, <1>6
<1> HIDE DEF merged
<1>9. merged.body <=> "published" \in after
  BY <1>2, <1>6, <1>7
<1>10. after \subseteq AllKinds
  BY <1>2
<1>11. merged.body \in BOOLEAN /\ merged.at = IF merged.body THEN m ELSE m + Cardinality(Watched)
  BY <1>6, <1>7 DEF N
<1>12. RowRight(m, merged, after)
  <2> HIDE DEF after
  <2> QED BY <1>4, <1>7, <1>8, <1>9, <1>10, <1>11 DEF RowRight
<1> QED BY <1>1, <1>12

\* Of rows of different moments no more stay than are kept.
LEMMA NewestAreFew ==
  ASSUME NEW rows, IsFiniteSet(DOMAIN rows), \A m \in DOMAIN rows : rows[m].at \in Nat,
         \A m, o \in DOMAIN rows : rows[m].at = rows[o].at => m = o
  PROVE  /\ DOMAIN Newest(rows) \subseteq DOMAIN rows
         /\ \A m \in DOMAIN Newest(rows) : Newest(rows)[m] = rows[m]
         /\ Cardinality(DOMAIN Newest(rows)) <= Kept
<1> DEFINE Older(m) == {o \in DOMAIN rows : rows[o].at > rows[m].at}
           S == {m \in DOMAIN rows : Cardinality(Older(m)) < Kept}
           T == {rows[m].at : m \in S}
<1>1. Newest(rows) = [m \in S |-> rows[m]]
  BY DEF Newest
<1>2. IsFiniteSet(S) /\ S \subseteq DOMAIN rows
  BY FS_Subset
<1>3. CASE S = {}
  <2> HIDE DEF S
  <2>1. Cardinality(S) = 0
    BY <1>3, FS_EmptySet
  <2> QED BY <1>1, <1>2, <2>1, WatchedAssumption
<1>4. CASE S # {}
  <2>1. T \in SUBSET Nat /\ T # {}
    BY <1>2, <1>4
  <2>2. PICK m \in S : rows[m].at = Min(T)
    BY <2>1, LeastSlot
  <2>3. \A o \in S : rows[m].at <= rows[o].at
    <3>1. \A t \in T : Min(T) <= t
      <4> HIDE DEF T
      <4> QED BY <2>1, LeastSlot
    <3>2. \A o \in S : rows[o].at \in T
      OBVIOUS
    <3> HIDE DEF T, S
    <3> QED BY <2>2, <3>1, <3>2
  <2>4. S \ {m} \subseteq Older(m)
    <3>1. ASSUME NEW o \in S, o # m
          PROVE  o \in DOMAIN rows /\ rows[o].at > rows[m].at
      <4> HIDE DEF S
      <4>1. rows[m].at # rows[o].at /\ rows[m].at \in Nat /\ rows[o].at \in Nat /\ rows[m].at <= rows[o].at
        BY <1>2, <2>3, <3>1
      <4> QED BY <1>2, <3>1, <4>1
    <3> HIDE DEF S
    <3> QED BY <3>1
  <2>5. IsFiniteSet(Older(m))
    BY FS_Subset
  <2>6. Cardinality(S \ {m}) <= Cardinality(Older(m)) /\ Cardinality(S \ {m}) \in Nat /\ Cardinality(Older(m)) \in Nat
    BY <2>4, <2>5, FS_Subset, FS_CardinalityType
  <2>7. Cardinality(S) \in Nat /\ Cardinality(S \ {m}) = Cardinality(S) - 1
    BY <1>2, <2>2, FS_RemoveElement, FS_CardinalityType
  <2>8. Cardinality(Older(m)) < Kept
    BY <2>2
  <2> HIDE DEF S, Older
  <2>9. Cardinality(S) <= Kept
    BY <2>6, <2>7, <2>8, WatchedAssumption
  <2> QED BY <1>1, <1>2, <2>9
<1> QED BY <1>3, <1>4

\* A step of a message is taken into its row, and the rows that are too many go.
LEMMA StepTaken ==
  ASSUME WatchInv, page.name = "watch", NEW m \in Watched, NEW kind \in AllKinds, TakeStep(m, kind)
  PROVE  WatchInv'
<1> DEFINE row == IF m \in DOMAIN view.rows THEN view.rows[m] ELSE Followed(m, kind)
           before == IF m \in DOMAIN view.heard THEN view.heard[m] ELSE {}
           merged == Merged(row, m, kind)
           heard == {kind} \union before
           all == Noted(view.rows, m, merged)
           told == Noted(view.heard, m, heard)
           rows == Newest(all)
           left == [n \in DOMAIN rows |-> told[n]]
<1>0. view = [f \in WatchFields |-> view[f]] /\ RowsRight(view.rows, view.heard)
  BY DEF WatchInv
<1>1. view' = [view EXCEPT !.rows = rows, !.heard = left] /\ page' = page
  BY DEF TakeStep
<1>2. RowRight(m, row, before) \/ (row = Followed(m, kind) /\ before = {})
  BY <1>0 DEF RowsRight
<1>3. RowRight(m, merged, heard)
  <2> HIDE DEF row, before
  <2>1. heard = before \union {kind}
    OBVIOUS
  <2> HIDE DEF heard
  <2> QED BY <1>2, <2>1, MergedRight
<1> HIDE DEF row, before, merged, heard
<1>4. /\ DOMAIN all = DOMAIN view.rows \union {m} /\ DOMAIN told = DOMAIN all
      /\ \A n \in DOMAIN all : RowRight(n, all[n], told[n])
  BY <1>0, <1>3 DEF Noted, RowsRight
<1>5. DOMAIN all \subseteq Watched
  BY <1>0, <1>4 DEF RowsRight
<1> HIDE DEF all, told
<1> DEFINE N == Cardinality(Watched)
<1>6. N \in Nat /\ IsFiniteSet(Watched)
  BY WatchedAssumption, FS_CardinalityType
<1>7. Watched = 1..N
  BY WatchedAssumption
<1>8. \A n \in DOMAIN all : all[n].at = (IF all[n].body THEN n ELSE n + N) /\ n \in 1..N
  BY <1>4, <1>5, <1>7 DEF RowRight
<1> HIDE DEF N
<1>9. \A n \in DOMAIN all : all[n].at \in Nat
  BY <1>6, <1>8
<1>10. \A n, o \in DOMAIN all : all[n].at = all[o].at => n = o
  BY <1>6, <1>8
<1>11. /\ DOMAIN rows \subseteq DOMAIN all /\ \A n \in DOMAIN rows : rows[n] = all[n]
       /\ Cardinality(DOMAIN rows) <= Kept
  <2>1. IsFiniteSet(DOMAIN all)
    BY <1>5, <1>6, FS_Subset
  <2> QED BY <1>9, <1>10, <2>1, NewestAreFew
<1> HIDE DEF rows
<1>12. RowsRight(rows, left)
  BY <1>4, <1>5, <1>11 DEF RowsRight
<1> HIDE DEF left
<1>13. view' = [f \in WatchFields |-> view'[f]] /\ view'.rows = rows /\ view'.heard = left
  BY <1>0, <1>1 DEF WatchFields
<1> QED BY <1>1, <1>11, <1>12, <1>13 DEF WatchInv

\* Nothing is watched yet, or what was is cleared.
LEMMA NothingWatched == RowsRight(<<>>, <<>>) /\ Cardinality(DOMAIN <<>>) <= Kept
<1>1. DOMAIN <<>> = {}
  OBVIOUS
<1>2. Cardinality({}) = 0
  BY FS_EmptySet
<1> QED BY <1>1, <1>2, WatchedAssumption DEF RowsRight

\* Every step of the screens of the queues keeps the rows right.
LEMMA WatchStep == QueueInv /\ WatchInv /\ [QueueSteps]_browser => WatchInv'
<1> SUFFICES ASSUME QueueInv, WatchInv, [QueueSteps]_browser
             PROVE  WatchInv'
  OBVIOUS
<1>1. ASSUME page'.name # "watch"
      PROVE  WatchInv'
  BY <1>1 DEF WatchInv
<1>2. ASSUME UNCHANGED <<page, view>>
      PROVE  WatchInv'
  BY <1>2 DEF WatchInv
<1>3. CASE UNCHANGED browser
  BY <1>2, <1>3 DEF browser
<1>4. ASSUME NEW s \in Slots, calls[s] # None, page.name = "watch"
      PROVE  FALSE
  BY <1>4 DEF QueueInv, AskedOfQueues, Asks, OpsOf
<1>5. ASSUME page.name # "watch", page' = page
      PROVE  WatchInv'
  BY <1>1, <1>5
<1>6. CASE MessageDies
  BY <1>2, <1>6 DEF MessageDies
<1>7. ASSUME NEW q \in Queues, NEW query, OpenQueue(q, query) \/ QueueChanged(q) \/ PickQueue(q)
      PROVE  WatchInv'
  BY <1>1, <1>7 DEF OpenQueue, QueueChanged, PickQueue, Chosen, QueuePage
<1>8. CASE QueueTimer \/ EditQueue \/ CancelDefinition \/ SaveDefinition \/ ResetDefinition \/ TogglePause \/ PurgeQueue
  BY <1>5, <1>8 DEF QueueTimer, EditQueue, CancelDefinition, SaveDefinition, ResetDefinition, TogglePause, PurgeQueue, QueueFormOffered
<1>9. ASSUME NEW d, TypeDefinition(d)
      PROVE  WatchInv'
  BY <1>5, <1>9 DEF TypeDefinition, QueueFormOffered
<1>10. CASE DeadTimer \/ DiscardAll \/ \E l \in Letters, op \in {"requeue", "discard"} : DisposeOfLetter(op, l)
  BY <1>2, <1>10 DEF DeadTimer, DiscardAll, DisposeOfLetter
<1>11. ASSUME NEW m \in Watched, NEW i \in DOMAIN Kinds, TakeStep(m, Kinds[i])
       PROVE  WatchInv'
  <2>1. page.name = "watch" /\ Kinds[i] \in AllKinds
    BY <1>11, Ranks DEF TakeStep
  <2> QED BY <1>11, <2>1, StepTaken
<1>12. CASE ClearWatch
  <2> DEFINE e == <<>>
  <2>1. view' = [view EXCEPT !.rows = e, !.heard = e] /\ page' = page /\ page.name = "watch"
    BY <1>12 DEF ClearWatch
  <2>2. RowsRight(e, e) /\ Cardinality(DOMAIN e) <= Kept
    BY NothingWatched
  <2> HIDE DEF e
  <2> QED BY <2>1, <2>2 DEF WatchInv, WatchFields
<1>13. CASE WatchBreaks \/ WatchAgain
  <2>1. (view' = [view EXCEPT !.source = "retry"] \/ view' = [view EXCEPT !.source = "open"]) /\ page' = page /\ page.name = "watch"
    BY <1>13 DEF WatchBreaks, WatchAgain
  <2>2. view' = [f \in WatchFields |-> view'[f]] /\ view'.rows = view.rows /\ view'.heard = view.heard
    BY <2>1 DEF WatchInv, WatchFields
  <2> QED BY <2>1, <2>2 DEF WatchInv
<1>14. ASSUME NEW s \in Slots,
              \/ QueueServed(s) \/ QueueAnswered(s) \/ QueueFailed(s) \/ DefinitionSaved(s) \/ DefinitionNotSaved(s)
              \/ QueueCommanded(s) \/ DeadLettersAnswered(s) \/ LettersDisposedOf(s) \/ QueueUnheard(s)
       PROVE  WatchInv'
  <2>1. calls[s] # None /\ page' = page
    BY <1>14 DEF QueueServed, Refuse, Serve, QueueAnswered, QueueFailed, DefinitionSaved, DefinitionNotSaved, QueueCommanded,
                 DeadLettersAnswered, LettersDisposedOf, QueueUnheard, Answer, Failure, InStage
  <2> QED BY <1>4, <1>5, <2>1
<1>15. ASSUME NEW s \in Slots, DeadSummaryAnswered(s)
       PROVE  WatchInv'
  <2>1. calls[s] # None /\ (page'.name = "dead" \/ page' = page)
    BY <1>15 DEF DeadSummaryAnswered, QueuePage, Answer, InStage
  <2> QED BY <1>1, <1>4, <1>5, <2>1
<1> QED BY <1>3, <1>6, <1>7, <1>8, <1>9, <1>10, <1>11, <1>12, <1>13, <1>14, <1>15 DEF QueueSteps

\* Steps of a message arrive in any order, again, and after its row fell out: of no more than are
\* kept, each row says the furthest of what came (QueueScreens, WatchSaysTheFurthest).
THEOREM FurthestIsSaid == QueueSpec => []WatchSaysTheFurthest
<1> DEFINE Inv == QueueInv /\ WatchInv
<1>1. QueueInit => Inv
  <2> SUFFICES ASSUME QueueInit PROVE WatchInv
    BY QueueBegins
  <2>1. PICK screen \in {"queues", "dead", "watch"} : Opened(QueueOpening(screen), QueueStored)
    BY DEF QueueInit
  <2>2. page.name = "watch" => view = [rows |-> <<>>, heard |-> <<>>, source |-> "open"]
    BY <2>1 DEF Opened, QueueOpening, QueuePage
  <2> DEFINE e == <<>>
  <2>3. RowsRight(e, e) /\ Cardinality(DOMAIN e) <= Kept
    BY NothingWatched
  <2>4. page.name = "watch" => view = [rows |-> e, heard |-> e, source |-> "open"]
    BY <2>2
  <2> HIDE DEF e
  <2> QED BY <2>3, <2>4 DEF WatchInv, WatchFields
<1>2. Inv => WatchSaysTheFurthest
  BY DEF WatchInv, WatchSaysTheFurthest, RowsRight, RowRight
<1>3. Inv /\ [QueueSteps]_browser => Inv'
  BY QueueStep, WatchStep
<1> QED BY <1>1, <1>2, <1>3, PTL DEF QueueSpec

-----------------------------------------------------------------------------
(* What is edited as a copy *)

GroupFields == {"config", "original", "text", "mode", "wanted", "selected", "removing", "dirty", "saving", "refused", "problem"}
FormFields == {"value", "read", "dirty", "saving", "late", "refused"}

IsForm(x) == x = [f \in Fields |-> x[f]]

\* The file of the groups, and what is asked about it.
FileCall(c) == c.op \in {"workerConfig", "saveWorkerConfig"}

FileInv ==
  /\ view = [f \in GroupFields |-> view[f]]
  /\ view.mode \in {"form", "text"} /\ view.dirty \in BOOLEAN
  /\ view.config # None /\ ~view.dirty =>
       view.config = view.original /\ (view.mode = "text" => view.text = view.original)
  /\ \A s \in Slots : calls[s] # None => FileCall(calls[s])

\* The settings that are kept, asked for and written.
KeptForms ==
  /\ stored = [f \in {"file", "elsewhere", "settings"} |-> stored[f]]
  /\ stored.settings = [form \in Forms |-> stored.settings[form]]
  /\ \A form \in Forms : IsForm(stored.settings[form])

FormCall(c) ==
  \/ c.op = "settings" /\ (c.stage = "answered" => IsForm(c.answer.written))
  \/ c.op = "saveSettingsForm" /\ IsForm(c.with) /\ (c.stage = "answered" => c.answer.written = c.with)

\* Of the ZapMQ and the rules one thing at a time is asked: to be read, when opened, and to be written.
OneQuestion ==
  /\ \A s, q \in Slots : calls[s] # None /\ calls[q] # None => s = q
  /\ \A s \in Slots : calls[s] # None =>
       IF calls[s].op = "settings" THEN view.value = None
       ELSE view.saving /\ (view.value = calls[s].with \/ view.late)

FormInv ==
  /\ page.form \in Forms
  /\ view = [f \in FormFields |-> view[f]]
  /\ view.dirty \in BOOLEAN /\ view.saving \in BOOLEAN /\ view.late \in BOOLEAN
  /\ view.value # None => IsForm(view.value)
  /\ view.value # None /\ ~view.dirty => view.value = view.read \/ (page.form # "environment" /\ view.late)
  /\ \A s \in Slots : calls[s] # None => FormCall(calls[s])
  /\ page.form # "environment" => OneQuestion

\* Of the screen that is open, and of what is kept.
ConfigInv ==
  /\ CallTable
  /\ page.name \in {"groups", "settings"}
  /\ KeptForms
  /\ page.name = "groups" => FileInv
  /\ page.name = "settings" => FormInv

\* The invariant says what the screens promise.
LEMMA ConfigInvSaysIt == ConfigInv => UnsavedIsMarked
BY DEF ConfigInv, FileInv, FormInv, UnsavedIsMarked, OnGroups, OnSettings

\* Where no field differs, the copy on the screen is what was read.
LEMMA NothingDiffers ==
  ASSUME FieldsAssumption, NEW a, IsForm(a), NEW b, IsForm(b), ~(Cardinality({f \in Fields : a[f] # b[f]}) > 0)
  PROVE  a = b
<1> DEFINE D == {f \in Fields : a[f] # b[f]}
<1>1. IsFiniteSet(D) /\ Cardinality(D) \in Nat
  BY FS_Subset, FS_CardinalityType DEF FieldsAssumption
<1>2. D = {}
  BY <1>1, FS_EmptySet
<1>3. \A f \in Fields : a[f] = b[f]
  BY <1>2
<1> QED BY <1>3 DEF IsForm

-----------------------------------------------------------------------------
(* The file of the groups *)

FileAsks(r) == Fresh(r) /\ \A i \in DOMAIN r : FileCall(r[i])

\* A step of the screen of the groups.
FileChanges(r) ==
  /\ UNCHANGED page
  /\ UNCHANGED stored
  /\ Send(r) \/ (\E s \in Slots : Ends(s, r)) \/ UNCHANGED calls

\* A step that says it is unsaved, shows what was read, or touches neither, keeps the invariant.
LEMMA FileKept ==
  ASSUME ConfigInv, page.name = "groups", NEW r, FileAsks(r), FileChanges(r),
         view' = [f \in GroupFields |-> view'[f]], view'.mode \in {"form", "text"}, view'.dirty \in BOOLEAN,
         \/ view'.dirty
         \/ view'.config = view'.original /\ (view'.mode = "text" => view'.text = view'.original)
         \/ view'.config = view.config /\ view'.original = view.original /\ view'.mode = view.mode
              /\ view'.text = view.text /\ view'.dirty = view.dirty
  PROVE  ConfigInv'
<1>1. CallTable' /\ \A q \in Slots : calls'[q] # None => FileCall(calls'[q])
  <2>0. CallTable /\ \A q \in Slots : calls[q] # None => FileCall(calls[q])
    BY DEF ConfigInv, FileInv
  <2>1. CASE Send(r)
    <3>1. CallTable' /\ \A q \in Slots : calls'[q] = calls[q] \/ \E i \in DOMAIN r : calls'[q] = r[i]
      BY <2>0, <2>1, Sending DEF FileAsks
    <3> QED BY <2>0, <3>1 DEF FileAsks
  <2>2. ASSUME NEW s \in Slots, Ends(s, r)
        PROVE  CallTable' /\ \A q \in Slots : calls'[q] # None => FileCall(calls'[q])
    <3>1. CallTable' /\ \A q \in Slots : calls'[q] \in {calls[q], None} \/ \E i \in DOMAIN r : calls'[q] = r[i]
      BY <2>0, <2>2, Ending DEF FileAsks
    <3> QED BY <2>0, <3>1 DEF FileAsks
  <2>3. CASE UNCHANGED calls
    BY <2>0, <2>3 DEF CallTable
  <2> QED BY <2>1, <2>2, <2>3 DEF FileChanges
<1>2. KeptForms' /\ page' = page
  BY DEF ConfigInv, KeptForms, FileChanges
<1>3. FileInv'
  BY <1>1 DEF ConfigInv, FileInv
<1> QED BY <1>1, <1>2, <1>3 DEF ConfigInv

\* What the screen of the groups asks.
LEMMA FileQuestions ==
  FileAsks(<<>>) /\ FileAsks(FileQuestion) /\ \A with : FileAsks(<<Request("saveWorkerConfig", None, with)>>)
<1>1. \A op \in {"workerConfig", "saveWorkerConfig"} : \A with : FileCall(Request(op, None, with))
  BY DEF FileCall, Request
<1> QED BY <1>1, Requests DEF FileAsks, FileQuestion

\* The steps of the groups.
FileSteps ==
  \/ TryAgain
  \/ \E i \in 0..MaxGroups : SelectGroup(i)
  \/ \E g \in Groups : EditGroup(g)
  \/ AddGroup
  \/ AskRemoveGroup
  \/ KeepGroup
  \/ RemoveGroup
  \/ \E text \in Files \union {Broken} : TypeFile(text)
  \/ \E mode \in {"form", "text"} : SwitchMode(mode)
  \/ SaveFile
  \/ DiscardFile
  \/ \E s \in Slots : FileAnswered(s) \/ FileNotAnswered(s) \/ FileSaved(s) \/ FileNotSaved(s)

\* Every step of the screen of the groups keeps the invariant.
LEMMA FileStep ==
  ASSUME ConfigInv, page.name = "groups", FileSteps
  PROVE  ConfigInv'
<1>0. view = [f \in GroupFields |-> view[f]] /\ view.mode \in {"form", "text"} /\ view.dirty \in BOOLEAN
  BY DEF ConfigInv, FileInv
<1>1. ASSUME NEW r, FileAsks(r), FileChanges(r), view' = [f \in GroupFields |-> view'[f]],
             view'.config = view.config, view'.original = view.original, view'.mode = view.mode,
             view'.text = view.text, view'.dirty = view.dirty
      PROVE  ConfigInv'
  BY <1>0, <1>1, FileKept
<1>2. ASSUME FileChanges(<<>>), view' = [f \in GroupFields |-> view'[f]], view'.mode = view.mode, view'.dirty = TRUE
      PROVE  ConfigInv'
  BY <1>0, <1>2, FileKept, FileQuestions
<1>3. CASE TryAgain \/ DiscardFile
  BY <1>0, <1>1, <1>3, FileQuestions DEF TryAgain, DiscardFile, FileChanges
<1>4. ASSUME NEW i \in 0..MaxGroups, SelectGroup(i)
      PROVE  ConfigInv'
  <2>1. FileChanges(<<>>)
    BY <1>4 DEF SelectGroup, FileChanges
  <2> QED BY <1>0, <1>1, <1>4, <2>1, FileQuestions DEF SelectGroup, GroupFields
<1>5. ASSUME NEW g \in Groups, EditGroup(g)
      PROVE  ConfigInv'
  BY <1>0, <1>2, <1>5 DEF EditGroup, Touched, GroupFields, FileChanges
<1>6. CASE AddGroup \/ RemoveGroup
  BY <1>0, <1>2, <1>6 DEF AddGroup, RemoveGroup, Touched, GroupFields, FileChanges
<1>7. CASE AskRemoveGroup \/ KeepGroup
  <2>1. FileChanges(<<>>)
    BY <1>7 DEF AskRemoveGroup, KeepGroup, FileChanges
  <2> QED BY <1>0, <1>1, <1>7, <2>1, FileQuestions DEF AskRemoveGroup, KeepGroup, GroupFields
<1>8. ASSUME NEW text, TypeFile(text)
      PROVE  ConfigInv'
  BY <1>0, <1>2, <1>8 DEF TypeFile, GroupFields, FileChanges
<1>9. ASSUME NEW mode \in {"form", "text"}, SwitchMode(mode)
      PROVE  ConfigInv'
  <2>1. FileChanges(<<>>) /\ view.config # None /\ mode # view.mode
    BY <1>9 DEF SwitchMode, FileChanges, Loaded
  <2>2. ~view.dirty => view.config = view.original /\ (view.mode = "text" => view.text = view.original)
    BY <2>1 DEF ConfigInv, FileInv
  <2>3. /\ view' = [f \in GroupFields |-> view'[f]] /\ view'.mode = mode /\ view'.dirty = view.dirty
        /\ view'.original = view.original
        /\ IF mode = "text" THEN view'.text = view.config /\ view'.config = view.config
           ELSE view'.config = view.text /\ view'.text = view.text
    BY <1>0, <1>9 DEF SwitchMode, GroupFields
  <2> QED BY <1>0, <2>1, <2>2, <2>3, FileKept, FileQuestions
<1>10. CASE SaveFile
  <2>1. PICK r : FileAsks(r) /\ FileChanges(r)
    BY <1>10, FileQuestions DEF SaveFile, FileChanges
  <2>2. /\ view' = [f \in GroupFields |-> view'[f]] /\ view'.config = view.config /\ view'.original = view.original
        /\ view'.mode = view.mode /\ view'.text = view.text /\ view'.dirty = view.dirty
    BY <1>0, <1>10 DEF SaveFile, GroupFields
  <2> QED BY <1>1, <2>1, <2>2
<1>11. ASSUME NEW s \in Slots, FileAnswered(s)
       PROVE  ConfigInv'
  <2>1. FileChanges(<<>>)
    BY <1>11 DEF FileAnswered, FileChanges
  <2>2. /\ view' = [f \in GroupFields |-> view'[f]] /\ view'.mode = view.mode /\ view'.dirty = FALSE
        /\ view'.config = view'.original /\ view'.text = view'.original
    BY <1>0, <1>11 DEF FileAnswered, GroupFields
  <2> QED BY <1>0, <2>1, <2>2, FileKept, FileQuestions
<1>12. ASSUME NEW s \in Slots, FileNotAnswered(s) \/ FileSaved(s) \/ FileNotSaved(s)
       PROVE  ConfigInv'
  <2>1. PICK r : FileAsks(r) /\ FileChanges(r)
    BY <1>12, FileQuestions DEF FileNotAnswered, FileSaved, FileNotSaved, FileChanges
  <2>2. /\ view' = [f \in GroupFields |-> view'[f]] /\ view'.config = view.config /\ view'.original = view.original
        /\ view'.mode = view.mode /\ view'.text = view.text /\ view'.dirty = view.dirty
    BY <1>0, <1>12 DEF FileNotAnswered, FileSaved, FileNotSaved, GroupFields
  <2> QED BY <1>1, <2>1, <2>2
<1> QED BY <1>3, <1>4, <1>5, <1>6, <1>7, <1>8, <1>9, <1>10, <1>11, <1>12 DEF FileSteps

-----------------------------------------------------------------------------
(* The settings *)

FormAsks(r) == Fresh(r) /\ \A i \in DOMAIN r : FormCall(r[i])

Inquires(r) == Send(r) \/ (\E s \in Slots : Ends(s, r)) \/ UNCHANGED calls

\* What is asked about the settings stays known through a step.
LEMMA FormCallsKept ==
  ASSUME ConfigInv, page.name = "settings", NEW r, FormAsks(r), Inquires(r)
  PROVE  CallTable' /\ \A q \in Slots : calls'[q] # None => FormCall(calls'[q])
<1>0. CallTable /\ \A q \in Slots : calls[q] # None => FormCall(calls[q])
  BY DEF ConfigInv, FormInv
<1>1. CASE Send(r)
  <2>1. CallTable' /\ \A q \in Slots : calls'[q] = calls[q] \/ \E i \in DOMAIN r : calls'[q] = r[i]
    BY <1>0, <1>1, Sending DEF FormAsks
  <2> QED BY <1>0, <2>1 DEF FormAsks
<1>2. ASSUME NEW s \in Slots, Ends(s, r)
      PROVE  CallTable' /\ \A q \in Slots : calls'[q] # None => FormCall(calls'[q])
  <2>1. CallTable' /\ \A q \in Slots : calls'[q] \in {calls[q], None} \/ \E i \in DOMAIN r : calls'[q] = r[i]
    BY <1>0, <1>2, Ending DEF FormAsks
  <2> QED BY <1>0, <2>1 DEF FormAsks
<1>3. CASE UNCHANGED calls
  BY <1>0, <1>3 DEF CallTable
<1> QED BY <1>1, <1>2, <1>3 DEF Inquires

\* What the screen of the settings asks.
LEMMA FormQuestions ==
  FormAsks(<<>>) /\ FormAsks(SettingsQuestion) /\ \A with : IsForm(with) => FormAsks(<<Request("saveSettingsForm", None, with)>>)
<1>1. FormCall(Request("settings", None, None))
  BY DEF FormCall, Request
<1>2. \A with : IsForm(with) => FormCall(Request("saveSettingsForm", None, with))
  BY DEF FormCall, Request
<1> QED BY <1>1, <1>2, Requests DEF FormAsks, SettingsQuestion

\* The only question is over.
LEMMA NoQuestionLeft ==
  ASSUME CallTable, OneQuestion, NEW s \in Slots, calls[s] # None, Ends(s, <<>>)
  PROVE  \A q \in Slots : calls'[q] = None
<1>1. calls' = Less(calls, s)
  BY PlusNone DEF Ends
<1> QED BY <1>1 DEF OneQuestion, CallTable, Less

\* Nothing is asked while a save is on its way, nor before the settings came.
LEMMA FirstQuestion ==
  ASSUME CallTable, OneQuestion, view.value # None, ~view.saving, NEW x, Send(<<x>>)
  PROVE  \A s, q \in Slots : calls'[s] # None /\ calls'[q] # None => s = q /\ calls'[s] = x
<1>1. \A s \in Slots : calls[s] = None
  BY DEF OneQuestion
<1>2. calls' = Placed(calls, x)
  BY PlusOne DEF Send
<1> QED BY <1>1, <1>2 DEF Placed, CallTable

\* The steps of the settings.
FormSteps ==
  \/ \E f \in Fields, v \in Values \union {None} : SetSetting(f, v)
  \/ ToggleSection
  \/ SaveSettingsForm
  \/ DiscardSettings
  \/ \E s \in Slots : SettingsAnswered(s) \/ SettingsFormSaved(s) \/ SettingsFormNotSaved(s) \/ SettingsUnread(s)

\* Every step of the screen of the settings keeps the invariant.
LEMMA FormStep ==
  ASSUME FieldsAssumption, ConfigInv, page.name = "settings", FormSteps
  PROVE  ConfigInv'
<1>0. CallTable /\ KeptForms /\ FormInv
  BY DEF ConfigInv
<1>f. /\ view = [f \in FormFields |-> view[f]] /\ page.form \in Forms
      /\ view.dirty \in BOOLEAN /\ view.saving \in BOOLEAN /\ view.late \in BOOLEAN
      /\ view.value # None => IsForm(view.value)
  BY <1>0 DEF FormInv
<1>a. ASSUME NEW r, FormAsks(r), Inquires(r), UNCHANGED <<page, stored>>,
             view' = [f \in FormFields |-> view'[f]],
             view'.dirty \in BOOLEAN, view'.saving \in BOOLEAN, view'.late \in BOOLEAN,
             view'.value # None => IsForm(view'.value),
             view'.value # None /\ ~view'.dirty => view'.value = view'.read \/ (page.form # "environment" /\ view'.late),
             page.form # "environment" => OneQuestion'
      PROVE  ConfigInv'
  <2>1. CallTable' /\ \A q \in Slots : calls'[q] # None => FormCall(calls'[q])
    BY <1>a, FormCallsKept
  <2>2. KeptForms'
    BY <1>0, <1>a DEF KeptForms
  <2>3. FormInv'
    BY <1>f, <1>a, <2>1 DEF FormInv
  <2> QED BY <1>a, <2>1, <2>2, <2>3 DEF ConfigInv
<1>1. ASSUME NEW value, IsForm(value), view.value # None, view' = Typed(value), UNCHANGED <<page, calls, stored>>
      PROVE  ConfigInv'
  <2>1. /\ view' = [f \in FormFields |-> view'[f]] /\ view'.dirty = TRUE /\ view'.value = value
        /\ view'.saving = view.saving /\ view'.late = view.saving
    BY <1>1, <1>f DEF Typed, FormFields
  <2>2. ASSUME page.form # "environment"
        PROVE  OneQuestion'
    BY <1>0, <1>1, <2>1, <2>2 DEF FormInv, OneQuestion
  <2> QED BY <1>a, <1>f, <1>1, <2>1, <2>2, FormQuestions DEF Inquires
<1>2. ASSUME NEW f \in Fields, NEW v, SetSetting(f, v)
      PROVE  ConfigInv'
  <2>1. view.value # None /\ view' = Typed([view.value EXCEPT ![f] = v]) /\ UNCHANGED <<page, calls, stored>>
    BY <1>2 DEF SetSetting
  <2>2. IsForm([view.value EXCEPT ![f] = v])
    BY <1>f, <2>1 DEF IsForm
  <2> QED BY <1>1, <2>1, <2>2
<1>3. CASE ToggleSection
  <2> DEFINE value == [f \in Fields |-> IF f \notin Optional THEN view.value[f]
                                        ELSE IF SectionOn(view.value) THEN Off ELSE None]
  <2>1. view.value # None /\ view' = Typed(value) /\ UNCHANGED <<page, calls, stored>>
    BY <1>3 DEF ToggleSection
  <2>2. IsForm(value)
    BY DEF IsForm
  <2> QED BY <1>1, <2>1, <2>2
<1>4. CASE SaveSettingsForm
  <2> DEFINE x == Request("saveSettingsForm", None, view.value)
  <2>1. view.value # None /\ ~view.saving /\ Send(<<x>>) /\ UNCHANGED <<page, stored>>
    BY <1>4 DEF SaveSettingsForm
  <2>2. FormAsks(<<x>>) /\ x.op = "saveSettingsForm" /\ x.with = view.value
    BY <1>f, <2>1, FormQuestions DEF Request
  <2>3. /\ view' = [f \in FormFields |-> view'[f]] /\ view'.dirty = view.dirty /\ view'.value = view.value
        /\ view'.saving = TRUE /\ view'.late = view.late /\ view'.read = view.read
    BY <1>4, <1>f DEF SaveSettingsForm, FormFields
  <2> HIDE DEF x
  <2>4. ASSUME page.form # "environment"
        PROVE  OneQuestion'
    <3>1. \A s, q \in Slots : calls'[s] # None /\ calls'[q] # None => s = q /\ calls'[s] = x
      BY <1>0, <2>1, <2>4, FirstQuestion DEF FormInv
    <3> QED BY <2>2, <2>3, <3>1 DEF OneQuestion
  <2> QED BY <1>0, <1>a, <1>f, <2>1, <2>2, <2>3, <2>4 DEF Inquires, FormInv
<1>5. CASE DiscardSettings
  <2>1. page.form = "environment" /\ Send(SettingsQuestion) /\ UNCHANGED <<page, stored, view>>
    BY <1>5 DEF DiscardSettings
  <2> QED BY <1>0, <1>a, <1>f, <2>1, FormQuestions DEF Inquires, FormInv
<1>6. ASSUME NEW s \in Slots, SettingsAnswered(s)
      PROVE  ConfigInv'
  <2> DEFINE written == calls[s].answer.written
             value == Filled(calls[s].answer)
             differ == Cardinality({f \in Fields : value[f] # written[f]}) > 0
  <2>1. calls[s] # None /\ calls[s].op = "settings" /\ calls[s].stage = "answered" /\ Ends(s, <<>>) /\ UNCHANGED <<page, stored>>
    BY <1>6 DEF SettingsAnswered, Answer, InStage
  <2>2. IsForm(written)
    BY <1>0, <2>1 DEF FormInv, FormCall
  <2>3. IsForm(value)
    BY DEF IsForm, Filled
  <2>4. ~differ => value = written
    BY <2>2, <2>3, NothingDiffers
  <2>5. differ \in BOOLEAN
    OBVIOUS
  <2>6. /\ view' = [f \in FormFields |-> view'[f]] /\ view'.value = value /\ view'.read = written
        /\ view'.late = FALSE /\ view'.saving = view.saving /\ view'.dirty = differ
    BY <1>6, <1>f DEF SettingsAnswered, FormFields
  <2> HIDE DEF differ, value, written
  <2>7. ASSUME page.form # "environment"
        PROVE  OneQuestion'
    <3>1. \A q \in Slots : calls'[q] = None
      BY <1>0, <2>1, <2>7, NoQuestionLeft DEF FormInv
    <3> QED BY <3>1 DEF OneQuestion
  <2> QED BY <1>a, <1>f, <2>1, <2>3, <2>4, <2>5, <2>6, <2>7, FormQuestions DEF Inquires
<1>7. ASSUME NEW s \in Slots, SettingsFormSaved(s), page.form = "environment"
      PROVE  ConfigInv'
  <2>1. Ends(s, SettingsQuestion) /\ UNCHANGED <<page, stored>>
    BY <1>7 DEF SettingsFormSaved
  <2>2. /\ view' = [f \in FormFields |-> view'[f]] /\ view'.value = view.value /\ view'.read = view.read
        /\ view'.late = view.late /\ view'.saving = FALSE /\ view'.dirty = view.dirty
    BY <1>7, <1>f DEF SettingsFormSaved, FormFields
  <2> QED BY <1>0, <1>7, <1>a, <1>f, <2>1, <2>2, FormQuestions DEF Inquires, FormInv
<1>8. ASSUME NEW s \in Slots, SettingsFormSaved(s), page.form # "environment"
      PROVE  ConfigInv'
  <2>1. calls[s] # None /\ calls[s].op = "saveSettingsForm" /\ calls[s].stage = "answered"
        /\ Ends(s, <<>>) /\ UNCHANGED <<page, stored>>
    BY <1>8 DEF SettingsFormSaved, Answer, InStage
  <2>2. calls[s].answer.written = calls[s].with /\ (view.value = calls[s].with \/ view.late)
    BY <1>0, <1>8, <2>1 DEF FormInv, FormCall, OneQuestion
  <2>3. /\ view' = [f \in FormFields |-> view'[f]] /\ view'.value = view.value /\ view'.read = calls[s].answer.written
        /\ view'.late = view.late /\ view'.saving = FALSE /\ view'.dirty = FALSE
    BY <1>8, <1>f DEF SettingsFormSaved, FormFields
  <2>4. OneQuestion'
    <3>1. \A q \in Slots : calls'[q] = None
      BY <1>0, <1>8, <2>1, NoQuestionLeft DEF FormInv
    <3> QED BY <3>1 DEF OneQuestion
  <2> QED BY <1>8, <1>a, <1>f, <2>1, <2>2, <2>3, <2>4, FormQuestions DEF Inquires
<1>9. ASSUME NEW s \in Slots, SettingsFormNotSaved(s) \/ SettingsUnread(s)
      PROVE  ConfigInv'
  <2>1. calls[s] # None /\ Ends(s, <<>>) /\ UNCHANGED <<page, stored>>
    BY <1>9 DEF SettingsFormNotSaved, SettingsUnread, Failure
  <2>2. /\ view' = [f \in FormFields |-> view'[f]] /\ view'.value = view.value /\ view'.read = view.read
        /\ view'.late = view.late /\ view'.saving \in BOOLEAN /\ view'.dirty = view.dirty
    BY <1>9, <1>f DEF SettingsFormNotSaved, SettingsUnread, FormFields
  <2>3. ASSUME page.form # "environment"
        PROVE  OneQuestion'
    <3>1. \A q \in Slots : calls'[q] = None
      BY <1>0, <2>1, <2>3, NoQuestionLeft DEF FormInv
    <3> QED BY <3>1 DEF OneQuestion
  <2> QED BY <1>0, <1>a, <1>f, <2>1, <2>2, <2>3, FormQuestions DEF Inquires, FormInv
<1> QED BY <1>2, <1>3, <1>4, <1>5, <1>6, <1>7, <1>8, <1>9 DEF FormSteps

-----------------------------------------------------------------------------
(* Both *)

\* Every step of both screens, of the service and of somebody else keeps the invariant.
LEMMA ConfigStep == FieldsAssumption /\ ConfigInv /\ [ConfigSteps]_browser => ConfigInv'
<1> SUFFICES ASSUME FieldsAssumption, ConfigInv, [ConfigSteps]_browser
             PROVE  ConfigInv'
  OBVIOUS
<1>1. /\ \A s \in Slots : calls[s] # None /\ page.name = "groups" => calls[s].op \in {"workerConfig", "saveWorkerConfig"}
      /\ \A s \in Slots : calls[s] # None /\ page.name = "settings" => calls[s].op \in {"settings", "saveSettingsForm"}
      /\ page.name = "groups" \/ page.name = "settings"
  BY DEF ConfigInv, FileInv, FormInv, FileCall, FormCall
<1>2. CASE FileSteps
  <2>1. page.name = "groups"
    <3>1. CASE \E s \in Slots : FileAnswered(s) \/ FileNotAnswered(s) \/ FileSaved(s) \/ FileNotSaved(s)
      BY <1>1, <3>1 DEF FileAnswered, FileNotAnswered, FileSaved, FileNotSaved, Answer, Failure, InStage
    <3> QED BY <1>2, <3>1 DEF FileSteps, TryAgain, SelectGroup, EditGroup, AddGroup, AskRemoveGroup, KeepGroup, RemoveGroup,
                              TypeFile, SwitchMode, SaveFile, DiscardFile, Shaped, Loaded, OnGroups
  <2> QED BY <1>2, <2>1, FileStep
<1>3. CASE FormSteps
  <2>1. page.name = "settings"
    <3>1. CASE \E s \in Slots : SettingsAnswered(s) \/ SettingsFormSaved(s) \/ SettingsFormNotSaved(s) \/ SettingsUnread(s)
      BY <1>1, <3>1 DEF SettingsAnswered, SettingsFormSaved, SettingsFormNotSaved, SettingsUnread, Answer, Failure, InStage
    <3> QED BY <1>3, <3>1 DEF FormSteps, SetSetting, ToggleSection, SaveSettingsForm, DiscardSettings, OnSettings
  <2> QED BY <1>3, <2>1, FormStep
<1>4. ASSUME UNCHANGED <<page, view, calls>>, KeptForms'
      PROVE  ConfigInv'
  BY <1>4 DEF ConfigInv, FileInv, FormInv, OneQuestion, CallTable
<1>5. CASE ChangedElsewhere
  <2>1. KeptForms /\ (page.name = "settings" => page.form \in Forms)
    BY DEF ConfigInv, FormInv
  <2>2. KeptForms'
    <3>1. ASSUME NEW file, stored' = [stored EXCEPT !.elsewhere = @ + 1, !.file = file]
          PROVE  KeptForms'
      BY <2>1, <3>1 DEF KeptForms
    <3>2. ASSUME NEW f \in Fields, NEW v, page.form \in Forms,
                 stored' = [stored EXCEPT !.elsewhere = @ + 1, !.settings[page.form][f] = v]
          PROVE  KeptForms'
      <4> DEFINE form == page.form
                 value == [stored.settings[form] EXCEPT ![f] = v]
      <4>1. IsForm(value)
        BY <2>1, <3>2 DEF KeptForms, IsForm
      <4>2. /\ stored' = [g \in {"file", "elsewhere", "settings"} |-> stored'[g]]
            /\ stored'.settings = [stored.settings EXCEPT ![form] = value]
        BY <2>1, <3>2 DEF KeptForms
      <4> HIDE DEF value
      <4> QED BY <2>1, <4>1, <4>2 DEF KeptForms
    <3> QED BY <1>5, <2>1, <3>1, <3>2 DEF ChangedElsewhere, OnGroups, OnSettings
  <2> QED BY <1>4, <1>5, <2>2 DEF ChangedElsewhere
<1>6. ASSUME NEW s \in Slots, ConfigServed(s)
      PROVE  ConfigInv'
  <2> DEFINE c == calls[s]
  <2>0. KeptForms /\ CallTable
    BY DEF ConfigInv
  <2>1. PICK answer \in ConfigAnswers(c) : c # None /\ Serve(s, answer, ConfigEffect(c))
    BY <1>6 DEF ConfigServed, InStage
  <2>2. /\ Serves(s, calls'[s]) /\ ServedAs(calls'[s], c, "answered", answer)
        /\ stored' = ConfigEffect(c) /\ UNCHANGED <<page, view>>
    BY <2>0, <2>1, Serving
  <2>3. CASE page.name = "groups"
    <3>1. FileCall(c) /\ FileCall(calls'[s])
      BY <2>1, <2>2, <2>3 DEF ConfigInv, FileInv, FileCall, ServedAs
    <3>2. KeptForms'
      BY <2>0, <2>2, <3>1 DEF ConfigEffect, FileCall, KeptForms
    <3> QED BY <2>2, <2>3, <3>1, <3>2 DEF ConfigInv, FileInv, Serves
  <2>4. CASE page.name = "settings"
    <3>1. FormCall(c) /\ page.form \in Forms
      BY <2>1, <2>4 DEF ConfigInv, FormInv
    <3>2. KeptForms'
      <4>1. CASE c.op = "settings"
        BY <2>0, <2>2, <4>1 DEF ConfigEffect, KeptForms
      <4>2. CASE c.op = "saveSettingsForm"
        <5>1. stored' = [stored EXCEPT !.settings[page.form] = c.with] /\ IsForm(c.with)
          BY <2>2, <3>1, <4>2 DEF ConfigEffect, FormCall
        <5>2. /\ stored' = [g \in {"file", "elsewhere", "settings"} |-> stored'[g]]
              /\ stored'.settings = [stored.settings EXCEPT ![page.form] = c.with]
          BY <2>0, <5>1 DEF KeptForms
        <5> HIDE DEF c
        <5> QED BY <2>0, <3>1, <5>1, <5>2 DEF KeptForms
      <4> QED BY <3>1, <4>1, <4>2 DEF FormCall
    <3>3. FormCall(calls'[s])
      <4>1. CASE c.op = "settings"
        <5>1. \E form \in Forms : answer.written = stored.settings[form]
          BY <2>1, <3>1, <4>1 DEF ConfigAnswers, Forms
        <5> QED BY <2>0, <2>2, <4>1, <5>1 DEF FormCall, ServedAs, KeptForms
      <4>2. CASE c.op = "saveSettingsForm"
        <5>1. answer.written = c.with
          BY <2>1, <4>2 DEF ConfigAnswers
        <5> QED BY <2>2, <3>1, <4>2, <5>1 DEF FormCall, ServedAs
      <4> QED BY <3>1, <4>1, <4>2 DEF FormCall
    <3>4. calls'[s].op = c.op /\ calls'[s].with = c.with
      BY <2>2 DEF ServedAs
    <3>5. ASSUME page.form # "environment"
          PROVE  OneQuestion'
      <4>1. OneQuestion
        BY <2>4, <3>5 DEF ConfigInv, FormInv
      <4> QED BY <2>1, <2>2, <3>4, <4>1 DEF OneQuestion, Serves
    <3> QED BY <2>2, <2>4, <3>2, <3>3, <3>5 DEF ConfigInv, FormInv, Serves
  <2> QED BY <1>1, <2>3, <2>4
<1>7. CASE UNCHANGED browser
  BY <1>4, <1>7 DEF browser, ConfigInv, KeptForms
<1> QED BY <1>2, <1>3, <1>5, <1>6, <1>7 DEF ConfigSteps, FileSteps, FormSteps

\* As they are opened, with the question for what they show.
LEMMA ConfigOpened == FieldsAssumption /\ ConfigInit => ConfigInv
<1> SUFFICES ASSUME FieldsAssumption, ConfigInit
             PROVE  ConfigInv
  OBVIOUS
<1>1. PICK n \in 0..MaxElsewhere :
        \/ \E group \in Groups \union {None} : Opened(GroupsOpening(group), [ConfigStored EXCEPT !.elsewhere = n])
        \/ \E form \in Forms : Opened(SettingsOpening(form), [ConfigStored EXCEPT !.elsewhere = n])
  BY DEF ConfigInit
<1>2. stored = [ConfigStored EXCEPT !.elsewhere = n]
  BY <1>1 DEF Opened
<1>3. KeptForms
  <2>1. stored = [f \in {"file", "elsewhere", "settings"} |-> stored[f]] /\ stored.settings = ConfigStored.settings
    <3>1. \E a, b : ConfigStored = [file |-> a, elsewhere |-> 0, settings |-> b]
      BY Zenon DEF ConfigStored
    <3>2. ConfigStored = [f \in {"file", "elsewhere", "settings"} |-> ConfigStored[f]]
      BY <3>1
    <3> QED BY <1>2, <3>2
  <2>2. ConfigStored.settings = [form \in Forms |-> [f \in Fields |-> None]]
    BY DEF ConfigStored
  <2>3. stored.settings = [form \in Forms |-> stored.settings[form]]
    BY <2>1, <2>2
  <2>4. ASSUME NEW form \in Forms
        PROVE  IsForm(stored.settings[form])
    <3>1. stored.settings[form] = [f \in Fields |-> None]
      BY <2>1, <2>2
    <3> QED BY <3>1 DEF IsForm
  <2> QED BY <2>1, <2>3, <2>4 DEF KeptForms
<1>4. ASSUME NEW group, Opened(GroupsOpening(group), stored)
      PROVE  ConfigInv
  <2>1. GroupsOpening(group).asks = FileQuestion
    BY DEF GroupsOpening
  <2>2. CallTable /\ \A s \in Slots : calls[s] # None => FileCall(calls[s])
    BY <1>4, <2>1, FileQuestions, Opening DEF FileAsks
  <2>3. /\ page.name = "groups" /\ view = [f \in GroupFields |-> view[f]]
        /\ view.mode = "form" /\ view.dirty = FALSE /\ view.config = None
    BY <1>4 DEF Opened, GroupsOpening, GroupFields
  <2> QED BY <1>3, <2>2, <2>3 DEF ConfigInv, FileInv
<1>5. ASSUME NEW form \in Forms, Opened(SettingsOpening(form), stored)
      PROVE  ConfigInv
  <2> DEFINE x == Request("settings", None, None)
  <2>1. SettingsOpening(form).asks = SettingsQuestion /\ SettingsQuestion = <<x>>
    BY DEF SettingsOpening, SettingsQuestion
  <2>2. CallTable /\ \A s \in Slots : calls[s] # None => FormCall(calls[s])
    BY <1>5, <2>1, FormQuestions, Opening DEF FormAsks
  <2>3. /\ page.name = "settings" /\ page.form = form /\ view = [f \in FormFields |-> view[f]]
        /\ view.value = None /\ view.dirty = FALSE /\ view.saving = FALSE /\ view.late = FALSE
    BY <1>5 DEF Opened, SettingsOpening, FormFields
  <2>4. OneQuestion
    <3>1. calls = Placed([s \in Slots |-> None], x)
      BY <1>5, <2>1, PlusOne DEF Opened
    <3>2. x.op = "settings"
      BY DEF Request
    <3> HIDE DEF x
    <3>3. \A s, q \in Slots : calls[s] # None /\ calls[q] # None => s = q /\ calls[s] = x
      BY <3>1 DEF Placed
    <3> QED BY <2>3, <3>2, <3>3 DEF OneQuestion
  <2> QED BY <1>3, <2>2, <2>3, <2>4 DEF ConfigInv, FormInv
<1> QED BY <1>1, <1>2, <1>4, <1>5

\* Whatever is on the screen and is not what was last read is said to be unsaved, for any
\* number of groups, of fields and of requests in flight.
THEOREM UnsavedIsAlwaysMarked == ConfigSpec => []UnsavedIsMarked
<1>1. ConfigInit => ConfigInv
  BY ConfigOpened, FieldsAssumption
<1>2. ConfigInv /\ [ConfigSteps]_browser => ConfigInv'
  BY ConfigStep, FieldsAssumption
<1> QED BY <1>1, <1>2, ConfigInvSaysIt, PTL DEF ConfigSpec
==============================================================================
