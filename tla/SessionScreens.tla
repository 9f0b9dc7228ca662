---------------------------- MODULE SessionScreens ----------------------------
(* Who is in: the way in, the session that the service may refuse at any request, the   *)
(* way back to where one was, the connection over which the state of the broker keeps   *)
(* coming, and the screen of the users.                                                 *)
EXTENDS Browser

CONSTANTS Logins,     \* who may be a user
          Master,     \* the one that manages the others
          Addresses,  \* of the screens: Home, UsersAddress and others
          MaxActs,    \* how many kinds of thing happen to the users, each of them once
          MaxBreaks   \* how often the connection breaks

Home == "/"
UsersAddress == "/usuarios"

AtLogin(back) == [name |-> "login", back |-> back]
Inside(at) == [name |-> "inside", at |-> at]
OnLogin == page.name = "login"
IsInside == page.name = "inside"
OnSession == page.name \in {"starting", "login", "inside"}

-----------------------------------------------------------------------------
(* The service: the users, and the cookie the browser keeps *)

\* The cookie is signed with a key of this start, and says the stamp its user had.
Issued(u, store) == [of |-> u, stamp |-> store.accounts[u].stamp, start |-> store.start]

Valid(cookie) ==
  /\ cookie # None
  /\ cookie.start = stored.start
  /\ stored.accounts[cookie.of].enabled
  /\ cookie.stamp = stored.accounts[cookie.of].stamp

\* A login that is not there, or not anymore.
Absent == [enabled |-> FALSE, stamp |-> 0]
Exists(u) == stored.accounts[u].stamp > 0

Managing == {"createUser", "enableUser", "disableUser", "deleteUser", "resetPassword"}

\* The master is not disabled nor deleted, and changes its own password as everybody does.
ManageRefused(op, u) ==
  IF op = "createUser" THEN Exists(u) ELSE ~Exists(u) \/ u = Master

Managed(op, u, store) ==
  LET account == store.accounts[u]
      become(enabled, stamp) == [store EXCEPT !.accounts[u] = [enabled |-> enabled, stamp |-> stamp]]
  IN  CASE op = "createUser" -> become(TRUE, 1)
        [] op = "deleteUser" -> [store EXCEPT !.accounts[u] = Absent]
        [] op = "resetPassword" -> become(account.enabled, account.stamp + 1)
        [] OTHER -> IF account.enabled = (op = "enableUser") THEN store ELSE become(op = "enableUser", account.stamp + 1)

\* Everything but the way in and out asks for a session; the users are the master's.
SessionRefuses(c) ==
  CASE c.op \in {"login", "logout"} -> c.op = "login" /\ ~stored.accounts[c.with.user].enabled
    [] OTHER -> ~Valid(c.at)

UsersShown == {u \in Logins : Exists(u)}

\* What is not taken is said, and changes nothing.
SessionServes(c) ==
  CASE c.op = "session" -> [answer |-> c.at, after |-> stored]
    [] c.op = "login" -> [answer |-> Issued(c.with.user, stored), after |-> stored]
    [] c.op = "changePassword" ->
         LET after == [stored EXCEPT !.accounts[c.at.of].stamp = @ + 1]
         IN  [answer |-> Issued(c.at.of, after), after |-> after]
    [] c.op = "users" -> [answer |-> IF c.at.of = Master THEN UsersShown ELSE None, after |-> stored]
    [] c.op \in Managing ->
         IF c.at.of # Master \/ ManageRefused(c.op, c.with) THEN [answer |-> None, after |-> stored]
         ELSE [answer |-> c.with, after |-> Managed(c.op, c.with, stored)]
    [] OTHER -> [answer |-> None, after |-> stored]

SessionOps == {"session", "login", "logout", "changePassword", "poll", "users"} \union Managing

SessionServed(s) ==
  /\ InStage(s, SessionOps, "sent")
  /\ IF SessionRefuses(calls[s]) THEN Refuse(s)
     ELSE LET served == SessionServes(calls[s]) IN Serve(s, served.answer, served.after)

MayAct(kind) == kind \notin stored.acts /\ Cardinality(stored.acts) < MaxActs
Acted(kind, store) == [store EXCEPT !.acts = @ \union {kind}]

\* Another master, or the same one elsewhere.
ManagedElsewhere(op, u) ==
  /\ MayAct("managed elsewhere")
  /\ ~ManageRefused(op, u)
  /\ stored' = Acted("managed elsewhere", Managed(op, u, stored))
  /\ UNCHANGED <<page, view, calls>>

\* A new key: the sessions end.
ServiceStartsAgain ==
  /\ MayAct("service restarted")
  /\ stored' = Acted("service restarted", [stored EXCEPT !.start = @ + 1])
  /\ UNCHANGED <<page, view, calls>>

-----------------------------------------------------------------------------
(* Who is logged in, as far as the screens know *)

\* The cookie goes with every request.
Asked(op, with) == Request(op, stored.cookie, with)

Accepted(v, cookie) == [v EXCEPT !.user = cookie.of, !.master = cookie.of = Master]

\* Nobody gets in without a session, nor the users on screen but for the master.
Guarded(v, target) ==
  IF target.name = "login" \/ (~IsInside /\ v.user = None)
  THEN AtLogin(IF target.name = "login" THEN target.back ELSE IF target.at = Home THEN None ELSE target.at)
  ELSE IF target.at = UsersAddress /\ ~v.master THEN Inside(Home) ELSE target

\* Another navigation takes the place of one that has not ended.
Navigating(v, target) == [v EXCEPT !.going = Guarded(v, target)]

Entering(v, back) == Navigating(v, Inside(IF back = None THEN Home ELSE back))

\* Back to the way in, remembering where the user was.
Expired(v, comeBack) ==
  LET wasIn == comeBack /\ v.user # None
      out   == [v EXCEPT !.user = None, !.master = FALSE]
  IN  IF OnLogin THEN out
      ELSE Navigating(out, AtLogin(IF wasIn /\ page.at # Home THEN page.at ELSE None))

\* Mutant: the frame goes and leaves the retry of its connection behind.
NavigationEndsRetrying ==
  /\ OnSession
  /\ view.going # None
  /\ LET target == view.going
         arrived == [view EXCEPT !.going = None, !.users = None,
                                 !.source = target.name = "inside" /\ (IsInside => @),
                                 !.connected = @ /\ target.name = "inside"]
     IN  /\ page' = target
         /\ view' = IF target.name = "login" /\ view.user # None
                    THEN [arrived EXCEPT !.going = Inside(IF target.back = None THEN Home ELSE target.back)]
                    ELSE arrived
         /\ Send(IF target = Inside(UsersAddress) THEN <<Asked("users", None)>> ELSE <<>>)
  /\ UNCHANGED stored

\* The address is another only when what is there was loaded.  The frame around every screen
\* starts the connection, and stops it when it goes; whoever is in already skips the form.
\* A dialog stays over whatever comes.
NavigationEnds ==
  /\ OnSession
  /\ view.going # None
  /\ LET target == view.going
         arrived == [view EXCEPT !.going = None, !.users = None,
                                 !.source = target.name = "inside" /\ (IsInside => @),
                                 !.connected = @ /\ target.name = "inside",
                                 !.retry = @ /\ target.name = "inside"]
     IN  /\ page' = target
         /\ view' = IF target.name = "login" /\ view.user # None
                    THEN [arrived EXCEPT !.going = Inside(IF target.back = None THEN Home ELSE target.back)]
                    ELSE arrived
         /\ Send(IF target = Inside(UsersAddress) THEN <<Asked("users", None)>> ELSE <<>>)
  /\ UNCHANGED stored

GoTo(a) ==
  /\ IsInside
  /\ view.dialog = None
  /\ a # page.at
  /\ view' = Navigating(view, Inside(a))
  /\ UNCHANGED <<page, calls, stored>>

\* with: where to, whoever is in.  Afterwards it is answered from memory.
SessionKnown(s) ==
  /\ \E inside \in BOOLEAN :
       /\ IF inside THEN Answer(s, "session") ELSE Failure(s, "session")
       /\ LET known == IF inside THEN Accepted(view, calls[s].answer) ELSE [view EXCEPT !.user = None]
          IN  view' = IF inside THEN Entering(known, calls[s].with)
                      ELSE IF page.name = "starting" THEN Navigating(known, Inside(calls[s].with))
                      ELSE known
  /\ Ends(s, <<>>)
  /\ UNCHANGED <<page, stored>>

SubmitLogin(u) ==
  /\ OnLogin
  /\ ~view.busy /\ view.dialog = None
  /\ view' = [view EXCEPT !.busy = TRUE]
  /\ Send(<<Asked("login", [user |-> u, back |-> page.back])>>)
  /\ UNCHANGED <<page, stored>>

LoginEnds(s) ==
  /\ \/ /\ Answer(s, "login")
        /\ stored' = [stored EXCEPT !.cookie = calls[s].answer]
        /\ view' = Entering([Accepted(view, calls[s].answer) EXCEPT !.busy = FALSE], calls[s].with.back)
     \/ /\ Failure(s, "login")
        /\ view' = [view EXCEPT !.busy = FALSE]
        /\ UNCHANGED stored
  /\ Ends(s, <<>>)
  /\ UNCHANGED page

LogOut ==
  /\ IsInside
  /\ view.dialog = None
  /\ MayAct("logout")
  /\ Send(<<Asked("logout", None)>>)
  /\ stored' = Acted("logout", stored)
  /\ UNCHANGED <<page, view>>

\* Answered or not, whoever comes in next starts at the beginning.
LoggedOut(s) ==
  /\ \/ Answer(s, "logout") /\ stored' = [stored EXCEPT !.cookie = None]
     \/ Failure(s, "logout") /\ UNCHANGED stored
  /\ view' = Expired(view, FALSE)
  /\ Ends(s, <<>>)
  /\ UNCHANGED page

\* Every screen reads again and again.
Poll ==
  /\ IsInside
  /\ Send(<<Asked("poll", None)>>)
  /\ UNCHANGED <<page, view, stored>>

PollAnswered(s) ==
  /\ Answer(s, "poll") \/ (Failure(s, "poll") /\ calls[s].stage # "refused")
  /\ Ends(s, <<>>)
  /\ UNCHANGED <<page, view, stored>>

\* The session was refused, at whatever was asked.
ThrownOut(s, op) ==
  /\ OnSession
  /\ InStage(s, {op}, "refused")
  /\ op \notin {"session", "login", "logout"}
  /\ view' = LET out == Expired(view, TRUE)
             IN  IF view.dialog # None /\ view.dialog.op = op THEN [out EXCEPT !.dialog.busy = FALSE] ELSE out
  /\ Ends(s, IF op \in {"enableUser", "disableUser", "deleteUser"} THEN <<Asked("users", None)>> ELSE <<>>)
  /\ UNCHANGED <<page, stored>>

-----------------------------------------------------------------------------
(* The dialogs: a user's own password, a new user, another password for one *)

OpenDialog(op, u) ==
  /\ IsInside
  /\ view.dialog = None
  /\ MayAct(op)
  /\ op # "changePassword" => page.at = UsersAddress /\ view.users # None /\ (op = "createUser" \/ u \in view.users \ {Master})
  /\ view' = [view EXCEPT !.dialog = [op |-> op, user |-> u, busy |-> FALSE]]
  /\ UNCHANGED <<page, calls, stored>>

SaveDialog ==
  /\ OnSession
  /\ view.dialog # None
  /\ ~view.dialog.busy
  /\ MayAct(view.dialog.op)
  /\ view' = [view EXCEPT !.dialog.busy = TRUE]
  /\ Send(<<Asked(view.dialog.op, view.dialog.user)>>)
  /\ stored' = Acted(view.dialog.op, stored)
  /\ UNCHANGED page

CancelDialog ==
  /\ OnSession
  /\ view.dialog # None
  /\ view' = [view EXCEPT !.dialog = None]
  /\ UNCHANGED <<page, calls, stored>>

\* Taken, the dialog closes; refused or lost, it says so.  The session goes on with the new
\* password.
DialogEnds(s) ==
  /\ \E op \in {"changePassword", "createUser", "resetPassword"} :
       LET mine    == view.dialog # None /\ view.dialog.op = op
           over(v) == IF mine THEN [v EXCEPT !.dialog = None] ELSE v
           said(v) == IF mine THEN [v EXCEPT !.dialog.busy = FALSE] ELSE v
       IN  \/ /\ Answer(s, op)
              /\ calls[s].answer # None
              /\ view' = over(IF op = "changePassword" THEN Accepted(view, calls[s].answer) ELSE view)
              /\ stored' = IF op = "changePassword" THEN [stored EXCEPT !.cookie = calls[s].answer] ELSE stored
              /\ Ends(s, IF mine /\ op # "changePassword" THEN <<Asked("users", None)>> ELSE <<>>)
           \/ /\ Failure(s, op)
              /\ calls[s].stage # "refused"
              /\ view' = said(view)
              /\ Ends(s, <<>>)
              /\ UNCHANGED stored
  /\ UNCHANGED page

-----------------------------------------------------------------------------
(* The users *)

UsersAnswered(s) ==
  /\ \/ /\ Answer(s, "users")
        /\ view' = IF page = Inside(UsersAddress) /\ calls[s].answer # None
                   THEN [view EXCEPT !.users = calls[s].answer] ELSE view
     \/ Failure(s, "users") /\ calls[s].stage # "refused" /\ UNCHANGED view
  /\ Ends(s, <<>>)
  /\ UNCHANGED <<page, stored>>

ManageUser(op, u) ==
  /\ page = Inside(UsersAddress)
  /\ view.dialog = None
  /\ view.users # None
  /\ u \in view.users \ {Master}
  /\ MayAct(op)
  /\ Send(<<Asked(op, u)>>)
  /\ stored' = Acted(op, stored)
  /\ UNCHANGED <<page, view>>

\* Taken or not, the users are read again.
UserManaged(s) ==
  /\ \E op \in {"enableUser", "disableUser", "deleteUser"} :
       Answer(s, op) \/ (Failure(s, op) /\ calls[s].stage # "refused")
  /\ Ends(s, <<Asked("users", None)>>)
  /\ UNCHANGED <<page, view, stored>>

-----------------------------------------------------------------------------
(* The connection over which the state of the broker keeps coming *)

\* Mutant: nobody tries again.
ChannelBrokenForGood == [view EXCEPT !.connected = FALSE, !.source = FALSE]

ChannelBroken == [view EXCEPT !.connected = FALSE, !.source = FALSE, !.retry = TRUE]

LiveArrives ==
  /\ OnSession
  /\ view.source
  /\ Valid(stored.cookie)
  /\ ~view.connected
  /\ view' = [view EXCEPT !.connected = TRUE]
  /\ UNCHANGED <<page, calls, stored>>

\* Refused, the browser gives up, and it is tried again from scratch after a while.
LiveRefused ==
  /\ OnSession
  /\ view.source
  /\ ~view.connected
  /\ ~Valid(stored.cookie)
  /\ view' = ChannelBroken
  /\ UNCHANGED <<page, calls, stored>>

\* Only interrupted, the browser opens it again by itself; or else it gives up.
LiveBreaks ==
  /\ OnSession
  /\ view.source
  /\ stored.breaks < MaxBreaks
  /\ \/ view' = [view EXCEPT !.connected = FALSE]
     \/ view' = ChannelBroken
  /\ stored' = [stored EXCEPT !.breaks = @ + 1]
  /\ UNCHANGED <<page, calls>>

LiveRetried ==
  /\ OnSession
  /\ view.retry
  /\ view' = [view EXCEPT !.retry = FALSE, !.source = TRUE]
  /\ UNCHANGED <<page, calls, stored>>

-----------------------------------------------------------------------------

\* The panel is opened at a screen, or at the way in, with a session from before or none.
SessionView ==
  [user |-> None, master |-> FALSE, going |-> None, busy |-> FALSE, dialog |-> None, users |-> None,
   source |-> FALSE, connected |-> FALSE, retry |-> FALSE]

SessionStore(cookie) ==
  [accounts |-> [u \in Logins |-> [enabled |-> TRUE, stamp |-> 1]], start |-> 1, cookie |-> cookie,
   acts |-> {}, breaks |-> 0]

SessionOpenings(cookie) ==
  {[page |-> [name |-> "starting"], view |-> SessionView, asks |-> <<Request("session", cookie, a)>>] : a \in Addresses}
    \union {[page |-> AtLogin(None), view |-> SessionView, asks |-> <<Request("session", cookie, None)>>]}

SessionHeard(s) ==
  \/ SessionKnown(s)
  \/ LoginEnds(s)
  \/ LoggedOut(s)
  \/ PollAnswered(s)
  \/ DialogEnds(s)
  \/ UsersAnswered(s)
  \/ UserManaged(s)

SessionSteps ==
  \/ \E u \in Logins, op \in Managing : ManagedElsewhere(op, u) \/ ManageUser(op, u)
  \/ ServiceStartsAgain
  \/ NavigationEnds
  \/ \E a \in Addresses : GoTo(a)
  \/ \E u \in Logins : SubmitLogin(u)
  \/ LogOut
  \/ Poll
  \/ \E u \in Logins, op \in {"changePassword", "createUser", "resetPassword"} : OpenDialog(op, u)
  \/ SaveDialog
  \/ CancelDialog
  \/ LiveArrives
  \/ LiveRefused
  \/ LiveBreaks
  \/ LiveRetried
  \/ \E s \in Slots : \/ SessionServed(s)
                      \/ SessionHeard(s)
                      \/ \E op \in SessionOps : ThrownOut(s, op)

\* cookie: of a session that began before, or none.
SessionInit(cookie) == \E o \in SessionOpenings(cookie) : Opened(o, SessionStore(cookie))
SessionSpec(cookie) == SessionInit(cookie) /\ [][SessionSteps]_browser

-----------------------------------------------------------------------------
(* What must hold *)

\* Through breaks, retries, navigations that overtake one another and sessions that end:
\* there is one connection, or one retry, exactly while the frame of the screens is there.
LiveWhileInside ==
  OnSession =>
    /\ ~(view.source /\ view.retry)
    /\ IsInside <=> view.source \/ view.retry
    /\ view.connected => view.source

\* Whoever is disabled, given another password or left behind by a restart is thrown out in
\* the end, and to whoever stays the state of the broker keeps coming.
WhoStaysIsConnected ==
  LET connected == OnSession /\ IsInside /\ Valid(stored.cookie) /\ view.connected
  IN  <>[]IsInside => <>[]connected
=============================================================================
