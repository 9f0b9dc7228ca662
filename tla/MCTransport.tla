----------------------------- MODULE MCTransport -----------------------------
(* A small instance of the screens over which things go from one environment to      *)
(* another, and files of a machine are edited, for TLC: each behaviour is of one.    *)
EXTENDS CatalogScreens, PackageScreens, FileScreens, UploadScreens

\* Three versions of one package, and one of another.
ThreeAndOne == [line : {1}, version : 1..3] \union [line : {2}, version : {1}]

\* A machine with a module, and its whole application that a download may replace.
Whole == Target("frontend", "shop", None, "mfe")
Cart == Target("frontend", "shop", "cart", None)
Machine == <<Cart, Whole>>
Missing == {}

\* One application is packed as often as MaxTasks says, or once beside a version of it that is
\* brought by hand; where it has a module, one packing, the version brought already.
Init ==
  \/ PackingInit
  \/ PackageInit
  \/ FileInit
  \/ UploadInit(UploadStore(<<Whole>>, {}, FALSE, 0))
  \/ UploadInit(UploadStore(<<Whole>>, {Whole}, TRUE, MaxTasks - 1))
  \/ UploadInit([UploadStore(Machine, {Whole}, TRUE, MaxTasks - 1) EXCEPT !.spent = TRUE])

Shown(screens) == page.name \in screens

Next ==
  \/ Shown({"area", "packages", "objects", "picks", "compare"}) /\ PackingSteps
  \/ Shown({"package", "send"}) /\ PackageSteps
  \/ Shown({"application", "proxy"}) /\ FileSteps
  \/ Shown({"uploads"}) /\ UploadSteps

Spec == Init /\ [][Next]_browser

\* An application alone, whose files are opened one after the other.
ApplicationInit == Opened(FileOpening("application"), FileStored)
ApplicationSpec == ApplicationInit /\ [][FileSteps]_browser
=============================================================================
