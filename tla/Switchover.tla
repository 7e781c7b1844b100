----------------------------- MODULE Switchover -----------------------------
(***************************************************************************)
(* What src/runtime-manager.mjs promises of an apply: the release that is  *)
(* supervised, the routes and the loaded configuration move together to    *)
(* what was asked for, or stay.  A commit that fails half-way has moved    *)
(* the routes; they are taken back, or nothing is supervised any more.     *)
(*                                                                         *)
(* RuntimeApply implements it with the steps in which the children are     *)
(* exchanged, ControlPlane with its jobs, its revisions and whatever       *)
(* happens beside them.                                                    *)
(***************************************************************************)
CONSTANTS Configs, Releases, ReleaseOf, None

VARIABLES
  disk,      \* the private configuration in the files
  link,      \* active in active.json
  release,   \* the release that is supervised, or brought back; or None
  routes,    \* the configuration the process routes with
  loaded,    \* the configuration it says it loaded
  attempt    \* the apply under way

serving == <<release, routes, loaded>>
vars == <<disk, link, serving, attempt>>

Runs == loaded # None
Backs == Configs \cup {None}
NoAttempt == [step |-> "none"]
Apply(to, back) == [step |-> "apply", to |-> to, back |-> back]
TakeBack(to, back) == [step |-> "undo", to |-> to, back |-> back]

-----------------------------------------------------------------------------
(* Edits of the files, and commands of other processes.                    *)
Outside ==
  /\ disk' \in Configs /\ link' \in Releases \cup {None}
  /\ UNCHANGED <<serving, attempt>>

(* The files may be edited between the start of the children and the       *)
(* moment the process notes what it loaded.                                *)
Boot ==
  /\ ~Runs
  /\ routes' \in Configs /\ release' = ReleaseOf[routes'] /\ loaded' = disk
  /\ link' \in {link, release'}
  /\ UNCHANGED <<disk, attempt>>

(* The process may die in a commit, when active.json has been replaced.    *)
Die ==
  /\ release' = None /\ routes' = None /\ loaded' = None /\ attempt' = NoAttempt
  /\ link' = link \/ (attempt.step = "apply" /\ link' = ReleaseOf[attempt.to])
  /\ UNCHANGED disk

-----------------------------------------------------------------------------
(* What is on disk is applied; a rollback, which has a way back, puts its  *)
(* target there first.                                                     *)
Begin(to, back) ==
  /\ Runs /\ attempt = NoAttempt
  /\ (IF back = None THEN to ELSE back) = disk
  /\ disk' = to
  /\ attempt' = Apply(to, back)
  /\ UNCHANGED <<link, serving>>

Loads(to) == routes' = to /\ release' = ReleaseOf[to] /\ loaded' = disk'

(* With the children of the same release nothing is waited for.            *)
ReloadAtOnce(to) ==
  /\ Runs /\ attempt = NoAttempt /\ release = ReleaseOf[to]
  /\ disk' = to /\ Loads(to)
  /\ UNCHANGED <<link, attempt>>

Succeed(to, back) ==
  /\ attempt = Apply(to, back) /\ release # None
  /\ Loads(to)
  /\ link' = IF release' = release THEN link ELSE release'
  /\ attempt' = NoAttempt
  /\ UNCHANGED disk

(* Of a failed rollback the files are put back, unless that fails too.     *)
Ended(back) ==
  /\ attempt' = NoAttempt
  /\ disk' = disk \/ (back # None /\ disk' = back)
Relinked == link' = link \/ (release # None /\ link' = release)

Fail(to, back) ==
  /\ attempt = Apply(to, back)
  /\ release' \in {release, None}
  /\ Relinked /\ Ended(back)
  /\ UNCHANGED <<routes, loaded>>

CommitFails(to, back) ==
  /\ attempt = Apply(to, back) /\ release \notin {None, ReleaseOf[to]}
  /\ routes' = to /\ link' \in {link, ReleaseOf[to]}
  /\ attempt' = TakeBack(routes, back)
  /\ UNCHANGED <<disk, release, loaded>>

TakenBack(to, back) ==
  /\ attempt = TakeBack(to, back)
  /\ routes' = to /\ link' = release
  /\ Ended(back)
  /\ UNCHANGED <<release, loaded>>

Strand(to, back) ==
  /\ attempt = TakeBack(to, back)
  /\ routes' \in {routes, to} /\ release' = None
  /\ Relinked /\ Ended(back)
  /\ UNCHANGED loaded

-----------------------------------------------------------------------------
Init ==
  /\ disk \in Configs /\ link \in Releases \cup {None} /\ attempt = NoAttempt
  /\ \/ release = None /\ routes = None /\ loaded = None
     \/ release = ReleaseOf[disk] /\ routes = disk /\ loaded = disk

Next ==
  \/ Outside \/ Boot \/ Die
  \/ \E to \in Configs : ReloadAtOnce(to)
  \/ \E to \in Configs, back \in Backs :
       \/ Begin(to, back) \/ Succeed(to, back) \/ Fail(to, back)
       \/ CommitFails(to, back) \/ TakenBack(to, back) \/ Strand(to, back)

Spec == Init /\ [][Next]_vars

(* Requests are routed for the release whose children are supervised,      *)
(* except while a failed commit is taken back.                             *)
RoutesFitRelease ==
  Runs /\ release # None /\ attempt.step # "undo" => release = ReleaseOf[routes]
=============================================================================
