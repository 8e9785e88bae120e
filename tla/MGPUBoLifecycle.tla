--------------------------- MODULE MGPUBoLifecycle ---------------------------
(***************************************************************************)
(* What a reference-counted buffer object promises its users, without     *)
(* locks, indexes or the steps of the free path.                          *)
(*                                                                         *)
(* A BO is created live with one owner, its handle.  While it is live it  *)
(* can gain owners: a thread whose lookup succeeded, a mapping made from  *)
(* such a lookup, a mapping copied from another one.  Owners let go one  *)
(* at a time, and the step that removes the last owner is the one that    *)
(* kills the BO.  A dead BO never comes back and gains no owner.          *)
(***************************************************************************)
EXTENDS Naturals

CONSTANTS Threads

VARIABLES
    life,     \* "unborn", "live", "dead"
    handle,   \* the handle still owns its reference
    users,    \* threads owning a reference obtained by a lookup
    maps      \* number of mappings owning a reference

vars == <<life, handle, users, maps>>

(* Nobody owns the BO any more.                                            *)
Unowned(h, u, m) == ~h /\ u = {} /\ m = 0

(* The state after letting go: dead exactly when nobody is left.          *)
LetGo(h, u, m) ==
    /\ handle' = h /\ users' = u /\ maps' = m
    /\ life' = IF Unowned(h, u, m) THEN "dead" ELSE "live"

Init ==
    /\ life = "unborn"
    /\ handle = FALSE
    /\ users = {}
    /\ maps = 0

Create ==
    /\ life = "unborn"
    /\ life' = "live"
    /\ handle' = TRUE
    /\ UNCHANGED <<users, maps>>

(* A lookup succeeds only on a live BO.                                    *)
Acquire(t) ==
    /\ life = "live"
    /\ t \notin users
    /\ users' = users \cup {t}
    /\ UNCHANGED <<life, handle, maps>>

Release(t) ==
    /\ t \in users
    /\ LetGo(handle, users \ {t}, maps)

(* A thread's reference becomes a mapping's.                               *)
MapFrom(t) ==
    /\ t \in users
    /\ users' = users \ {t}
    /\ maps' = maps + 1
    /\ UNCHANGED <<life, handle>>

(* A mapping is copied (fork).                                             *)
CopyMap ==
    /\ life = "live"
    /\ maps > 0
    /\ maps' = maps + 1
    /\ UNCHANGED <<life, handle, users>>

Unmap ==
    /\ maps > 0
    /\ LetGo(handle, users, maps - 1)

DropHandle ==
    /\ handle
    /\ LetGo(FALSE, users, maps)

Next ==
    \/ Create \/ CopyMap \/ Unmap \/ DropHandle
    \/ \E t \in Threads : Acquire(t) \/ Release(t) \/ MapFrom(t)

Spec == Init /\ [][Next]_vars
=============================================================================
