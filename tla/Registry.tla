------------------------------ MODULE Registry ------------------------------
(***************************************************************************)
(* What account registration promises, with no requests, no database       *)
(* statements and no failures: an account name is founded once and for     *)
(* all, a person is enrolled in an account at most once, and the only      *)
(* member that may be ADMIN is the one enrolled by the signup that founded *)
(* the account.  AccountService implements it.                             *)
(***************************************************************************)
CONSTANTS
    Request,      \* the signups; a signup enrols at most one member
    AccountName,
    Email,
    None          \* the name is not founded yet

VARIABLES
    founder,      \* founder[n]: the signup that founded the account named n
    member        \* the enrolled members, one per signup that enrolled one

vars == <<founder, member>>

Member == [by: Request, name: AccountName, email: Email, role: {"ADMIN", "USER"}]

Init ==
    /\ founder = [n \in AccountName |-> None]
    /\ member = {}

Found(r, n) ==
    /\ founder[n] = None
    /\ \A m \in AccountName : founder[m] # r
    /\ founder' = [founder EXCEPT ![n] = r]
    /\ UNCHANGED member

Enrol(r, n, e) ==
    /\ founder[n] # None
    /\ \A m \in member : m.by # r /\ <<m.name, m.email>> # <<n, e>>
    /\ member' = member \cup
         {[by |-> r, name |-> n, email |-> e,
           role |-> IF founder[n] = r THEN "ADMIN" ELSE "USER"]}
    /\ UNCHANGED founder

Next ==
    \E r \in Request, n \in AccountName :
        \/ Found(r, n)
        \/ \E e \in Email : Enrol(r, n, e)

Spec == Init /\ [][Next]_vars
=============================================================================
