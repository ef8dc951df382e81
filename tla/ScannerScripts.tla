--------------------------- MODULE ScannerScripts ---------------------------
(* What one scanner run appends, in order, where a params value shrinks    *)
(* silently twice and is found at two checks, under one or two             *)
(* publications.                                                           *)
EXTENDS ParamHistory

Value(w) == [timeout |-> w, retention |-> 0]

Pub(id, promise, settle, msu) ==
  [file |-> "pubs", line |-> [id |-> id, promise |-> promise, settle |-> settle, tx |-> 0, msu |-> msu]]

Silent(from, to, resolution, values) ==
  [file |-> "ranges", line |-> [kind |-> "silent_change", from |-> from, to |-> to,
                                resolution |-> resolution, values |-> values]]

Skipped(from, to) ==
  [file |-> "ranges", line |-> [kind |-> "check_skipped", from |-> from, to |-> to,
                                resolution |-> "", values |-> <<>>]]

State(entries) == [file |-> "state", line |-> entries]

At3(h, w) == [height |-> h, params |-> Value(w)]

Seeded == NewParamHistory(2, Value(3))
First == <<At3(2, 3), At3(3, 2)>>
Both == <<At3(2, 3), At3(3, 2), At3(5, 1)>>
AfterFirst == ResolvedHistory(Add(Seeded, 5, -1, "reconcile", Value(2)), First)
AfterBoth == ResolvedHistory(Add(Seeded, 7, -1, "reconcile", Value(1)), Both)

(* One change, one range, verified at once. *)
OneRange ==
  <<State(Seeded), Pub("p1", 3, 4, 3), Silent(3, 4, "verified", First), Pub("p2", 4, 5, 2), State(AfterFirst)>>

(* The same for one publication. *)
OnePub == <<State(Seeded), Pub("p1", 3, 4, 3), Silent(3, 4, "verified", First), State(AfterFirst)>>

(* The scanner dies before the checkpoint that follows the range and finds *)
(* it again: the second line resolves it, or fails to.                     *)
FoundAgain ==
  <<State(Seeded), Pub("p1", 3, 4, 3), Skipped(3, 3), Silent(3, 4, "unresolvable", <<>>),
    Silent(3, 4, "verified", First), Silent(3, 4, "unresolvable", <<>>)>>

(* It dies, and cannot read state at the first check after: the next check *)
(* finds both changes in a range that overlaps the first, and a            *)
(* publication settled in between is stamped without either.               *)
Overlap ==
  <<State(Seeded), Silent(3, 4, "verified", First), Pub("p2", 4, 5, 3), Silent(3, 6, "verified", Both),
    State(AfterBoth)>>
=============================================================================
