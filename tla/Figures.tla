------------------------------ MODULE Figures ------------------------------
(***************************************************************************)
(* observer/verdict/verdict.go and its SQL twin in observer/rollup: from   *)
(* probe rows to the buckets an obligation is published in.                *)
(*                                                                         *)
(* A row is a record with promise, validator, at (the schedule point),     *)
(* started, phase, assigned, attested, class, outcome, held and tls.       *)
(***************************************************************************)
EXTENDS Schedule, Taxonomy

(* The floor under which a share of the validators is not a signal. *)
MinValidators == 3

ClassOf(r) == EffectiveClass(r.class, r.outcome, r.held)

(* Classes a row could have whatever the endpoint did. *)
GuardSilent == {"NOT_PROBED", "PROBE_ERROR", "NOT_REGISTERED", "UNATTESTED", "RETENTION_UNVERIFIED"}

Judged(rows) == {r \in rows : r.assigned /\ r.phase = "in_window"}

ValidatorsWith(rows, classes) == {r.validator : r \in {q \in rows : ClassOf(q) \in classes}}

(* Half of those probed, and enough of them. *)
Correlated(bad, all) == 2 * Cardinality(bad) >= Cardinality(all) /\ Cardinality(bad) >= MinValidators

(* Several validators failing in one minute is a finding about the observer. *)
Suspect(rows) ==
  LET spoke == ValidatorsWith(rows, Classes \ GuardSilent)
  IN  /\ Cardinality(spoke) > 1
      /\ Correlated(ValidatorsWith(rows, {"UNREACHABLE"}), spoke) \/ Correlated(ValidatorsWith(rows, {"FAULT"}), spoke)

SuspectPoints(rows) ==
  {at \in {r.at : r \in Judged(rows)} : Suspect({r \in Judged(rows) : r.at = at})}

(* What is left of an obligation's rows when the figures are drawn at end. *)
Counted(rows, end, suspects) == {r \in Judged(rows) : r.attested /\ r.started <= end /\ r.at \notin suspects}

-----------------------------------------------------------------------------
(* The Go side. *)

(* A gap never outranks a verdict; then the later point; then the later start. *)
NewerRow(a, b) ==
  IF IsGap(a.class) # IsGap(b.class) THEN ~IsGap(a.class)
  ELSE a.at > b.at \/ (a.at = b.at /\ a.started > b.started)

Newest(rows) == CHOOSE r \in rows : \A q \in rows \ {r} : ~NewerRow(q, r)

Buckets ==
  {"pending", "broken", "served", "end_unobserved", "held_param_unverified", "unobserved_reachable",
   "unobserved_unreachable", "unobserved_not_probed"}

(* Mutant: a serve needs no reading near the end. *)
BucketAnyServe(rows, pub, end) ==
  LET classes == {ClassOf(r) : r \in rows}
      attempted == {r \in rows : ~IsGap(ClassOf(r))}
  IN  IF pub.mustServeUntil > end THEN "pending"
      ELSE IF "FAULT" \in classes THEN "broken"
      ELSE IF ClassOf(Newest(rows)) = "HEALTHY" THEN "served"
      ELSE IF "HEALTHY" \in classes THEN "end_unobserved"
      ELSE IF "RETENTION_UNVERIFIED" \in classes THEN "held_param_unverified"
      ELSE IF \E r \in attempted : r.tls THEN "unobserved_reachable"
      ELSE IF attempted # {} THEN "unobserved_unreachable"
      ELSE "unobserved_not_probed"

(* One obligation: its counted rows, at least one, and its promise. *)
Bucket(rows, pub, end) ==
  LET classes == {ClassOf(r) : r \in rows}
      late == \E r \in rows : ClassOf(r) = "HEALTHY" /\ InEndSegment(r.at, pub)
      attempted == {r \in rows : ~IsGap(ClassOf(r))}
  IN  IF pub.mustServeUntil > end THEN "pending"
      ELSE IF "FAULT" \in classes THEN "broken"
      ELSE IF ClassOf(Newest(rows)) = "HEALTHY" /\ late THEN "served"
      ELSE IF "HEALTHY" \in classes THEN "end_unobserved"
      ELSE IF "RETENTION_UNVERIFIED" \in classes THEN "held_param_unverified"
      ELSE IF \E r \in attempted : r.tls THEN "unobserved_reachable"
      ELSE IF attempted # {} THEN "unobserved_unreachable"
      ELSE "unobserved_not_probed"

-----------------------------------------------------------------------------
(* The SQL side: sums over the rows, and the first of a ranking. *)

Count(rows, classes) == Cardinality({r \in rows : ClassOf(r) \in classes})

Sums(rows, pub, end) ==
  LET rank(r) == Cardinality({q \in rows : \/ ~IsGap(q.class) /\ IsGap(r.class)
                                           \/ IsGap(q.class) = IsGap(r.class) /\ q.at > r.at
                                           \/ IsGap(q.class) = IsGap(r.class) /\ q.at = r.at /\ q.started > r.started})
      attempted == {r \in rows : ~IsGap(ClassOf(r))}
  IN  [faults |-> Count(rows, {"FAULT"}), healthy |-> Count(rows, {"HEALTHY"}),
       held |-> Count(rows, {"RETENTION_UNVERIFIED"}),
       lateHealthy |-> Count({r \in rows : InEndSegment(r.at, pub)}, {"HEALTHY"}),
       attempted |-> Cardinality(attempted), reached |-> Cardinality({r \in attempted : r.tls}),
       last |-> {ClassOf(r) : r \in {q \in rows : rank(q) = 0}},
       pending |-> pub.mustServeUntil > end]

(* ObligationSums: the conditions of the columns, which must partition. *)
Columns(s) ==
  {b \in Buckets :
     \/ b = "pending" /\ s.pending
     \/ /\ ~s.pending
        /\ \/ b = "broken" /\ s.faults > 0
           \/ /\ s.faults = 0
              /\ \/ b = "served" /\ "HEALTHY" \in s.last /\ s.lateHealthy > 0
                 \/ b = "end_unobserved" /\ s.healthy > 0 /\ ~("HEALTHY" \in s.last /\ s.lateHealthy > 0)
                 \/ /\ s.healthy = 0
                    /\ \/ b = "held_param_unverified" /\ s.held > 0
                       \/ /\ s.held = 0
                          /\ \/ b = "unobserved_reachable" /\ s.reached > 0
                             \/ b = "unobserved_unreachable" /\ s.reached = 0 /\ s.attempted > 0
                             \/ b = "unobserved_not_probed" /\ s.attempted = 0}
=============================================================================
