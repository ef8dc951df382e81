---------------------------- MODULE SnapshotCache ----------------------------
(***************************************************************************)
(* The aggregates the API keeps between requests: the snapshot of a window *)
(* (observer/api/snapshot.go) and the page of a validator                  *)
(* (observer/api/validator_detail.go), against the store whose holds       *)
(* withdraw the figures in them.                                           *)
(*                                                                         *)
(* Only one thing is said of a figure: how many holds had landed when it   *)
(* was read from the store.  A hold and the revision move in one           *)
(* transaction, so "landed" is both.  One window or one validator: caches  *)
(* share nothing but the store.                                            *)
(***************************************************************************)
EXTENDS Integers, FiniteSets

CONSTANTS
  Readers,        \* requests at one time
  MaxHolds,       \* bound: holds that land, or activations
  MaxUnreadable   \* bound: restarts, and reads of the revision that fail

ASSUME CacheAssumption == "nobody" \notin Readers /\ {MaxHolds, MaxUnreadable} \subseteq Nat

VARIABLES
  kind,           \* the cache looked at: "window" or "validator"
  landed,         \* external: the store's revision, param_holds_rev and fibre_active
  entry,          \* entries[window]
  refreshing,     \* refreshing[window]
  fill,           \* the computation that claimed the window
  disk,           \* <dir>/<label>-<window>.json
  warmed,         \* the warm-up of this process has had its turn
  keeper,         \* refreshDue: the revision it read, before it looks
  request,        \* by reader
  page,           \* details.entries[key]
  flights,        \* details.flight: the computations running
  mishaps         \* restarts and failed reads so far

snapshotOnly == <<entry, refreshing, fill, disk, warmed, keeper>>
detailOnly == <<page, flights, kind>>
cacheVars == <<landed, snapshotOnly, request, detailOnly, mishaps>>

Nothing == [rev |-> -2, figure |-> 0, stale |-> FALSE]
Unreadable == -1
NoFill == [stage |-> "none"]
NotAsking == [at |-> "idle"]

-----------------------------------------------------------------------------
(* A read of the revision. *)
ReadsRevision(rev) ==
  \/ rev = landed /\ UNCHANGED mishaps
  \/ rev = Unreadable /\ mishaps < MaxUnreadable /\ mishaps' = mishaps + 1

Revisions == {landed, Unreadable}

Answer(r, figure) == request' = [request EXCEPT ![r] = [@ EXCEPT !.at = "answered", !.figure = figure]]

GoesTo(r, step) == request' = [request EXCEPT ![r].at = step]

Claim(who) == refreshing' = TRUE /\ fill' = [stage |-> "claimed", by |-> who]

-----------------------------------------------------------------------------
(* get: the revision first, then the lock. *)
Ask(r) ==
  \E rev \in Revisions :
    /\ request[r] = NotAsking
    /\ ReadsRevision(rev)
    /\ request' = [request EXCEPT ![r] = [at |-> "asked", rev |-> rev, since |-> landed, figure |-> 0]]
    /\ UNCHANGED <<landed, snapshotOnly, detailOnly>>

Asked(r, what) == request[r].at = "asked" /\ kind = what

(* Computed under another revision it is not stale, it is wrong. *)
DropOther(r) ==
  /\ Asked(r, "window") /\ entry.rev # request[r].rev
  /\ entry' = Nothing
  /\ GoesTo(r, "waits")
  /\ UNCHANGED <<landed, refreshing, fill, disk, warmed, keeper, detailOnly, mishaps>>

(* A stale one is served as it stands, and refreshed behind the reader. *)
Serve(r) ==
  /\ Asked(r, "window") /\ entry.rev = request[r].rev
  /\ Answer(r, entry.figure)
  /\ IF entry.stale /\ ~refreshing THEN Claim("nobody") ELSE UNCHANGED <<refreshing, fill>>
  /\ UNCHANGED <<landed, entry, disk, warmed, keeper, detailOnly, mishaps>>

(* await *)
TakeWhatLanded(r) ==
  /\ request[r].at = "waits" /\ entry.rev = request[r].rev
  /\ Answer(r, entry.figure)
  /\ UNCHANGED <<landed, snapshotOnly, detailOnly, mishaps>>

ClaimToCompute(r) ==
  /\ request[r].at = "waits" /\ entry.rev # request[r].rev /\ ~refreshing
  /\ Claim(r)
  /\ GoesTo(r, "computes")
  /\ UNCHANGED <<landed, entry, disk, warmed, keeper, detailOnly, mishaps>>

Leave(r) ==
  /\ request[r].at \in {"waits", "joined", "answered"}
  /\ request' = [request EXCEPT ![r] = NotAsking]
  /\ UNCHANGED <<landed, snapshotOnly, detailOnly, mishaps>>

-----------------------------------------------------------------------------
(* fill: the revision, then the queries, then the lock. *)
ReadRevision ==
  \E rev \in Revisions :
    /\ fill.stage = "claimed"
    /\ ReadsRevision(rev)
    /\ fill' = [stage |-> "reads", by |-> fill.by, rev |-> rev]
    /\ UNCHANGED <<landed, entry, refreshing, disk, warmed, keeper, request, detailOnly>>

Compute ==
  /\ fill.stage = "reads"
  /\ fill' = [stage |-> "computed", by |-> fill.by, rev |-> fill.rev, figure |-> landed]
  /\ UNCHANGED <<landed, entry, refreshing, disk, warmed, keeper, request, detailOnly, mishaps>>

(* Mutant: the revision is read once the queries have run. *)
StampAtLanding == landed

(* The revision a figure is kept under. *)
Stamp == fill.rev

Release == refreshing' = FALSE /\ fill' = NoFill

(* The file is written under the same lock; what does not reach the disk   *)
(* is only missed by the next process.                                     *)
Keep ==
  LET s == [rev |-> Stamp, figure |-> fill.figure, stale |-> FALSE]
  IN  /\ fill.stage = "computed"
      /\ Release
      /\ entry' = s
      /\ disk' \in {disk, s}
      /\ IF fill.by \in Readers THEN Answer(fill.by, fill.figure) ELSE UNCHANGED request
      /\ UNCHANGED <<landed, warmed, keeper, detailOnly, mishaps>>

(* The queries fail or their time is up: the last snapshot stays. *)
ComputeFails ==
  /\ fill.stage = "reads"
  /\ Release
  /\ request' = [r \in Readers |-> IF r = fill.by THEN NotAsking ELSE request[r]]
  /\ UNCHANGED <<landed, entry, disk, warmed, keeper, detailOnly, mishaps>>

Warm ==
  /\ ~warmed /\ kind = "window"
  /\ warmed' = TRUE
  /\ IF refreshing THEN UNCHANGED <<refreshing, fill>> ELSE Claim("nobody")
  /\ UNCHANGED <<landed, entry, disk, keeper, request, detailOnly, mishaps>>

(* refreshDue *)
KeeperReads ==
  \E rev \in Revisions :
    /\ keeper = Nothing /\ kind = "window"
    /\ ReadsRevision(rev)
    /\ keeper' = [rev |-> rev]
    /\ UNCHANGED <<landed, entry, refreshing, fill, disk, warmed, request, detailOnly>>

DueFor(rev) == entry.rev # rev \/ entry.stale   \* or there is none

KeeperLooks ==
  /\ keeper # Nothing
  /\ keeper' = Nothing
  /\ IF ~refreshing /\ DueFor(keeper.rev) THEN Claim("nobody") ELSE UNCHANGED <<refreshing, fill>>
  /\ UNCHANGED <<landed, entry, disk, warmed, request, detailOnly, mishaps>>

-----------------------------------------------------------------------------
(* serveValidatorDetail: a computation is shared under one revision. *)
ServePage(r) ==
  /\ Asked(r, "validator") /\ page.rev = request[r].rev /\ ~page.stale
  /\ Answer(r, page.figure)
  /\ UNCHANGED <<landed, snapshotOnly, detailOnly, mishaps>>

(* A flight is named by its revision; the first to ask starts it. *)
JoinFlight(r) ==
  /\ Asked(r, "validator") /\ (page.rev # request[r].rev \/ page.stale)
  /\ GoesTo(r, "joined")
  /\ flights' = IF \E f \in flights : f.rev = request[r].rev
                THEN flights
                ELSE flights \cup {[rev |-> request[r].rev, stage |-> "computes", figure |-> 0]}
  /\ UNCHANGED <<landed, snapshotOnly, page, kind, mishaps>>

Joined(f) == {r \in Readers : request[r].at = "joined" /\ request[r].rev = f.rev}

PageComputed ==
  \E f \in flights :
    /\ f.stage = "computes"
    /\ flights' = (flights \ {f}) \cup {[f EXCEPT !.stage = "computed", !.figure = landed]}
    /\ UNCHANGED <<landed, snapshotOnly, request, page, kind, mishaps>>

(* Kept only if no hold landed while it ran. *)
Kept(f, rev) == f.rev # Unreadable /\ rev = f.rev

PageLands ==
  \E f \in flights, rev \in Revisions :
    /\ f.stage = "computed"
    /\ ReadsRevision(rev)
    /\ page' = IF Kept(f, rev) THEN [rev |-> f.rev, figure |-> f.figure, stale |-> FALSE] ELSE page
    /\ flights' = flights \ {f}
    /\ request' = [r \in Readers |->
                     IF r \in Joined(f)
                     THEN [request[r] EXCEPT !.at = "answered", !.figure = f.figure] ELSE request[r]]
    /\ UNCHANGED <<landed, snapshotOnly, kind>>

PageFails ==
  \E f \in flights :
    /\ f.stage = "computes"
    /\ flights' = flights \ {f}
    /\ request' = [r \in Readers |-> IF r \in Joined(f) THEN NotAsking ELSE request[r]]
    /\ UNCHANGED <<landed, snapshotOnly, page, kind, mishaps>>

-----------------------------------------------------------------------------
HoldLands ==
  /\ landed < MaxHolds
  /\ landed' = landed + 1
  /\ UNCHANGED <<snapshotOnly, request, detailOnly, mishaps>>

Aged(e) == IF e = Nothing THEN e ELSE [e EXCEPT !.stale = TRUE]

TimeToLive ==
  /\ \/ entry # Nothing /\ ~entry.stale /\ entry' = Aged(entry) /\ UNCHANGED page
     \/ page # Nothing /\ ~page.stale /\ page' = Aged(page) /\ UNCHANGED entry
  /\ UNCHANGED <<landed, refreshing, fill, disk, warmed, keeper, request, flights, kind, mishaps>>

(* persistTo: the last process's snapshot is served from the start. *)
RestartApi ==
  /\ mishaps < MaxUnreadable
  /\ mishaps' = mishaps + 1
  /\ entry' \in {disk, Aged(disk)}
  /\ Release
  /\ warmed' = FALSE /\ keeper' = Nothing
  /\ request' = [r \in Readers |-> NotAsking]
  /\ page' = Nothing /\ flights' = {}
  /\ UNCHANGED <<landed, disk, kind>>

CacheInit ==
  /\ kind \in {"window", "validator"}
  /\ landed = 0 /\ entry = Nothing /\ refreshing = FALSE /\ fill = NoFill /\ disk = Nothing
  /\ warmed = FALSE /\ keeper = Nothing /\ request = [r \in Readers |-> NotAsking]
  /\ page = Nothing /\ flights = {} /\ mishaps = 0

CacheNext ==
  \/ \E r \in Readers :
       \/ Ask(r) \/ DropOther(r) \/ Serve(r) \/ TakeWhatLanded(r) \/ ClaimToCompute(r) \/ Leave(r)
       \/ ServePage(r) \/ JoinFlight(r)
  \/ ReadRevision \/ Compute \/ Keep \/ ComputeFails \/ Warm \/ KeeperReads \/ KeeperLooks
  \/ PageComputed \/ PageLands \/ PageFails
  \/ HoldLands \/ TimeToLive \/ RestartApi

CacheSpec == CacheInit /\ [][CacheNext]_cacheVars

-----------------------------------------------------------------------------
(* A reader who could read the revision is never given a figure computed   *)
(* before a hold that had landed when the request was made: neither from   *)
(* the cache, nor from a computation that was running, nor from the files  *)
(* of the process before.                                                  *)
FigureNotWithdrawn ==
  \A r \in Readers :
    request[r].at = "answered" /\ request[r].rev # Unreadable => request[r].figure >= request[r].since
=============================================================================
