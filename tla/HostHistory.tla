----------------------------- MODULE HostHistory -----------------------------
(***************************************************************************)
(* The host each validator had registered when a promise settled:          *)
(* internal/scan/hosts.go with the parts of internal/scan/scanner.go that  *)
(* fill it.  Registrations are learnt from events; what is older than the  *)
(* scan is seeded from state, for all bonded validators at once and for    *)
(* another one when it is first needed; after a gap that lost events state *)
(* is read again.                                                          *)
(*                                                                         *)
(* The chain is external and fixed: every block from StartHeight on holds  *)
(* one settlement, and a validator may register in a tx before it or after *)
(* it.  A host is named by the height it was registered at, NoHost by 0.   *)
(***************************************************************************)
EXTENDS Integers, FiniteSets

CONSTANTS
  HostValidators,     \* the validators whose hosts are followed
  FirstScanned,       \* the first height scanned
  LastHeight,         \* bound: the last height of the chain
  RetryEvery,         \* inactiveRetryEvery
  SaveEvery,          \* cfg.CheckpointEvery
  GapHeights,         \* the heights whose blocks may not be read: skipped, or not served
  Troubles,           \* what else may happen: "unread" (a query fails), "pruned" (the state of a
                      \* height is not served, the tip's is)
  SeedTips,           \* where the tip may be when the seed's height is pruned
  MaxCrashes          \* bound: restarts of the scanner

VARIABLES
  registered,   \* external: by validator and height, "no", "before" or "after" the block's settlement
  height,       \* the height being processed
  step,         \* in processBlock: "seed", "reseed", "block", "settle", "done"; "resume" in a
                \* new process
  hosts,        \* s.hosts: by validator, the entries on record
  seedAt,       \* s.hosts.seedAt; 0 while not seeded
  lost,         \* s.gaps whose events were not read
  activated,    \* s.activationSeen
  reread,       \* s.reseedFor, s.reseedTriedAt and s.reseedOneTried
  hostState,    \* state.json
  hostFile,     \* host_history.jsonl, as it is loaded
  stamps,       \* publications.jsonl: by settlement height, the hosts of the assignment
  crashes

hostMemory == <<height, step, hosts, seedAt, lost, activated, reread>>
hostVars == <<registered, hostMemory, hostState, hostFile, stamps, crashes>>

NoHost == 0
Tx == 1                              \* the settlement's tx index
EventTxs == [before |-> 0, after |-> 2]

-----------------------------------------------------------------------------
(* The chain. *)

MaxOf(S) == CHOOSE n \in S \cup {0} : \A m \in S : m <= n

(* The host in state after block h. *)
Registration(v, h) == MaxOf({k \in 1 .. h : registered[v][k] # "no"})

(* The host when the settlement of block h was made. *)
Truth(v, h) == IF registered[v][h] = "before" THEN h ELSE Registration(v, h - 1)

-----------------------------------------------------------------------------
(* The history. *)

Entry(h, tx, host, source) == [height |-> h, tx |-> tx, host |-> host, source |-> source]

LessKey(h, tx, k, tk) == h < k \/ (h = k /\ tx < tk)

(* An entry at a place that has one is a replay. *)
AddHost(entries, e) ==
  IF \E x \in entries : x.height = e.height /\ x.tx = e.tx THEN entries ELSE entries \cup {e}

(* Heights in (after, upTo] where a registration could have been missed. *)
GapBetween(gaps, after, upTo) == \E g \in gaps : g > after /\ g <= upTo

Unknown(source) == [host |-> NoHost, source |-> source]

HostAt(entries, seed, gaps, h) ==
  LET known == {e \in entries : ~LessKey(h, Tx, e.height, e.tx)}
      found == CHOOSE e \in known : \A x \in known : ~LessKey(e.height, e.tx, x.height, x.tx)
      after == IF known # {} THEN found.height ELSE seed
  IN CASE GapBetween(gaps, after, h) -> Unknown("unknown_gap")
       [] known = {}                 -> Unknown("unknown_no_seed")
       [] found.host = NoHost        -> Unknown("none")
       [] OTHER                      -> [host |-> found.host, source |-> found.source]

-----------------------------------------------------------------------------
(* The seed: the bonded registry at a height, or at the tip when the       *)
(* height's state is pruned.                                               *)

Trouble(name) == name \in Troubles

Registered(h) == {v \in HostValidators : Registration(v, h) # NoHost}

Seed(h, source) ==
  \E bonded \in SUBSET Registered(h) :
    /\ seedAt' = h
    /\ hosts' = [v \in HostValidators |->
                   IF v \in bonded THEN AddHost(hosts[v], Entry(h, -1, Registration(v, h), source)) ELSE hosts[v]]
    /\ hostFile' = [v \in HostValidators |->
                      LET placed == {<<x.height, x.tx>> : x \in hostFile[v]}
                      IN hostFile[v] \cup {e \in hosts'[v] : <<e.height, e.tx>> \notin placed}]

SeedHosts ==
  \/ Seed(height, "seed")
  \/ \E tip \in SeedTips : tip >= height /\ Seed(tip, "seed_current")
  \/ Trouble("unread") /\ UNCHANGED <<hosts, seedAt, hostFile>>

NotSeeded == UNCHANGED <<hosts, seedAt, hostFile>>

(* A new process resumes, and seeds a history that was never seeded. *)
Resume ==
  /\ step = "resume"
  /\ IF seedAt = 0 THEN SeedHosts ELSE NotSeeded
  \* the seed of a fresh scan is saved before its first block
  /\ hostState' =
       IF hostState.last < FirstScanned THEN [hostState EXCEPT !.hosts = hosts', !.seedAt = seedAt'] ELSE hostState
  /\ step' = "seed"
  /\ UNCHANGED <<registered, height, lost, activated, reread, stamps, crashes>>

(* processBlock, before it reads the block: seeding is retried now and then. *)
SeedAgain ==
  /\ step = "seed"
  /\ IF seedAt = 0 /\ height % RetryEvery = 0 THEN SeedHosts ELSE NotSeeded
  /\ step' = "reseed"
  /\ UNCHANGED <<registered, height, lost, activated, reread, hostState, stamps, crashes>>

-----------------------------------------------------------------------------
(* After a gap that lost events. *)

(* The end of the newest one below the height. *)
GapEnd == MaxOf({g \in lost : g < height})

(* Mutant: what is read after the gap is placed at its end whatever was    *)
(* announced since.                                                        *)
ReseedBackdated(v, entries, read) ==
  AddHost(entries, Entry(GapEnd + 1, -1, Registration(v, read), "reseed"))

(* A value read now holds since the gap's end, unless an event is on       *)
(* record in between.                                                      *)
ReseedOf(v, entries, read) ==
  IF \E x \in entries : LessKey(GapEnd + 1, -1, x.height, x.tx) /\ x.height <= read
  THEN entries
  ELSE AddHost(entries, Entry(GapEnd + 1, -1, Registration(v, read), "reseed"))

ReseededAt(h) == \E v \in HostValidators : \E e \in hosts[v] : e.source = "reseed" /\ e.height = h

RereadDue ==
  /\ seedAt # 0 /\ GapEnd # 0 /\ reread.for # GapEnd
  /\ ~ReseededAt(GapEnd + 1)
  /\ ~(reread.tried > GapEnd /\ height - reread.tried < RetryEvery)

(* maybeReseedHosts has nothing to read: no gap, or one it has read for,   *)
(* in this process or in an earlier one, or tried to a short while ago.    *)
NoReread ==
  /\ step = "reseed" /\ ~RereadDue
  /\ reread' = IF seedAt # 0 /\ GapEnd # 0 /\ ReseededAt(GapEnd + 1) THEN [reread EXCEPT !.for = GapEnd] ELSE reread
  /\ step' = "block"
  /\ UNCHANGED <<registered, height, hosts, seedAt, lost, activated, hostState, hostFile, stamps, crashes>>

(* The file holds what memory holds and what earlier processes knew. *)
AppendHosts ==
  hostFile' = [v \in HostValidators |->
                 LET placed == {<<x.height, x.tx>> : x \in hostFile[v]}
                 IN hostFile[v] \cup {e \in hosts'[v] \ hosts[v] : <<e.height, e.tx>> \notin placed}]

(* The bonded registry as it stood after the block before this one. *)
ReseedHosts ==
  /\ step = "reseed" /\ RereadDue
  /\ \/ /\ \E bonded \in SUBSET Registered(height - 1) :
             hosts' = [v \in HostValidators |->
                         IF v \in bonded THEN ReseedOf(v, hosts[v], height - 1) ELSE hosts[v]]
        /\ reread' = [reread EXCEPT !.for = GapEnd, !.tried = height]
     \/ Trouble("unread") /\ reread' = [reread EXCEPT !.tried = height] /\ UNCHANGED hosts
  /\ AppendHosts
  /\ step' = "block"
  /\ UNCHANGED <<registered, height, seedAt, lost, activated, hostState, stamps, crashes>>

-----------------------------------------------------------------------------
(* The block. *)

LoseBlock ==
  /\ height \in GapHeights
  /\ lost' = lost \cup {height}
  /\ step' = "done"
  /\ UNCHANGED <<registered, height, hosts, seedAt, activated, reread, hostState, hostFile, stamps, crashes>>

(* The operator lists the height: nothing of it is read. *)
SkipHeight == step = "seed" /\ LoseBlock

(* The node answers for the block or its results, as long as it is asked,  *)
(* that it has them no more.                                               *)
HeightUnavailable == step = "block" /\ LoseBlock

(* The first block a process reads seeds what is not seeded still. *)
Activate ==
  /\ step = "block" /\ ~activated
  /\ activated' = TRUE
  /\ IF seedAt = 0 THEN SeedHosts ELSE NotSeeded
  /\ UNCHANGED <<registered, height, step, lost, reread, hostState, stamps, crashes>>

(* The block's registrations go on record before its settlement is built.  *)
ReadBlock ==
  /\ step = "block" /\ activated
  /\ hosts' = [v \in HostValidators |->
                IF registered[v][height] = "no" THEN hosts[v]
                ELSE AddHost(hosts[v], Entry(height, EventTxs[registered[v][height]] + 1, height, "event"))]
  /\ AppendHosts
  /\ step' = "settle"
  /\ UNCHANGED <<registered, height, seedAt, lost, activated, reread, hostState, stamps, crashes>>

(* Nothing is on record of a validator that was assigned rows: its         *)
(* registration is read in the state after the block, or at the tip.       *)
LazySeed(v, answer, tip) ==
  IF hosts[v] # {} \/ seedAt = 0 \/ answer = "unread" THEN hosts[v]
  ELSE IF answer = "served" THEN {Entry(seedAt, -1, Registration(v, height), "seed_lazy")}
  ELSE {Entry(tip, -1, Registration(v, tip), "seed_current")}

Answers == {"served"} \cup (Troubles \cap {"pruned", "unread"})

(* Behind a gap its registration is read on its own, once, and only when   *)
(* the bulk read for the gap worked.                                       *)
MayReread(v, entries) ==
  /\ HostAt(entries, seedAt, lost, height).source = "unknown_gap"
  /\ seedAt # 0 /\ GapEnd # 0 /\ reread.for = GapEnd /\ reread.one[v] # GapEnd

(* The settlement is put on record with the host of every validator of its *)
(* assignment; only those that were assigned rows are asked about.         *)
Settle ==
  /\ step = "settle" /\ height \notin DOMAIN stamps
  /\ \E withRows \in SUBSET HostValidators, answer \in [HostValidators -> Answers],
        silent \in SUBSET HostValidators, tip \in height .. LastHeight :
       LET first == [v \in HostValidators |-> IF v \in withRows THEN LazySeed(v, answer[v], tip) ELSE hosts[v]]
           again == {v \in withRows : MayReread(v, first[v])}
       IN /\ silent # {} => Trouble("unread") /\ silent \subseteq again
          /\ hosts' = [v \in HostValidators |->
                         IF v \in again \ silent THEN ReseedOf(v, first[v], height - 1) ELSE first[v]]
          /\ reread' = [reread EXCEPT !.one = [v \in HostValidators |-> IF v \in again THEN GapEnd ELSE @[v]]]
  /\ AppendHosts
  /\ stamps' = [h \in DOMAIN stamps \cup {height} |->
                 IF h = height THEN [v \in HostValidators |-> HostAt(hosts'[v], seedAt, lost, height)] ELSE stamps[h]]
  /\ step' = "done"
  /\ UNCHANGED <<registered, height, seedAt, lost, activated, hostState, crashes>>

(* It is on record since an earlier scan of its block.  (One that cannot be *)
(* built, for the validator set of its promise is not served, leaves the   *)
(* hosts as they are too: a gap, but not one that lost events.)            *)
AlreadyRecorded ==
  /\ step = "settle" /\ height \in DOMAIN stamps
  /\ step' = "done"
  /\ UNCHANGED <<registered, height, hosts, seedAt, lost, activated, reread, hostState, hostFile, stamps, crashes>>

-----------------------------------------------------------------------------
(* The next block, and the restart. *)

NotReread == [for |-> 0, tried |-> 0, one |-> [v \in HostValidators |-> 0]]

(* A checkpoint follows at the tip, and after SaveEvery blocks elsewhere.  *)
NextBlock ==
  /\ step = "done" /\ height < LastHeight
  /\ \E atTip \in BOOLEAN :
       hostState' = IF atTip \/ height - hostState.last >= SaveEvery
                    THEN [last |-> height, hosts |-> hosts, seedAt |-> seedAt, lost |-> lost] ELSE hostState
  /\ height' = height + 1
  /\ step' = "seed"
  /\ UNCHANGED <<registered, hosts, seedAt, lost, activated, reread, hostFile, stamps, crashes>>

(* The process dies; what it appended stays. *)
Restart ==
  /\ crashes < MaxCrashes /\ crashes' = crashes + 1
  /\ height' = hostState.last + 1 /\ step' = "resume"
  /\ hosts' = hostState.hosts /\ seedAt' = hostState.seedAt /\ lost' = hostState.lost
  /\ activated' = FALSE /\ reread' = NotReread
  /\ UNCHANGED <<registered, hostState, hostFile, stamps>>

-----------------------------------------------------------------------------
HostInit ==
  /\ registered \in [HostValidators -> [1 .. LastHeight -> {"no", "before", "after"}]]
  /\ \A v \in HostValidators : \A h \in 1 .. FirstScanned - 1 : registered[v][h] # "after"
  /\ height = FirstScanned /\ step = "resume"
  /\ hosts = [v \in HostValidators |-> {}] /\ seedAt = 0 /\ lost = {}
  /\ activated = FALSE /\ reread = NotReread
  /\ hostState = [last |-> FirstScanned - 1, hosts |-> hosts, seedAt |-> 0, lost |-> {}]
  /\ hostFile = hosts /\ stamps = <<>> /\ crashes = 0

HostNext ==
  \/ Resume \/ SeedAgain \/ NoReread \/ ReseedHosts
  \/ SkipHeight \/ HeightUnavailable \/ Activate \/ ReadBlock \/ Settle \/ AlreadyRecorded
  \/ NextBlock \/ Restart

HostSpec == HostInit /\ [][HostNext]_hostVars

-----------------------------------------------------------------------------
(* Properties. *)

Stated(host) == host.source \notin {"unknown_gap", "unknown_no_seed"}

(* What a recomputation derives from the files. *)
Derived(v, h) == HostAt(hostFile[v], hostState.seedAt, hostState.lost, h)

(* A seed is the state after its block, and may know of a registration     *)
(* made in it after the settlement.                                        *)
SeenTooLate(host, v, h) ==
  /\ host.source \in {"seed", "seed_lazy", "seed_current"}
  /\ registered[v][h] = "after" /\ host.host = h

Right(host, v, h) == host.host = Truth(v, h) \/ SeenTooLate(host, v, h)

(* Every host on record is the one the validator had when the promise      *)
(* settled (but for SeenTooLate), whatever blocks were lost, queries       *)
(* failed and processes died before it: what cannot be known says unknown. *)
(* Where the record states one, a recomputation over the files states      *)
(* none or a right one too.                                                *)
HostIsRight ==
  \A h \in DOMAIN stamps : \A v \in HostValidators :
    Stated(stamps[h][v]) =>
      /\ Right(stamps[h][v], v, h)
      /\ Stated(Derived(v, h)) => Right(Derived(v, h), v, h)

(* hosts.go: "a scan gap lies between the validator's newest entry (or the *)
(* start of the scan) and the settlement, so an event in it may have       *)
(* changed the host.  Never the seed value."                               *)
GapIsUnknown ==
  \A h \in DOMAIN stamps : \A v \in HostValidators :
    Stated(stamps[h][v]) /\ Truth(v, h) \in lost => stamps[h][v].host = Truth(v, h)
=============================================================================
