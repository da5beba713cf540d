----------------------------- MODULE LayerReads -----------------------------
(***************************************************************************)
(* Reads of a pageserver timeline against everything that rearranges its   *)
(* layers: freeze and flush, L0 compaction, image layer creation, garbage  *)
(* collection and gc-compaction.  A read descends through the layer map    *)
(* one layer at a time and looks at the map again before each of them, so  *)
(* that every one of these may happen in the middle of it.                 *)
(*                                                                         *)
(* The n-th record has LSN 2n, as WAL records are aligned and the ends of  *)
(* layers, one past the last record LSN, fall between them.  One timeline  *)
(* without ancestor, branches and leases; a record never is an image.  A   *)
(* layer is never changed and a read keeps the ones it has found, so the   *)
(* search for a layer and the reading of it are one step.                  *)
(***************************************************************************)
EXTENDS Integers, Sequences, FiniteSets, FiniteSetsExt

CONSTANTS NKeys,      \* keys 1..NKeys
          MaxRecords, \* records written
          MaxImages,  \* image layers in the map when another one is begun
          Jobs        \* kinds of background work that run

\* What the constants must be.
LRAssumption ==
  /\ NKeys \in Nat \ {0} /\ MaxRecords \in Nat /\ MaxImages \in Nat
  /\ Jobs \subseteq {"l0", "image", "gc", "gccompact"}

Keys == 1..NKeys
Forever == 2 * MaxRecords + 3   \* Lsn::MAX
InitLsn == 1                    \* initdb_lsn
Readers == {"user", "compactor"}

VARIABLES hist,          \* hist[n]: keys that record n changes
          nextOpen,      \* next_open_layer_at, or where the open layer starts
          hasOpen,       \* is there an open layer
          frozenLayers,  \* frozen_layers, oldest first: [lo, hi]
          layers,        \* historic layers
          cutoff,        \* applied_gc_cutoff_lsn
          partLsn,       \* LSN of the cached partitioning
          job,           \* what the holder of the compaction lock is at
          collector,     \* what the holder of the gc lock is at
          read           \* reads: of a user, and of the image layer creation; late if they
                         \* started when GC was waiting for earlier ones, and overtaken if
                         \* an image layer has come before GC chose

vars == <<hist, nextOpen, hasOpen, frozenLayers, layers, cutoff, partLsn, job, collector, read>>

LastRecord == 2 * Len(hist)
Changes(k, lo, hi) == {l \in lo..hi - 1 : l % 2 = 0 /\ l \div 2 \in DOMAIN hist /\ k \in hist[l \div 2]}

\* keys of consecutive numbers, as a layer covers them
Ranges == {S \in SUBSET Keys : S # {} /\ S = Min(S)..Max(S)}

\* ents: values that are WAL records, imgs: values that are images, both as <<key, LSN>>.
\* The key range of an L0 reaches beyond all keys: l0.
Delta(l0, keys, lo, hi, ents, imgs) ==
  [kind |-> "delta", l0 |-> l0, keys |-> keys, lo |-> lo, hi |-> hi, ents |-> ents, imgs |-> imgs]
Image(keys, lsn) ==
  [kind |-> "image", l0 |-> FALSE, keys |-> keys, lo |-> lsn, hi |-> lsn + 1, ents |-> {},
   imgs |-> keys \X {lsn}]

NoJob == [kind |-> "none", from |-> {}, to |-> {}]
NoGc == [st |-> "idle", doomed |-> {}]
NoRead == [st |-> "idle", key |-> 1, lsn |-> 0, cont |-> 0, recs |-> {}, guard |-> 0,
           late |-> "no"]

Init ==
  /\ hist = <<>> /\ nextOpen = InitLsn + 1 /\ hasOpen = FALSE /\ frozenLayers = <<>>
  /\ layers = {Image(Keys, InitLsn)}
  /\ cutoff = InitLsn /\ partLsn = InitLsn
  /\ job = NoJob /\ collector = NoGc /\ read = [r \in Readers |-> NoRead]

memory == <<hist, nextOpen, hasOpen, frozenLayers>>

(***************************************************************************)
(* The write path, see LayerFlush.                                         *)
(***************************************************************************)
Write(keys) ==
  /\ Len(hist) < MaxRecords
  /\ hist' = Append(hist, keys) /\ hasOpen' = TRUE
  /\ UNCHANGED <<nextOpen, frozenLayers, layers, cutoff, partLsn, job, collector, read>>

Freeze ==
  /\ hasOpen
  /\ frozenLayers' = Append(frozenLayers, [lo |-> nextOpen, hi |-> LastRecord + 1])
  /\ nextOpen' = LastRecord + 1 /\ hasOpen' = FALSE
  /\ UNCHANGED <<hist, layers, cutoff, partLsn, job, collector, read>>

\* finish_flush_l0_layer: the frozen layer leaves the map as its L0 enters it.
Flush ==
  LET f == Head(frozenLayers) IN
  /\ frozenLayers # <<>>
  /\ layers' = layers \cup {Delta(TRUE, Keys, f.lo, f.hi,
                                  UNION {{k} \X Changes(k, f.lo, f.hi) : k \in Keys}, {})}
  /\ frozenLayers' = Tail(frozenLayers)
  /\ UNCHANGED <<hist, nextOpen, hasOpen, cutoff, partLsn, job, collector, read>>

(***************************************************************************)
(* The layer map.                                                          *)
(***************************************************************************)
None == [kind |-> "none", lo |-> 0, hi |-> 0]

\* The layer of a kind that covers the key with the highest end, among those that start below e.
Latest(kind, k, e) ==
  LET S == {l \in layers : l.kind = kind /\ k \in l.keys /\ l.lo < e}
  IN IF S = {} THEN None ELSE CHOOSE l \in S : \A m \in S : m.hi <= l.hi

InMemory(lo, hi) == [kind |-> "inmem", lo |-> lo, hi |-> hi]

SearchInMemoryLayer(e) ==
  LET below == {j \in DOMAIN frozenLayers : frozenLayers[j].lo < e}
  IN IF hasOpen /\ nextOpen < e THEN InMemory(nextOpen, Forever)
     ELSE IF below = {} THEN None
     ELSE InMemory(frozenLayers[Max(below)].lo, frozenLayers[Max(below)].hi)

Found(layer, floor) == [layer |-> layer, floor |-> floor]

\* A delta or in-memory layer against the latest image layer: the newer one, down to the image.
OverImage(l, image, e) ==
  IF image.kind = "none" THEN Found(l, l.lo)
  ELSE IF l.kind = "none" \/ image.hi >= l.hi \/ image.lo + 1 = e THEN Found(image, image.lo)
  ELSE Found(l, Max({l.lo, image.lo + 1}))

\* The latest delta layer against an in-memory layer.
OverDelta(delta, inmem, e) ==
  IF inmem.kind = "none" \/ delta.hi >= inmem.hi \/ delta.hi = e THEN Found(delta, delta.lo)
  ELSE Found(inmem, Max({inmem.lo, delta.hi}))

SelectLayer(delta, image, inmem, e) ==
  IF delta.kind = "none" THEN OverImage(inmem, image, e)
  ELSE LET p == OverImage(delta, image, e)
           m == IF p.layer.kind = "delta" THEN OverDelta(delta, inmem, e)
                                          ELSE OverImage(inmem, image, e)
       IN Found(m.layer, Max({p.floor, m.floor}))

Search(k, e) == SelectLayer(Latest("delta", k, e), Latest("image", k, e), SearchInMemoryLayer(e), e)

(***************************************************************************)
(* Reads of one key at an LSN.  A vectored read does this for many keys    *)
(* and visits layers they share only once.                                 *)
(***************************************************************************)
StartRead(r, k, lsn) ==
  read' = [read EXCEPT ![r] = [NoRead EXCEPT !.st = "reading", !.key = k, !.lsn = lsn,
                                             !.cont = lsn + 1, !.guard = cutoff,
                                             !.late = IF collector.st = "waiting" THEN "late" ELSE "no"]]

UserRead(k, lsn) ==
  /\ read["user"].st = "idle" /\ lsn >= cutoff
  /\ StartRead("user", k, lsn)
  /\ UNCHANGED <<memory, layers, cutoff, partLsn, job, collector>>

\* Values of the key in a layer between floor and the LSN the read has come down to: records
\* down to the first image, if there is one.
Values(l, k, floor, e) ==
  LET img == IF l.kind = "inmem" THEN {} ELSE {x \in floor..e - 1 : <<k, x>> \in l.imgs}
      base == IF img = {} THEN 0 ELSE Max(img)
      recs == IF l.kind = "inmem" THEN Changes(k, floor, e)
                                  ELSE {x \in floor..e - 1 : <<k, x>> \in l.ents}
  IN [recs |-> {x \in recs : x > base}, base |-> base]

\* The next layer, looked up in the map as it is now.
NextLayer(r) == Search(read[r].key, read[r].cont)

\* Read it, and end the read at an image.
Visit(r) ==
  LET found == NextLayer(r)
      values == Values(found.layer, read[r].key, found.floor, read[r].cont)
  IN /\ read[r].st = "reading"
     /\ read' = [read EXCEPT ![r] =
          IF found.layer.kind = "none" THEN [NoRead EXCEPT !.st = "missing key"]
          ELSE IF values.base # 0 THEN [NoRead EXCEPT !.st = IF r = "user" THEN "idle" ELSE "done"]
          ELSE [@ EXCEPT !.recs = @ \cup values.recs, !.cont = found.floor]]
     /\ UNCHANGED <<memory, layers, cutoff, partLsn, job, collector>>

(***************************************************************************)
(* Compaction: under the compaction lock, in two steps.                    *)
(***************************************************************************)
L0s == {l \in layers : l.l0}

\* The oldest L0 and those that follow it without a gap, as many as the size limit lets through.
L0Selections ==
  {S \in SUBSET L0s \ {{}} :
     /\ \A l \in S, m \in L0s : m.lo < l.lo => m \in S
     /\ \A l \in S : l.lo = Min({m.lo : m \in S}) \/ \E m \in S : m.hi = l.lo}

Within(ents, keys, lo, hi) == {e \in ents : e[1] \in keys /\ e[2] >= lo /\ e[2] < hi}

\* L1 layers for a key range: one, or for a single key with many versions two that split it in LSN.
L1s(ents, keys, lo, hi) ==
  LET mine == Within(ents, keys, lo, hi)
      lsns == {e[2] : e \in mine}
  IN {{Delta(FALSE, keys, lo, hi, mine, {})}}
     \cup IF Cardinality(keys) = 1
            THEN {{Delta(FALSE, keys, Min(lsns), m, Within(mine, keys, lo, m), {}),
                   Delta(FALSE, keys, m, hi, Within(mine, keys, m, hi), {})} :
                     m \in lsns \ {Min(lsns)}}
            ELSE {}

StartL0 ==
  /\ "l0" \in Jobs /\ job = NoJob
  /\ \E S \in L0Selections :
       LET ents == UNION {l.ents : l \in S}
           lo == Min({l.lo : l \in S})
           hi == Max({l.hi : l \in S})
           keys == {e[1] : e \in ents}
       IN \/ \E out \in L1s(ents, Min(keys)..Max(keys), lo, hi) :
               job' = [kind |-> "l0", from |-> S, to |-> out]
          \/ \E s \in keys \ {Min(keys)} :
               LET left == {k \in keys : k < s} IN
               \E a \in L1s(ents, Min(left)..Max(left), lo, hi), b \in L1s(ents, s..Max(keys), lo, hi) :
                 job' = [kind |-> "l0", from |-> S, to |-> a \cup b]
  /\ UNCHANGED <<memory, layers, cutoff, partLsn, collector, read>>

\* Where image layers are created: at the end of the flushed layers, or where the cached
\* partitioning was made, never below the cutoff.  Before the first flush: at the last record.
PartitionLsn ==
  LET lsn == Max({cutoff, partLsn} \cup {IF l.kind = "delta" THEN l.hi ELSE l.lo : l \in layers})
  IN IF lsn <= InitLsn THEN Max({InitLsn, LastRecord}) ELSE lsn

ImageLsns == {l \in {partLsn, PartitionLsn} : l >= cutoff}

\* One image layer; the read of one of its keys stands for all.
StartImage ==
  /\ "image" \in Jobs /\ job = NoJob
  /\ Cardinality({l \in layers : l.kind = "image"}) <= MaxImages
  /\ \E keys \in Ranges, lsn \in ImageLsns : \E k \in keys :
       /\ Image(keys, lsn) \notin layers
       /\ job' = [kind |-> "image", from |-> {}, to |-> {Image(keys, lsn)}]
       /\ partLsn' = lsn
       /\ StartRead("compactor", k, lsn)
  /\ UNCHANGED <<memory, layers, cutoff, collector>>

Replace == layers' = (layers \ job.from) \cup job.to /\ job' = NoJob

FinishCompaction ==
  /\ job.kind \in {"l0", "image"}
  /\ job.kind = "image" => read["compactor"].st = "done"
  /\ Replace
  /\ read' = [read EXCEPT !["compactor"] = NoRead, !["user"].late =
                 IF @ = "late" /\ job.kind = "image" /\ collector.st = "waiting" THEN "overtaken" ELSE @]
  /\ UNCHANGED <<memory, cutoff, partLsn, collector>>

(***************************************************************************)
(* gc-compaction of a key range, under the gc lock too.                    *)
(***************************************************************************)
Overlap(A, B) == A \cap B # {}

\* What the part of a delta layer outside of the range is rewritten to.
Rewritten(l, keys) ==
  {d \in {Delta(FALSE, S, l.lo, l.hi, Within(l.ents, S, l.lo, l.hi), Within(l.imgs, S, l.lo, l.hi)) :
            S \in {{k \in l.keys : k < Min(keys)}, {k \in l.keys : k > Max(keys)}}} :
     d.ents # {} \/ d.imgs # {}}

GcCompactionJob(keys) ==
  LET maxLsn == Max({l.hi : l \in {m \in layers : m.lo <= cutoff}})
      selected == {l \in layers : l.hi <= maxLsn /\ Overlap(l.keys, keys)}
      endLsn == Max({l.hi : l \in selected})
      above(S) == Within(S, keys, cutoff + 1, endLsn)
      delta == Delta(FALSE, keys, cutoff, endLsn, above(UNION {l.ents : l \in selected}),
                                                  above(UNION {l.imgs : l \in selected}))
      deltas == {l \in selected : l.kind = "delta"}
  IN [kind |-> "gccompact",
      from |-> {l \in selected : l.kind = "delta" \/ l.keys \subseteq keys},
      to |-> {Image(keys, cutoff)}
             \cup (IF delta.ents \cup delta.imgs # {} THEN {delta} ELSE {})
             \cup UNION {Rewritten(l, keys) : l \in {d \in deltas : d.l0 \/ ~(d.keys \subseteq keys)}}]

StartGcCompaction ==
  /\ "gccompact" \in Jobs /\ job = NoJob /\ collector.st = "idle"
  /\ \E keys \in Ranges : job' = GcCompactionJob(keys)
  /\ UNCHANGED <<memory, layers, cutoff, partLsn, collector, read>>

\* The update waits until no read holds the update lock.
FinishGcCompaction ==
  /\ job.kind = "gccompact"
  /\ \A r \in Readers : read[r].st # "reading"
  /\ Replace
  /\ UNCHANGED <<memory, cutoff, partLsn, collector, read>>

(***************************************************************************)
(* Garbage collection.                                                     *)
(***************************************************************************)
StartGc(lsn) ==
  /\ "gc" \in Jobs /\ collector.st = "idle" /\ job.kind # "gccompact" /\ lsn > cutoff
  /\ cutoff' = lsn
  /\ collector' = [collector EXCEPT !.st = "waiting"]
  /\ UNCHANGED <<memory, layers, partLsn, job, read>>

\* image_layer_exists: image layers between the end of the layer and the cutoff cover its keys.
ImageLayerExists(l) ==
  ~l.l0 /\ \A k \in l.keys : Latest("image", k, cutoff).kind = "image"
                             /\ Latest("image", k, cutoff).lo >= l.hi

\* Slip: readers that started with an older cutoff are not waited for.
SelectGarbage_Slip ==
  /\ collector.st = "waiting"
  /\ collector' = [st |-> "removing", doomed |-> {l \in layers : l.hi <= cutoff /\ ImageLayerExists(l)}]
  /\ UNCHANGED <<memory, layers, cutoff, partLsn, job, read>>

\* When nobody uses an older cutoff any more, layers are chosen.
SelectGarbage ==
  /\ collector.st = "waiting"
  /\ \A r \in Readers : read[r].st = "reading" => read[r].guard = cutoff
  /\ collector' = [st |-> "removing", doomed |-> {l \in layers : l.hi <= cutoff /\ ImageLayerExists(l)}]
  /\ UNCHANGED <<memory, layers, cutoff, partLsn, job, read>>

RemoveGarbage ==
  /\ collector.st = "removing"
  /\ layers' = layers \ collector.doomed /\ collector' = NoGc
  /\ UNCHANGED <<memory, cutoff, partLsn, job, read>>

Next ==
  \/ \E keys \in SUBSET Keys \ {{}} : Write(keys)
  \/ Freeze \/ Flush
  \/ \E k \in Keys, lsn \in InitLsn..LastRecord : UserRead(k, lsn)
  \/ \E r \in Readers : Visit(r)
  \/ StartL0 \/ StartImage \/ FinishCompaction
  \/ StartGcCompaction \/ FinishGcCompaction
  \/ \E lsn \in InitLsn..LastRecord : StartGc(lsn)
  \/ SelectGarbage \/ RemoveGarbage

Spec == Init /\ [][Next]_vars

(***************************************************************************)
(* Properties.                                                             *)
(***************************************************************************)
TypeOK ==
  /\ \A l \in layers : l.lo < l.hi /\ l.keys \in Ranges /\ \A e \in l.ents \cup l.imgs :
       e[1] \in l.keys /\ e[2] >= l.lo /\ e[2] < l.hi
  /\ \A r \in Readers : read[r].st \in {"idle", "reading", "done", "missing key"}
  /\ cutoff \in InitLsn..Forever /\ partLsn \in InitLsn..Forever

\* Whatever the layer map becomes in the middle of a read, the next layer it visits exists and
\* adds, down to where that layer brings it, every change of the key once and nothing else.  This
\* includes the reads of image layer creation, at an LSN that may have fallen below the cutoff.  It
\* does not include a read that has started when GC waited for earlier ones, if an image layer has
\* come before GC chose what to remove: its guard is of the new cutoff and does not keep GC back.
ReadsAreExact ==
  \A r \in Readers : read[r].st = "reading" /\ read[r].late # "overtaken" =>
    LET me == read[r]
        found == NextLayer(r)
        values == Values(found.layer, me.key, found.floor, me.cont)
        floor == IF values.base = 0 THEN found.floor ELSE values.base + 1
    IN /\ found.layer.kind # "none"
       /\ found.floor < me.cont
       /\ me.recs \cap values.recs = {}
       /\ me.recs \cup values.recs = Changes(me.key, floor, me.lsn + 1)

\* No two delta layers hold the same part of the history of a key: "Overlaps between delta and
\* in-memory layers are not a valid state", and check_valid_layermap looks for such overlaps
\* among delta layers.
DeltasDoNotOverlap ==
  /\ \A l, m \in layers : l # m /\ l.kind = "delta" /\ m.kind = "delta" /\ Overlap(l.keys, m.keys)
       => l.hi <= m.lo \/ m.hi <= l.lo
  /\ \A l \in layers, j \in DOMAIN frozenLayers : l.kind = "delta" => l.hi <= frozenLayers[j].lo

=============================================================================
