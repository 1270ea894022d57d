--------------------------- MODULE EvictionProofs ---------------------------
(* Proofs about Eviction: any number of hashes and malformed names, of       *)
(* commits, purges and reads that race the pass, and of failing operations.  *)
EXTENDS Eviction, FiniteSetTheorems, TLAPS

-----------------------------------------------------------------------------
(* Sums of sizes.                                                            *)

Numbered(x, k) == {x} \X (1 .. k)

LEMMA NumberedSize ==
  ASSUME NEW x, NEW k \in Nat
  PROVE  IsFiniteSet(Numbered(x, k)) /\ Cardinality(Numbered(x, k)) = k
<1>1. IsFiniteSet(1 .. k) /\ Cardinality(1 .. k) = k
  BY FS_Interval
<1>2. IsFiniteSet({x}) /\ Cardinality({x}) = 1
  BY FS_Singleton
<1>3. /\ IsFiniteSet({x} \X (1 .. k))
      /\ Cardinality({x} \X (1 .. k)) = Cardinality({x}) * Cardinality(1 .. k)
  BY <1>1, <1>2, FS_Product
<1> QED
  BY <1>1, <1>2, <1>3 DEF Numbered

\* The bytes of the names in S, if y has w[y] of them.
BytesIn(S, w) == UNION {Numbered(y, w[y]) : y \in S}

LEMMA BytesFinite ==
  ASSUME NEW S, IsFiniteSet(S), NEW w, \A y \in S : w[y] \in Nat
  PROVE  IsFiniteSet(BytesIn(S, w))
<1> DEFINE f == [y \in S |-> Numbered(y, w[y])]
           T == {Numbered(y, w[y]) : y \in S}
<1>1. f \in Surjection(S, T)
  BY DEF Surjection
<1>2. IsFiniteSet(T)
  BY <1>1, FS_Surjection
<1>3. \A t \in T : IsFiniteSet(t)
  BY NumberedSize
<1> QED
  BY <1>2, <1>3, FS_UNION DEF BytesIn

(* One name's size is changed: the sum changes by as much.                   *)
LEMMA SumChange ==
  ASSUME NEW S, IsFiniteSet(S), NEW v \in [S -> Nat], NEW w \in [S -> Nat], NEW x \in S,
         \A y \in S \ {x} : w[y] = v[y]
  PROVE  SumOf(v) \in Nat /\ SumOf(w) \in Nat /\ SumOf(w) + v[x] = SumOf(v) + w[x]
<1> DEFINE R == BytesIn(S \ {x}, v)
<1>1. IsFiniteSet(S \ {x})
  BY FS_RemoveElement
<1>2. IsFiniteSet(R) /\ Cardinality(R) \in Nat
  BY <1>1, BytesFinite, FS_CardinalityType
<1>3. ASSUME NEW u \in [S -> Nat], \A y \in S \ {x} : u[y] = v[y]
      PROVE  SumOf(u) = Cardinality(R) + u[x]
  <2>1. UNION {{y} \X (1 .. u[y]) : y \in DOMAIN u} = R \cup Numbered(x, u[x])
    BY <1>3 DEF BytesIn, Numbered
  <2>2. R \cap Numbered(x, u[x]) = {}
    BY DEF BytesIn, Numbered
  <2>3. Cardinality(R \cap Numbered(x, u[x])) = 0
    BY <2>2, FS_EmptySet
  <2>4. IsFiniteSet(Numbered(x, u[x])) /\ Cardinality(Numbered(x, u[x])) = u[x] /\ u[x] \in Nat
    BY <1>3, NumberedSize
  <2> HIDE DEF R
  <2>5. Cardinality(R \cup Numbered(x, u[x]))
          = Cardinality(R) + Cardinality(Numbered(x, u[x])) - Cardinality(R \cap Numbered(x, u[x]))
    BY <1>2, <2>4, FS_Union
  <2>6. Cardinality(R \cup Numbered(x, u[x])) = Cardinality(R) + u[x]
    BY <1>2, <2>3, <2>4, <2>5
  <2> QED
    BY <2>1, <2>6 DEF SumOf
<1>4. SumOf(v) = Cardinality(R) + v[x] /\ SumOf(w) = Cardinality(R) + w[x]
  BY <1>3
<1>5. v[x] \in Nat /\ w[x] \in Nat
  OBVIOUS
<1> HIDE DEF R
<1> QED
  BY <1>2, <1>4, <1>5

LEMMA SumType ==
  ASSUME NEW S, IsFiniteSet(S), NEW w \in [S -> Nat]
  PROVE  SumOf(w) \in Nat
<1>1. SumOf(w) = Cardinality(BytesIn(S, w))
  BY DEF SumOf, BytesIn, Numbered
<1> QED
  BY <1>1, BytesFinite, FS_CardinalityType

LEMMA SumZero ==
  ASSUME NEW S, NEW w \in [S -> Nat], \A y \in S : w[y] = 0
  PROVE  SumOf(w) = 0
<1>1. UNION {{y} \X (1 .. w[y]) : y \in DOMAIN w} = {}
  OBVIOUS
<1> QED
  BY <1>1, FS_EmptySet DEF SumOf

LEMMA SumCovers ==
  ASSUME NEW S, IsFiniteSet(S), NEW w \in [S -> Nat], NEW x \in S
  PROVE  w[x] <= SumOf(w) /\ SumOf(w) \in Nat /\ w[x] \in Nat
<1> DEFINE v == [w EXCEPT ![x] = 0]
<1>1. v \in [S -> Nat] /\ v[x] = 0 /\ \A y \in S \ {x} : w[y] = v[y]
  OBVIOUS
<1> HIDE DEF v
<1>2. SumOf(v) \in Nat /\ SumOf(w) \in Nat /\ SumOf(w) + v[x] = SumOf(v) + w[x]
  BY <1>1, SumChange
<1>3. w[x] \in Nat
  OBVIOUS
<1> QED
  BY <1>1, <1>2, <1>3

-----------------------------------------------------------------------------
(* The inductive invariant.                                                  *)

Phases == {"idle", "scan", "clean", "evict", "done", "failed"}

Items == [name : Hashes, fill : 0 .. MaxFills, at : 0 .. MaxTime, size : Nat]

(* The types, and what is empty in which phase.                              *)
PassOK ==
  /\ TypeOK
  /\ poison \in [Names -> BOOLEAN]
  /\ busy \in [Hashes -> {"free", "body", "meta", "purge"}]
  /\ fills \in 0 .. MaxFills /\ ops \in Nat /\ faults \in Nat
  /\ phase \in Phases /\ quiet \in BOOLEAN
  /\ todo \subseteq Names \X {"body", "meta", "poison"}
  /\ seen \subseteq [name : Hashes, meta : Entries]
  /\ candidates \subseteq Items
  /\ scanned \in [bytes : Nat, entries : Nat]
  /\ phase # "scan" => todo = {} /\ seen = {}
  /\ phase \notin {"scan", "clean"} => deferred = {}
  /\ phase \in {"idle", "failed"} => candidates = {}
  /\ \A d \in deferred :
       /\ d.kind = "malformed" => d.name \in Junk
       /\ d.kind \in {"corrupt", "missing"} /\ d.name \in Junk => ~Readable(meta[d.name])

(* What the pass remembers of an entry that no cache operation has touched.  *)
SeenOK == \A s \in seen : meta[s.name] = s.meta /\ <<s.name, "meta">> \notin todo

DeferredOK ==
  \A d \in deferred :
    /\ d.kind = "body" => meta[d.name] = None
    /\ d.kind = "corrupt" => ~Readable(meta[d.name])
    /\ d.kind = "missing" => body[d.name] = None

CandidatesOK ==
  \A c \in candidates :
    /\ Readable(meta[c.name]) /\ meta[c.name].fill = c.fill /\ meta[c.name].at = c.at
    /\ body[c.name] # None
    /\ c.size = EntryBytes(c.name)

(* The scan or a clean-up still has to deal with the bytes of n.             *)
Open(n) ==
  \/ <<n, "meta">> \in todo
  \/ meta[n] = None /\ <<n, "body">> \in todo
  \/ \E s \in seen : s.name = n
  \/ \E d \in deferred : d.name = n /\ d.kind # "poison"

(* What the scan total has to contain by now.                                *)
Owed == [n \in Names |-> IF Open(n) THEN 0 ELSE EntryBytes(n)]

(* b covers the sum s, and is exact if nothing failed.                       *)
Covers(b, s) == b >= s /\ (faults = 0 => b = s)

Accounted ==
  /\ phase \in {"scan", "clean"} => Covers(scanned.bytes, SumOf(Owed))
  /\ phase \in {"evict", "done"} => Covers(current, DiskBytes) /\ stats.bytes >= DiskBytes

QuietOK ==
  quiet =>
    /\ \A n \in Names : <<n, "meta">> \in todo => meta[n] # None
    /\ SeenOK /\ DeferredOK /\ CandidatesOK
    /\ Accounted

EvictInv == PassOK /\ QuietOK
-----------------------------------------------------------------------------
(* What the types give.                                                      *)

LEMMA EntryFacts ==
  ASSUME PassOK
  PROVE  /\ \A n \in Names : /\ BodyBytes(n) \in Nat /\ MetaBytesOf(n) \in {0, 1}
                             /\ EntryBytes(n) \in Nat
                             /\ body[n] = None <=> BodyBytes(n) = 0
         /\ Owed \in [Names -> Nat]
         /\ [n \in Names |-> EntryBytes(n)] \in [Names -> Nat]
<1>1. ASSUME NEW n \in Names
      PROVE  /\ BodyBytes(n) \in Nat /\ MetaBytesOf(n) \in {0, 1}
             /\ (body[n] = None <=> BodyBytes(n) = 0)
  <2>1. body[n] \in (Nat \ {0}) \cup {None}
    BY DEF PassOK, TypeOK
  <2> QED
    BY <2>1 DEF BodyBytes, MetaBytesOf, MetaBytes
<1>2. \A n \in Names : EntryBytes(n) \in Nat
  BY <1>1 DEF EntryBytes
<1>3. Owed \in [Names -> Nat]
  BY <1>2 DEF Owed
<1> QED
  BY <1>1, <1>2, <1>3

LEMMA Finite == IsFiniteSet(Names)
BY NameAssumption DEF Names

(* Totals a and b before and after a step that changes the share of x alone. *)
LEMMA CoverMoves ==
  ASSUME NEW v \in [Names -> Nat], NEW w \in [Names -> Nat], NEW x \in Names,
         \A y \in Names \ {x} : w[y] = v[y], NEW a \in Nat, NEW b \in Nat
  PROVE  /\ a >= SumOf(v) /\ b + v[x] >= a + w[x] => b >= SumOf(w)
         /\ a = SumOf(v) /\ b + v[x] = a + w[x] => b = SumOf(w)
<1>1. SumOf(v) \in Nat /\ SumOf(w) \in Nat /\ SumOf(w) + v[x] = SumOf(v) + w[x]
  BY Finite, SumChange
<1>2. v[x] \in Nat /\ w[x] \in Nat
  OBVIOUS
<1> QED
  BY <1>1, <1>2

LEMMA SubFacts ==
  ASSUME NEW a \in Nat, NEW b \in Nat
  PROVE  Sub(a, b) \in Nat /\ (a >= b => Sub(a, b) + b = a)
BY DEF Sub

(* What a removal does to the files.                                         *)
LEMMA DeleteFacts ==
  ASSUME PassOK, NEW n \in Names, NEW fs, Delete(n, fs)
  PROVE  /\ body' \in [Names -> (Nat \ {0}) \cup {None}]
         /\ meta' \in [Names -> Entries \cup {None, Corrupt}]
         /\ poison' \in [Names -> BOOLEAN]
         /\ \A m \in Names \ {n} : body'[m] = body[m] /\ meta'[m] = meta[m]
         /\ body'[n] = IF "body" \in fs THEN None ELSE body[n]
         /\ meta'[n] = IF "meta" \in fs THEN None ELSE meta[n]
<1>1. body \in [Names -> (Nat \ {0}) \cup {None}] /\ meta \in [Names -> Entries \cup {None, Corrupt}]
  BY DEF PassOK, TypeOK
<1>2. poison \in [Names -> BOOLEAN]
  BY DEF PassOK
<1>3. poison' \in [Names -> BOOLEAN]
  BY <1>2 DEF Delete
<1>4. /\ body' \in [Names -> (Nat \ {0}) \cup {None}]
      /\ \A m \in Names \ {n} : body'[m] = body[m]
      /\ body'[n] = IF "body" \in fs THEN None ELSE body[n]
  BY <1>1 DEF Delete
<1>5. /\ meta' \in [Names -> Entries \cup {None, Corrupt}]
      /\ \A m \in Names \ {n} : meta'[m] = meta[m]
      /\ meta'[n] = IF "meta" \in fs THEN None ELSE meta[n]
  BY <1>1 DEF Delete
<1> QED
  BY <1>3, <1>4, <1>5

\* n alone changes, and only loses files.
Shrinks(n) ==
  /\ \A m \in Names \ {n} : body'[m] = body[m] /\ meta'[m] = meta[m]
  /\ body'[n] \in {body[n], None} /\ meta'[n] \in {meta[n], None}

FilesOK ==
  /\ body \in [Names -> (Nat \ {0}) \cup {None}]
  /\ meta \in [Names -> Entries \cup {None, Corrupt}]
  /\ poison \in [Names -> BOOLEAN]

(* Removing the files fs of n: what is left of n is counted, if fs holds all *)
(* the bytes there are.                                                      *)
LEMMA CleanFilesFacts ==
  ASSUME PassOK, NEW n \in Names, NEW fs, CleanFiles(n, fs)
  PROVE  /\ FilesOK' /\ Shrinks(n)
         /\ "body" \notin fs => body'[n] = body[n]
         /\ "meta" \notin fs => meta'[n] = meta[n]
         /\ \/ /\ UNCHANGED <<phase, todo, seen, candidates, current, stats>>
               /\ scanned' \in [bytes : Nat, entries : Nat] /\ faults' \in Nat /\ faults' >= faults
               /\ scanned'.bytes >= scanned.bytes
               /\ fs \cap {"body", "meta"} = {} => scanned'.bytes = scanned.bytes
               /\ faults' = 0 => scanned'.bytes = scanned.bytes
               /\ (body[n] # None => "body" \in fs) /\ (meta[n] # None => "meta" \in fs)
                    => /\ scanned'.bytes = scanned.bytes + EntryBytes(n)'
                       /\ faults' = 0 => EntryBytes(n)' = 0
            \/ Abort /\ faults' \in Nat /\ faults' >= faults
<1> DEFINE old == fs \cap Present(n)
<1>0. faults \in Nat /\ scanned \in [bytes : Nat, entries : Nat]
  BY DEF PassOK
<1>1. CASE \E bad \in SUBSET old :
             /\ Faulty(Cardinality(bad))
             /\ Delete(n, old \ bad)
             /\ scanned' = [scanned EXCEPT !.bytes = @ + UnreclaimedBytes(n, bad)]
             /\ UNCHANGED <<phase, todo, seen, candidates, current, stats>>
  <2>1. PICK bad \in SUBSET old :
             /\ Faulty(Cardinality(bad))
             /\ Delete(n, old \ bad)
             /\ scanned' = [scanned EXCEPT !.bytes = @ + UnreclaimedBytes(n, bad)]
             /\ UNCHANGED <<phase, todo, seen, candidates, current, stats>>
    BY <1>1
  <2>2. bad \subseteq fs /\ bad \subseteq {"body", "meta", "poison"}
        /\ ("body" \in bad => body[n] # None) /\ ("meta" \in bad => meta[n] # None)
        /\ ("body" \in old <=> "body" \in fs /\ body[n] # None)
        /\ ("meta" \in old <=> "meta" \in fs /\ meta[n] # None)
    BY DEF Present
  <2>3. IsFiniteSet(bad) /\ Cardinality(bad) \in Nat /\ (Cardinality(bad) = 0 <=> bad = {})
    <3>1. IsFiniteSet({"body", "meta", "poison"})
      <4>1. IsFiniteSet({}) /\ IsFiniteSet({} \cup {"body"})
        BY FS_EmptySet, FS_AddElement
      <4>2. IsFiniteSet(({} \cup {"body"}) \cup {"meta"})
        BY <4>1, FS_AddElement
      <4>3. IsFiniteSet((({} \cup {"body"}) \cup {"meta"}) \cup {"poison"})
        BY <4>2, FS_AddElement
      <4> QED
        BY <4>3
    <3>2. IsFiniteSet(bad)
      BY <2>2, <3>1, FS_Subset
    <3> QED
      BY <3>2, FS_CardinalityType, FS_EmptySet
  <2>4. /\ FilesOK' /\ Shrinks(n)
        /\ body'[n] = IF "body" \in old \ bad THEN None ELSE body[n]
        /\ meta'[n] = IF "meta" \in old \ bad THEN None ELSE meta[n]
    BY <2>1, DeleteFacts DEF FilesOK, Shrinks
  <2>5. /\ BodyBytes(n) \in Nat /\ MetaBytesOf(n) \in Nat
        /\ UnreclaimedBytes(n, bad) = (IF "body" \in bad THEN BodyBytes(n) ELSE 0)
                                      + (IF "meta" \in bad THEN MetaBytesOf(n) ELSE 0)
    BY EntryFacts DEF UnreclaimedBytes, Unreclaimed, Bytes
  <2>6. UnreclaimedBytes(n, bad) \in Nat
    BY <2>5
  <2>7. /\ scanned' \in [bytes : Nat, entries : Nat]
        /\ scanned'.bytes = scanned.bytes + UnreclaimedBytes(n, bad) /\ scanned.bytes \in Nat
    BY <1>0, <2>1, <2>6
  <2>8. faults' \in Nat /\ faults' >= faults /\ (faults' = 0 => bad = {})
    BY <1>0, <2>1, <2>3 DEF Faulty
  <2>9. (bad = {} => UnreclaimedBytes(n, bad) = 0)
        /\ (fs \cap {"body", "meta"} = {} => UnreclaimedBytes(n, bad) = 0)
    BY <2>2, <2>5
  <2>10. ASSUME body[n] # None => "body" \in fs, meta[n] # None => "meta" \in fs
         PROVE  EntryBytes(n)' = UnreclaimedBytes(n, bad)
    <3>1. BodyBytes(n)' = IF "body" \in bad THEN BodyBytes(n) ELSE 0
      BY <2>2, <2>4, <2>10 DEF BodyBytes
    <3>2. MetaBytesOf(n)' = IF "meta" \in bad THEN MetaBytesOf(n) ELSE 0
      BY <2>2, <2>4, <2>10 DEF MetaBytesOf, MetaBytes
    <3> QED
      BY <2>5, <3>1, <3>2 DEF EntryBytes
  <2>11. "body" \notin fs => body'[n] = body[n]
    BY <2>4
  <2>12. "meta" \notin fs => meta'[n] = meta[n]
    BY <2>4
  <2> HIDE DEF old
  <2> QED
    BY <2>1, <2>4, <2>6, <2>7, <2>8, <2>9, <2>10, <2>11, <2>12
<1>2. CASE \E gone \in SUBSET old : /\ gone # old /\ Faulty(3)
                                    /\ Delete(n, gone)
                                    /\ Abort
  <2>1. PICK gone \in SUBSET old : Faulty(3) /\ Delete(n, gone) /\ Abort
    BY <1>2
  <2>2. FilesOK' /\ Shrinks(n)
    BY <2>1, DeleteFacts DEF FilesOK, Shrinks
  <2>3. ("body" \notin fs => body'[n] = body[n]) /\ ("meta" \notin fs => meta'[n] = meta[n])
    BY <2>1, DeleteFacts
  <2>4. faults' \in Nat /\ faults' >= faults
    BY <1>0, <2>1 DEF Faulty
  <2> QED
    BY <2>1, <2>2, <2>3, <2>4
<1> QED
  BY <1>1, <1>2 DEF CleanFiles
-----------------------------------------------------------------------------
(* Types and phases.                                                         *)

(* How the clean-up of one item ends.                                        *)
Counts == /\ UNCHANGED <<phase, todo, seen, current, stats>>
          /\ scanned' \in [bytes : Nat, entries : Nat]
          /\ candidates' \subseteq Items

CleanArm(d) ==
  CASE d.kind = "body" -> CleanOrphanBody(d.name)
    [] d.kind = "poison" -> CleanOrphanPoison(d.name)
    [] d.kind = "malformed" -> CleanFiles(d.name, {"meta", "body", "poison"})
    [] d.kind \in {"corrupt", "missing"} -> CleanOrRecover(d.name)

LEMMA ArmFacts ==
  ASSUME NEW d, CleanArm(d), d.kind \in {"body", "poison", "corrupt", "malformed", "missing"}
  PROVE  /\ d.kind = "body" => CleanOrphanBody(d.name)
         /\ d.kind = "poison" => CleanOrphanPoison(d.name)
         /\ d.kind = "malformed" => CleanFiles(d.name, {"meta", "body", "poison"})
         /\ d.kind \in {"corrupt", "missing"} => CleanOrRecover(d.name)
<1>1. CASE d.kind = "body"
  BY <1>1 DEF CleanArm
<1>2. CASE d.kind = "poison"
  BY <1>2 DEF CleanArm
<1>3. CASE d.kind = "malformed"
  BY <1>3 DEF CleanArm
<1>4. CASE d.kind \in {"corrupt", "missing"}
  BY <1>4 DEF CleanArm
<1> QED
  BY <1>1, <1>2, <1>3, <1>4

LEMMA FoundFacts ==
  ASSUME PassOK, NEW n \in Hashes, NEW m \in Entries, NEW k \in Nat
  PROVE  /\ Found(n, m, k) \in Items /\ Found(n, m, k).name = n /\ Found(n, m, k).size = k + 1
         /\ Found(n, m, k).fill = m.fill /\ Found(n, m, k).at = m.at
BY DEF Found, Items, Entries, MetaBytes

(* Every arm of the clean-up: the files, the total, the pass.                *)
LEMMA ArmTypes ==
  ASSUME PassOK, NEW d \in deferred, CleanArm(d)
  PROVE  /\ FilesOK' /\ Shrinks(d.name) /\ faults' \in Nat /\ faults' >= faults
         /\ Counts \/ Abort
<1>0. d.name \in Names /\ d.kind \in {"body", "poison", "corrupt", "malformed", "missing"}
  BY DEF PassOK, TypeOK
<1>1. /\ FilesOK /\ faults \in Nat /\ scanned \in [bytes : Nat, entries : Nat]
      /\ candidates \subseteq Items
  BY DEF PassOK, TypeOK, FilesOK
<1>2. ASSUME NEW fs, CleanFiles(d.name, fs)
      PROVE  /\ FilesOK' /\ Shrinks(d.name) /\ faults' \in Nat /\ faults' >= faults
             /\ Counts \/ Abort
  BY <1>0, <1>1, <1>2, CleanFilesFacts DEF Counts
<1>3. ASSUME UNCHANGED fileVars PROVE FilesOK' /\ Shrinks(d.name)
  BY <1>1, <1>3 DEF FilesOK, Shrinks, fileVars
<1>4. ASSUME Skip PROVE FilesOK' /\ Shrinks(d.name) /\ Counts
  BY <1>1, <1>3, <1>4 DEF Skip, Counts
<1>5. ASSUME NEW k \in Nat, Faulty(k) PROVE faults' \in Nat /\ faults' >= faults
  BY <1>1, <1>5 DEF Faulty
<1>6. ASSUME Works PROVE faults' \in Nat /\ faults' >= faults
  BY <1>1, <1>6 DEF Works
<1>7. CASE d.kind = "body"
  <2>1. CleanOrphanBody(d.name)
    BY <1>0, <1>7, ArmFacts
  <2>2. CASE CleanFiles(d.name, {"body"})
    BY <1>2, <2>2
  <2>3. CASE Works /\ Skip
    BY <1>4, <1>6, <2>3
  <2>4. CASE /\ Faulty(1)
             /\ scanned' = [scanned EXCEPT !.bytes = @ + BodyBytes(d.name)]
             /\ UNCHANGED <<fileVars, phase, todo, seen, candidates, current, stats>>
    <3>1. BodyBytes(d.name) \in Nat
      BY <1>0, EntryFacts
    <3>2. scanned' \in [bytes : Nat, entries : Nat]
      BY <1>1, <2>4, <3>1
    <3> QED
      BY <1>1, <1>3, <1>5, <2>4, <3>2 DEF Counts
  <2>5. CASE Faulty(2) /\ Abort /\ UNCHANGED fileVars
    BY <1>3, <1>5, <2>5
  <2> QED
    BY <2>1, <2>2, <2>3, <2>4, <2>5 DEF CleanOrphanBody
<1>8. CASE d.kind = "poison"
  <2>1. CleanOrphanPoison(d.name)
    BY <1>0, <1>8, ArmFacts
  <2> QED
    BY <1>2, <1>4, <1>5, <1>6, <2>1 DEF CleanOrphanPoison
<1>9. CASE d.kind = "malformed"
  BY <1>0, <1>2, <1>9, ArmFacts
<1>10. CASE d.kind \in {"corrupt", "missing"}
  <2>1. CleanOrRecover(d.name)
    BY <1>0, <1>10, ArmFacts
  <2>2. CASE \E fs : CleanFiles(d.name, fs)
    BY <1>2, <2>2
  <2>3. CASE /\ Recovered(d.name) /\ Works
             /\ candidates' = candidates \cup {Found(d.name, meta[d.name], body[d.name])}
             /\ Count(body[d.name] + MetaBytes)
             /\ UNCHANGED <<fileVars, phase, todo, seen, current, stats>>
    <3>1. d.name \in Hashes /\ meta[d.name] \in Entries /\ body[d.name] \in Nat
      BY <1>0, <1>10, <2>3 DEF PassOK, TypeOK, Recovered, Readable, Names
    <3>2. Found(d.name, meta[d.name], body[d.name]) \in Items
      BY <3>1, FoundFacts
    <3>3. scanned' \in [bytes : Nat, entries : Nat]
      BY <1>1, <2>3, <3>1 DEF Count, MetaBytes
    <3> QED
      BY <1>1, <1>3, <1>6, <2>3, <3>2, <3>3 DEF Counts
  <2>4. CASE UNCHANGED fileVars /\ Abort /\ (Works \/ Faulty(1))
    BY <1>3, <1>5, <1>6, <2>4
  <2> QED
    BY <2>1, <2>2, <2>3, <2>4 DEF CleanOrRecover
<1> QED
  BY <1>0, <1>7, <1>8, <1>9, <1>10

(* The part of PassOK about the cache's own variables.                       *)
CacheOK ==
  /\ FilesOK
  /\ busy \in [Hashes -> {"free", "body", "meta", "purge"}]
  /\ fills \in 0 .. MaxFills /\ ops \in Nat

LEMMA CacheTypes ==
  ASSUME PassOK, NEW n \in Hashes, CommitBackup(n) \/ CommitPublish(n) \/ Purge(n) \/ Touch(n)
  PROVE  CacheOK' /\ \A m \in Names \ {n} : meta'[m] = meta[m]
<1>1. /\ body \in [Names -> (Nat \ {0}) \cup {None}]
      /\ meta \in [Names -> Entries \cup {None, Corrupt}]
      /\ fills \in 0 .. MaxFills /\ ops \in Nat /\ n \in Names
      /\ busy \in [Hashes -> {"free", "body", "meta", "purge"}]
      /\ MaxFills \in Nat /\ MaxTime \in Nat
  BY BoundAssumption DEF PassOK, TypeOK, Names
<1>2. poison \in [Names -> BOOLEAN]
  BY DEF PassOK
<1>3. poison' \in [Names -> BOOLEAN]
  BY <1>2 DEF CommitBackup, CommitPublish, Purge, Touch
<1>4. body' \in [Names -> (Nat \ {0}) \cup {None}]
  BY <1>1, SizeAssumption DEF CommitBackup, CommitPublish, Purge, Touch
<1>5. busy' \in [Hashes -> {"free", "body", "meta", "purge"}]
  BY <1>1 DEF CommitBackup, CommitPublish, Purge, Touch
<1>6. fills' \in 0 .. MaxFills /\ ops' \in Nat
  BY <1>1 DEF CommitBackup, CommitPublish, Purge, Touch
<1>7. meta' \in [Names -> Entries \cup {None, Corrupt}] /\ \A m \in Names \ {n} : meta'[m] = meta[m]
  <2>1. CASE meta' = meta
    BY <1>1, <2>1
  <2>2. CASE meta' = [meta EXCEPT ![n] = None]
    BY <1>1, <2>2
  <2>3. CASE \E t \in 0 .. MaxTime : meta' = [meta EXCEPT ![n] = [fill |-> fills, at |-> t]]
    <3>1. PICK t \in 0 .. MaxTime : meta' = [meta EXCEPT ![n] = [fill |-> fills, at |-> t]]
      BY <2>3
    <3>2. [fill |-> fills, at |-> t] \in Entries
      BY <1>1 DEF Entries
    <3> QED
      BY <1>1, <3>1, <3>2
  <2>4. CASE Readable(meta[n]) /\ meta' = [meta EXCEPT ![n].at = MaxTime]
    <3>1. meta[n] \in Entries
      BY <1>1, <2>4 DEF Readable
    <3>2. [meta[n] EXCEPT !.at = MaxTime] \in Entries
      BY <1>1, <3>1 DEF Entries
    <3> QED
      BY <1>1, <2>4, <3>2
  <2> QED
    BY <2>1, <2>2, <2>3, <2>4 DEF CommitBackup, CommitPublish, Purge, Touch
<1> QED
  BY <1>3, <1>4, <1>5, <1>6, <1>7 DEF CacheOK, FilesOK

(* The part of PassOK about the pass.                                        *)
StageOK ==
  /\ deferred \subseteq [kind : {"body", "poison", "corrupt", "malformed", "missing"},
                         name : Names]
  /\ candidates \subseteq Items
  /\ current \in Nat /\ stats \in [bytes : Nat, entries : Nat]
  /\ faults \in Nat
  /\ phase \in Phases
  /\ todo \subseteq Names \X {"body", "meta", "poison"}
  /\ seen \subseteq [name : Hashes, meta : Entries]
  /\ scanned \in [bytes : Nat, entries : Nat]
  /\ phase # "scan" => todo = {} /\ seen = {}
  /\ phase \notin {"scan", "clean"} => deferred = {}
  /\ phase \in {"idle", "failed"} => candidates = {}

DeferredTypes ==
  \A d \in deferred :
    /\ d.kind = "malformed" => d.name \in Junk
    /\ d.kind \in {"corrupt", "missing"} /\ d.name \in Junk => ~Readable(meta[d.name])

LEMMA PassParts ==
  /\ PassOK => CacheOK /\ StageOK /\ DeferredTypes /\ quiet \in BOOLEAN
  /\ CacheOK' /\ StageOK' /\ DeferredTypes' /\ quiet' \in BOOLEAN => PassOK'
<1>1. candidates \subseteq Items =>
        candidates \subseteq [name : Names, fill : 0 .. MaxFills, at : 0 .. MaxTime, size : Nat]
  BY DEF Items, Names
<1>2. candidates' \subseteq Items =>
        candidates' \subseteq [name : Names, fill : 0 .. MaxFills, at : 0 .. MaxTime, size : Nat]
  BY DEF Items, Names
<1>3. PassOK => CacheOK /\ StageOK /\ DeferredTypes /\ quiet \in BOOLEAN
  BY DEF PassOK, TypeOK, CacheOK, FilesOK, StageOK, DeferredTypes
<1>4. CacheOK' /\ StageOK' /\ DeferredTypes' /\ quiet' \in BOOLEAN => PassOK'
  BY <1>2 DEF PassOK, TypeOK, CacheOK, FilesOK, StageOK, DeferredTypes
<1> QED
  BY <1>3, <1>4

LEMMA CachePass ==
  ASSUME PassOK, CacheStep
  PROVE  PassOK'
<1>1. PICK n \in Hashes : CommitBackup(n) \/ CommitPublish(n) \/ Purge(n) \/ Touch(n)
  BY DEF CacheStep
<1>2. CacheOK' /\ \A m \in Junk : meta'[m] = meta[m]
  BY <1>1, CacheTypes, NameAssumption DEF Names
<1>3. StageOK /\ DeferredTypes
  BY PassParts
<1>4. StageOK'
  BY <1>3 DEF StageOK, CacheStep, passVars
<1>5. DeferredTypes'
  BY <1>2, <1>3 DEF DeferredTypes, CacheStep, passVars
<1>6. quiet' \in BOOLEAN
  BY DEF CacheStep
<1> QED
  BY <1>2, <1>4, <1>5, <1>6, PassParts

LEMMA SameFiles ==
  ASSUME PassOK, UNCHANGED <<fileVars, cacheVars>>
  PROVE  CacheOK'
BY PassParts DEF CacheOK, FilesOK, fileVars, cacheVars

LEMMA FilesListed == Files \subseteq Names \X {"body", "meta", "poison"}
BY DEF Files

LEMMA StartPassOK ==
  ASSUME PassOK, StartPass
  PROVE  PassOK'
<1>1. CacheOK' /\ StageOK /\ DeferredTypes /\ quiet \in BOOLEAN
  BY SameFiles, PassParts DEF StartPass
<1>2. faults' \in Nat
  <2>1. faults \in Nat
    BY <1>1 DEF StageOK
  <2>2. faults' = faults \/ faults' = faults + 1
    BY DEF StartPass, Works, Faulty
  <2> QED
    BY <2>1, <2>2
<1>3. quiet' \in BOOLEAN
  BY <1>1 DEF StartPass
<1>4. DeferredTypes'
  BY <1>1 DEF DeferredTypes, StartPass, fileVars
<1>5. StageOK'
  <2>1. phase = "idle" /\ UNCHANGED <<seen, deferred, candidates, current, stats>>
    BY DEF StartPass
  <2>2. seen = {} /\ deferred = {} /\ candidates = {} /\ todo = {}
    BY <1>1, <2>1 DEF StageOK
  <2>3. \/ phase' = "scan" /\ todo' = Files /\ scanned' = [bytes |-> 0, entries |-> 0]
        \/ phase' \in {"idle", "failed"} /\ todo' = todo /\ scanned' = scanned
    BY DEF StartPass
  <2> QED
    BY <1>1, <1>2, <2>1, <2>2, <2>3, FilesListed DEF StageOK, Phases
<1> QED
  BY <1>1, <1>3, <1>4, <1>5, PassParts

LEMMA AbortStage ==
  ASSUME StageOK, Abort, faults' \in Nat
  PROVE  StageOK' /\ DeferredTypes'
BY DEF StageOK, Abort, Phases, DeferredTypes

LEMMA ScanStepOK ==
  ASSUME PassOK, ScanStep
  PROVE  PassOK'
<1>1. CacheOK' /\ StageOK /\ DeferredTypes /\ quiet' \in BOOLEAN
  <2>1. CacheOK'
    BY SameFiles DEF ScanStep
  <2>2. StageOK /\ DeferredTypes /\ quiet \in BOOLEAN
    BY PassParts
  <2> QED
    BY <2>1, <2>2 DEF ScanStep
<1>2. UNCHANGED <<meta, body>> /\ phase = "scan"
  BY DEF ScanStep, fileVars
<1>3. /\ meta \in [Names -> Entries \cup {None, Corrupt}]
      /\ body \in [Names -> (Nat \ {0}) \cup {None}]
  BY DEF PassOK, TypeOK
<1>4. CASE \E n \in Names : ScanMeta(n)
  <2>1. PICK n \in Names : ScanMeta(n)
    BY <1>4
  <2>2. meta[n] \in Entries \cup {None, Corrupt}
    BY <1>3
  <2>3. \/ deferred' = deferred
        \/ deferred' = deferred \cup {[kind |-> "corrupt", name |-> n]} /\ meta[n] = Corrupt
        \/ deferred' = deferred \cup {[kind |-> "malformed", name |-> n]} /\ n \in Junk
    BY <2>1 DEF ScanMeta, Defer
  <2>4. DeferredTypes'
    BY <1>1, <1>2, <2>3 DEF DeferredTypes, Readable
  <2>5. seen' \subseteq [name : Hashes, meta : Entries]
    BY <1>1, <2>1, <2>2 DEF ScanMeta, Readable, StageOK
  <2>6. StageOK'
    BY <1>1, <1>2, <2>1, <2>3, <2>5 DEF ScanMeta, StageOK, Works
  <2> QED
    BY <1>1, <2>4, <2>6, PassParts
<1>5. CASE \E n \in Names : \E k \in {"body", "poison"} : ScanSideFile(n, k)
  <2>1. PICK n \in Names, k \in {"body", "poison"} : ScanSideFile(n, k)
    BY <1>5
  <2>2. deferred' \subseteq deferred \cup {[kind |-> k, name |-> n]}
    BY <2>1 DEF ScanSideFile, Defer
  <2>3. DeferredTypes'
    BY <1>1, <1>2, <2>2 DEF DeferredTypes
  <2>4. StageOK'
    BY <1>1, <1>2, <2>1, <2>2 DEF ScanSideFile, StageOK, Works
  <2> QED
    BY <1>1, <2>3, <2>4, PassParts
<1>6. CASE \E s \in seen : ScanBodySize(s)
  <2>1. PICK s \in seen : ScanBodySize(s)
    BY <1>6
  <2>2. s.name \in Hashes /\ s.name \in Names /\ s.name \notin Junk /\ s.meta \in Entries
    BY <1>1, NameAssumption DEF StageOK, Names
  <2>3. deferred' \subseteq deferred \cup {[kind |-> "missing", name |-> s.name]}
    BY <2>1 DEF ScanBodySize, Defer
  <2>4. DeferredTypes'
    BY <1>1, <1>2, <2>2, <2>3 DEF DeferredTypes
  <2>5. CASE body[s.name] = None
    <3>1. StageOK'
      BY <1>1, <1>2, <2>1, <2>2, <2>3, <2>5 DEF ScanBodySize, StageOK, Works
    <3> QED
      BY <1>1, <2>4, <3>1, PassParts
  <2>6. CASE body[s.name] # None
    <3>1. body[s.name] \in Nat
      BY <1>3, <2>2, <2>6
    <3>2. Found(s.name, s.meta, body[s.name]) \in Items
      BY <2>2, <3>1, FoundFacts
    <3>3. scanned' \in [bytes : Nat, entries : Nat]
      BY <1>1, <2>1, <2>6, <3>1 DEF ScanBodySize, Count, MetaBytes, StageOK
    <3>4. candidates' \subseteq Items
      BY <1>1, <2>1, <2>6, <3>2 DEF ScanBodySize, StageOK
    <3>5. StageOK'
      BY <1>1, <1>2, <2>1, <2>2, <2>3, <2>6, <3>3, <3>4 DEF ScanBodySize, StageOK, Works
    <3> QED
      BY <1>1, <2>4, <3>5, PassParts
  <2> QED
    BY <2>5, <2>6
<1>7. CASE Faulty(1) /\ Abort
  <2>1. faults' \in Nat
    BY <1>1, <1>7 DEF Faulty, StageOK
  <2> QED
    BY <1>1, <1>7, <2>1, AbortStage, PassParts
<1> QED
  BY <1>4, <1>5, <1>6, <1>7 DEF ScanStep

LEMMA ScanDoneOK ==
  ASSUME PassOK, ScanDone
  PROVE  PassOK'
<1>1. CacheOK' /\ StageOK /\ DeferredTypes /\ quiet \in BOOLEAN
  BY SameFiles, PassParts DEF ScanDone
<1>2. StageOK' /\ DeferredTypes' /\ quiet' = quiet
  BY <1>1 DEF StageOK, DeferredTypes, ScanDone, Phases, fileVars
<1> QED
  BY <1>1, <1>2, PassParts

LEMMA CleanStepFacts ==
  ASSUME PassOK, CleanStep
  PROVE  /\ phase = "clean" /\ UNCHANGED <<cacheVars, quiet>>
         /\ \E d \in deferred : CleanArm(d) /\ deferred' = IF phase' = "failed" THEN {} ELSE deferred \ {d}
BY DEF CleanStep, CleanArm

LEMMA CleanStepOK ==
  ASSUME PassOK, CleanStep
  PROVE  PassOK'
<1>1. PICK d \in deferred : CleanArm(d) /\ deferred' = IF phase' = "failed" THEN {} ELSE deferred \ {d}
  BY CleanStepFacts
<1>2. StageOK /\ DeferredTypes /\ CacheOK /\ quiet' \in BOOLEAN /\ phase = "clean" /\ UNCHANGED cacheVars
  <2>1. quiet \in BOOLEAN /\ quiet' = quiet
    BY PassParts, CleanStepFacts
  <2> QED
    BY <2>1, PassParts, CleanStepFacts
<1>3. /\ FilesOK' /\ Shrinks(d.name) /\ faults' \in Nat /\ faults' >= faults
      /\ Counts \/ Abort
  BY <1>1, ArmTypes
<1>4. CacheOK'
  BY <1>2, <1>3 DEF CacheOK, cacheVars
<1>5. CASE Abort
  BY <1>2, <1>3, <1>4, <1>5, AbortStage, PassParts
<1>6. CASE Counts
  <2>1. deferred' \subseteq deferred
    BY <1>1
  <2>2. StageOK'
    BY <1>2, <1>3, <1>6, <2>1 DEF StageOK, Counts
  <2>3. \A e \in deferred' : e.name \in Names
    BY <2>2 DEF StageOK
  <2>4. DeferredTypes'
    BY <1>2, <1>3, <2>1, <2>3 DEF DeferredTypes, Shrinks, Readable
  <2> QED
    BY <1>2, <1>4, <2>2, <2>4, PassParts
<1> QED
  BY <1>3, <1>5, <1>6

LEMMA ReconcileOK ==
  ASSUME PassOK, Reconcile
  PROVE  PassOK'
<1>1. CacheOK' /\ StageOK /\ DeferredTypes /\ quiet \in BOOLEAN
  BY SameFiles, PassParts DEF Reconcile
<1>2. StageOK' /\ DeferredTypes' /\ quiet' = quiet
  BY <1>1 DEF StageOK, DeferredTypes, Reconcile, Phases, fileVars
<1> QED
  BY <1>1, <1>2, PassParts

LEMMA EvictDoneOK ==
  ASSUME PassOK, EvictDone \/ Tick
  PROVE  PassOK'
<1>1. CacheOK' /\ StageOK /\ DeferredTypes /\ quiet \in BOOLEAN
  BY SameFiles, PassParts DEF EvictDone, Tick
<1>2. StageOK' /\ DeferredTypes' /\ quiet' = quiet
  BY <1>1 DEF StageOK, DeferredTypes, EvictDone, Tick, Phases, fileVars
<1> QED
  BY <1>1, <1>2, PassParts

(* The eviction of one candidate.  Either both files are gone, or something  *)
(* failed and the budget is measured again or left as it was.                *)
LEMMA EvictFacts ==
  ASSUME PassOK, NEW c \in candidates, EvictUnchanged(c)
  PROVE  /\ FilesOK' /\ Shrinks(c.name)
         /\ faults' \in Nat /\ faults' >= faults
         /\ current' \in Nat /\ stats' \in [bytes : Nat, entries : Nat]
         /\ EntryBytes(c.name)' \in Nat /\ EntryBytes(c.name)' <= EntryBytes(c.name)
         /\ \/ /\ EntryBytes(c.name)' = 0 /\ current' = Sub(current, c.size)
               /\ stats'.bytes = Sub(stats.bytes, c.size)
            \/ /\ faults' > 0 /\ stats' = stats
               /\ \/ current' = Sub(current, c.size) + EntryBytes(c.name)'
                  \/ current' = current
<1> DEFINE n == c.name
           old == Present(n) \ {"poison"}
<1>0. /\ n \in Names /\ c.size \in Nat /\ faults \in Nat /\ current \in Nat
      /\ stats \in [bytes : Nat, entries : Nat]
  BY DEF PassOK, TypeOK
<1>1. PICK bad \in SUBSET old :
        /\ Faulty(Cardinality(bad))
        /\ \E fs : Delete(n, fs) /\ fs \cap {"body", "meta"} = (old \ bad) \cap {"body", "meta"}
        /\ bad = {} => /\ current' = Sub(current, c.size)
                       /\ stats' = [bytes |-> Sub(stats.bytes, c.size),
                                    entries |-> Sub(stats.entries, 1)]
        /\ bad # {} => PartlyEvicted(c, UnreclaimedBytes(n, bad)) /\ stats' = stats
  BY DEF EvictUnchanged
<1>2. PICK fs : Delete(n, fs) /\ fs \cap {"body", "meta"} = (old \ bad) \cap {"body", "meta"}
  BY <1>1
<1>3. /\ bad \subseteq {"body", "meta"}
      /\ ("body" \in bad => body[n] # None) /\ ("meta" \in bad => meta[n] # None)
      /\ ("body" \in fs <=> body[n] # None /\ "body" \notin bad)
      /\ ("meta" \in fs <=> meta[n] # None /\ "meta" \notin bad)
  BY <1>2 DEF Present
<1>4. /\ FilesOK' /\ Shrinks(n)
      /\ body'[n] = IF "body" \in fs THEN None ELSE body[n]
      /\ meta'[n] = IF "meta" \in fs THEN None ELSE meta[n]
  BY <1>0, <1>2, DeleteFacts DEF FilesOK, Shrinks
<1>5. Cardinality(bad) \in Nat /\ (Cardinality(bad) = 0 <=> bad = {})
  <2>1. IsFiniteSet({"body", "meta"})
    <3>1. IsFiniteSet({}) /\ IsFiniteSet({} \cup {"body"})
      BY FS_EmptySet, FS_AddElement
    <3>2. IsFiniteSet(({} \cup {"body"}) \cup {"meta"})
      BY <3>1, FS_AddElement
    <3> QED
      BY <3>2
  <2>2. IsFiniteSet(bad)
    BY <1>3, <2>1, FS_Subset
  <2> QED
    BY <2>2, FS_CardinalityType, FS_EmptySet
<1>6. faults' \in Nat /\ faults' >= faults /\ (bad # {} => faults' > 0)
  BY <1>0, <1>1, <1>5 DEF Faulty
<1>7. /\ BodyBytes(n) \in Nat /\ MetaBytesOf(n) \in Nat
      /\ UnreclaimedBytes(n, bad) = (IF "body" \in bad THEN BodyBytes(n) ELSE 0)
                                    + (IF "meta" \in bad THEN MetaBytesOf(n) ELSE 0)
  BY <1>0, EntryFacts DEF UnreclaimedBytes, Unreclaimed, Bytes
<1>8. EntryBytes(n)' = UnreclaimedBytes(n, bad)
  <2>1. BodyBytes(n)' = IF "body" \in bad THEN BodyBytes(n) ELSE 0
    BY <1>3, <1>4 DEF BodyBytes
  <2>2. MetaBytesOf(n)' = IF "meta" \in bad THEN MetaBytesOf(n) ELSE 0
    BY <1>3, <1>4 DEF MetaBytesOf, MetaBytes
  <2> QED
    BY <1>7, <2>1, <2>2 DEF EntryBytes
<1>9. /\ EntryBytes(n)' \in Nat /\ EntryBytes(n)' <= EntryBytes(n)
      /\ (bad = {} => EntryBytes(n)' = 0)
  BY <1>7, <1>8 DEF EntryBytes
<1>10. /\ Sub(current, c.size) \in Nat
       /\ stats.bytes \in Nat /\ Sub(stats.bytes, c.size) \in Nat
       /\ stats.entries \in Nat /\ Sub(stats.entries, 1) \in Nat
  BY <1>0, SubFacts
<1>11. CASE bad = {}
  BY <1>1, <1>4, <1>6, <1>9, <1>10, <1>11
<1>12. CASE bad # {}
  <2>1. current' = Sub(current, c.size) + EntryBytes(n)' \/ current' = current
    BY <1>1, <1>8, <1>12 DEF PartlyEvicted, Remeasured
  <2>2. current' \in Nat
    BY <1>0, <1>9, <1>10, <2>1
  <2> QED
    BY <1>0, <1>1, <1>4, <1>6, <1>9, <1>12, <2>1, <2>2
<1> QED
  BY <1>11, <1>12

LEMMA EvictStepOK ==
  ASSUME PassOK, EvictStep
  PROVE  PassOK'
<1>1. PICK c \in candidates : /\ SkipChanged(c) \/ SkipUnreadable(c) \/ EvictUnchanged(c)
                              /\ candidates' = candidates \ {c}
  BY DEF EvictStep, Oldest
<1>2. CacheOK /\ StageOK /\ DeferredTypes /\ quiet \in BOOLEAN
  BY PassParts
<1>3. UNCHANGED <<cacheVars, phase, todo, seen, deferred, scanned, quiet>> /\ phase = "evict"
  BY DEF EvictStep
<1>4. /\ FilesOK' /\ faults' \in Nat /\ current' \in Nat
      /\ stats' \in [bytes : Nat, entries : Nat]
  <2>1. CASE SkipChanged(c)
    <3>1. c.size \in Nat /\ c.name \in Names /\ current \in Nat /\ faults \in Nat
          /\ stats \in [bytes : Nat, entries : Nat]
      BY DEF PassOK, TypeOK
    <3>2. EntryBytes(c.name) \in Nat /\ Sub(current, c.size) \in Nat
      BY <3>1, EntryFacts, SubFacts
    <3>3. FilesOK' /\ stats' = stats
      BY <1>2, <2>1 DEF SkipChanged, CacheOK, FilesOK, fileVars
    <3>4. faults' = faults \/ faults' = faults + 1
      BY <2>1 DEF SkipChanged, Works, Faulty
    <3>5. current' = current \/ current' = Sub(current, c.size) + EntryBytes(c.name)
      BY <2>1 DEF SkipChanged, Remeasured
    <3> QED
      BY <3>1, <3>2, <3>3, <3>4, <3>5
  <2>2. CASE SkipUnreadable(c)
    <3>1. FilesOK'
      BY <1>2, <2>2 DEF SkipUnreadable, CacheOK, FilesOK, fileVars
    <3>2. faults' \in Nat
      BY <1>2, <2>2 DEF SkipUnreadable, Faulty, StageOK
    <3> QED
      BY <1>2, <2>2, <3>1, <3>2 DEF SkipUnreadable, StageOK
  <2>3. CASE EvictUnchanged(c)
    BY <2>3, EvictFacts
  <2> QED
    BY <1>1, <2>1, <2>2, <2>3
<1>5. CacheOK'
  BY <1>2, <1>3, <1>4 DEF CacheOK, cacheVars
<1>6. deferred = {} /\ deferred' = {}
  BY <1>2, <1>3 DEF StageOK
<1>7. StageOK' /\ DeferredTypes'
  BY <1>1, <1>2, <1>3, <1>4, <1>6 DEF StageOK, DeferredTypes
<1> QED
  BY <1>2, <1>3, <1>5, <1>7, PassParts

LEMMA InitOK == Init => PassOK
<1> SUFFICES ASSUME Init PROVE PassOK
  OBVIOUS
<1>1. MaxFills \in Nat /\ MaxTime \in Nat
  BY BoundAssumption
<1>2. body \in [Names -> (Nat \ {0}) \cup {None}]
  BY SizeAssumption DEF Init
<1>3. meta \in [Names -> Entries \cup {None, Corrupt}]
  <2>1. [fill : {0}, at : 0 .. MaxTime] \subseteq Entries
    BY <1>1 DEF Entries
  <2> QED
    BY <2>1 DEF Init
<1>4. [n \in Names |-> EntryBytes(n)] \in [Names -> Nat]
  <2>1. ASSUME NEW n \in Names PROVE EntryBytes(n) \in Nat
    BY <1>2 DEF EntryBytes, BodyBytes, MetaBytesOf, MetaBytes
  <2> QED
    BY <2>1
<1>5. DiskBytes \in Nat
  BY <1>4, Finite, SumType DEF DiskBytes
<1>6. poison \in [Names -> BOOLEAN] /\ quiet \in BOOLEAN
  BY DEF Init
<1>7. busy \in [Hashes -> {"free", "body", "meta", "purge"}]
  BY DEF Init
<1> QED
  BY <1>1, <1>2, <1>3, <1>5, <1>6, <1>7 DEF Init, PassOK, TypeOK, Phases

(* Every step keeps the types and the phases.                                *)
LEMMA PassSteps == PassOK /\ [Next]_vars => PassOK'
<1> SUFFICES ASSUME PassOK, [Next]_vars PROVE PassOK'
  OBVIOUS
<1>1. CASE UNCHANGED vars
  <2>1. CacheOK' /\ StageOK /\ DeferredTypes /\ quiet \in BOOLEAN
    BY <1>1, SameFiles, PassParts DEF vars
  <2>2. StageOK' /\ DeferredTypes' /\ quiet' = quiet
    BY <1>1, <2>1 DEF StageOK, DeferredTypes, vars, passVars, fileVars
  <2> QED
    BY <2>1, <2>2, PassParts
<1> QED
  BY <1>1, CachePass, StartPassOK, ScanStepOK, ScanDoneOK, CleanStepOK, ReconcileOK,
     EvictStepOK, EvictDoneOK DEF Next, PassStep
-----------------------------------------------------------------------------
(* Accounting.                                                               *)

LEMMA EntryFactsNext ==
  ASSUME PassOK'
  PROVE  /\ \A n \in Names : EntryBytes(n)' \in Nat
         /\ Owed' \in [Names -> Nat]
         /\ [n \in Names |-> EntryBytes(n)'] \in [Names -> Nat]
<1>1. ASSUME NEW n \in Names
      PROVE  BodyBytes(n)' \in Nat /\ MetaBytesOf(n)' \in {0, 1}
  <2>1. body'[n] \in (Nat \ {0}) \cup {None}
    BY DEF PassOK, TypeOK
  <2> QED
    BY <2>1 DEF BodyBytes, MetaBytesOf, MetaBytes
<1>2. \A n \in Names : EntryBytes(n)' \in Nat
  BY <1>1 DEF EntryBytes
<1>3. Owed' \in [Names -> Nat]
  BY <1>2 DEF Owed
<1> QED
  BY <1>2, <1>3

LEMMA SameBytes ==
  ASSUME UNCHANGED <<body, meta>>
  PROVE  \A n : EntryBytes(n)' = EntryBytes(n)
BY DEF EntryBytes, BodyBytes, MetaBytesOf

\* The named parts of QuietOK.
Listed == \A n \in Names : <<n, "meta">> \in todo => meta[n] # None

LEMMA QuietParts ==
  /\ QuietOK /\ quiet => Listed /\ SeenOK /\ DeferredOK /\ CandidatesOK /\ Accounted
  /\ Listed' /\ SeenOK' /\ DeferredOK' /\ CandidatesOK' /\ Accounted' => QuietOK'
BY DEF QuietOK, Listed

(* Between passes nothing is remembered.                                     *)
LEMMA EmptyQuiet ==
  ASSUME todo' = {}, seen' = {}, deferred' = {}, candidates' = {}, phase' \in {"idle", "failed"}
  PROVE  QuietOK'
BY DEF QuietOK, SeenOK, DeferredOK, CandidatesOK, Accounted

LEMMA StartQuiet ==
  ASSUME PassOK, PassOK', StartPass
  PROVE  QuietOK'
<1>1. /\ UNCHANGED <<body, meta, poison, seen, deferred, candidates>>
      /\ seen = {} /\ deferred = {} /\ candidates = {} /\ todo = {}
  BY PassParts DEF StartPass, StageOK, fileVars
<1>2. CASE phase' \in {"idle", "failed"} /\ todo' = todo
  BY <1>1, <1>2, EmptyQuiet
<1>3. CASE phase' = "scan" /\ todo' = Files /\ scanned' = [bytes |-> 0, entries |-> 0]
  <2>1. \A n \in Names : /\ <<n, "meta">> \in Files <=> meta[n] # None
                         /\ <<n, "body">> \in Files <=> body[n] # None
    BY DEF Files
  <2>2. ASSUME NEW n \in Names PROVE Owed'[n] = 0
    <3>1. CASE meta[n] = None /\ body[n] = None
      <4>1. EntryBytes(n)' = 0
        BY <1>1, <3>1 DEF EntryBytes, BodyBytes, MetaBytesOf
      <4> QED
        BY <4>1 DEF Owed
    <3>2. CASE meta[n] # None \/ body[n] # None
      <4>1. Open(n)'
        BY <1>1, <1>3, <2>1, <3>2 DEF Open
      <4> QED
        BY <4>1 DEF Owed
    <3> QED
      BY <3>1, <3>2
  <2>3. Owed' \in [Names -> Nat]
    BY EntryFactsNext
  <2>4. SumOf(Owed') = 0
    BY <2>2, <2>3, SumZero
  <2>5. Accounted'
    BY <1>3, <2>4 DEF Accounted, Covers
  <2>6. Listed'
    BY <1>1, <1>3, <2>1 DEF Listed
  <2>7. SeenOK' /\ DeferredOK' /\ CandidatesOK'
    BY <1>1 DEF SeenOK, DeferredOK, CandidatesOK
  <2> QED
    BY <2>5, <2>6, <2>7, QuietParts
<1> QED
  BY <1>2, <1>3 DEF StartPass

(* A step that opens and closes nothing and touches no total.                *)
LEMMA SameAccount ==
  ASSUME PassOK, Accounted, UNCHANGED <<body, meta, scanned, faults>>,
         phase \in {"scan", "clean"}, phase' \in {"scan", "clean"},
         \A m \in Names : Open(m)' <=> Open(m)
  PROVE  Accounted'
<1>1. \A m \in Names : EntryBytes(m)' = EntryBytes(m)
  BY SameBytes
<1>2. Owed' = Owed
  BY <1>1 DEF Owed
<1>3. Covers(scanned.bytes, SumOf(Owed))
  BY DEF Accounted
<1>4. Covers(scanned.bytes, SumOf(Owed))'
  BY <1>2, <1>3 DEF Covers
<1> QED
  BY <1>4 DEF Accounted

LEMMA ScanMetaQuiet ==
  ASSUME PassOK, QuietOK, quiet, phase = "scan", UNCHANGED <<body, meta>>,
         NEW n \in Names, ScanMeta(n)
  PROVE  QuietOK'
<1>1. Listed /\ SeenOK /\ DeferredOK /\ CandidatesOK /\ Accounted
  BY QuietParts
<1>2. meta[n] # None /\ <<n, "meta">> \in todo /\ todo' = todo \ {<<n, "meta">>}
  BY <1>1 DEF ScanMeta, Listed
<1>3. UNCHANGED <<phase, candidates, scanned, faults>>
  BY DEF ScanMeta, Works
<1>4. \/ /\ deferred' = deferred \cup {[kind |-> "corrupt", name |-> n]}
         /\ seen' = seen /\ meta[n] = Corrupt
      \/ deferred' = deferred \cup {[kind |-> "malformed", name |-> n]} /\ seen' = seen
      \/ seen' = seen \cup {[name |-> n, meta |-> meta[n]]} /\ deferred' = deferred
  BY <1>2 DEF ScanMeta, Defer
<1>5. Listed'
  BY <1>1, <1>2 DEF Listed
<1>6. SeenOK'
  <2> SUFFICES ASSUME NEW s \in seen' PROVE meta'[s.name] = s.meta /\ <<s.name, "meta">> \notin todo'
    BY DEF SeenOK
  <2>1. CASE s \in seen
    BY <1>1, <1>2, <2>1 DEF SeenOK
  <2>2. CASE s = [name |-> n, meta |-> meta[n]]
    <3>1. s.name = n /\ s.meta = meta[n]
      BY <2>2
    <3> QED
      BY <1>2, <3>1
  <2> QED
    BY <1>4, <2>1, <2>2
<1>7. DeferredOK'
  BY <1>1, <1>4 DEF DeferredOK, Readable
<1>8. CandidatesOK'
  BY <1>1, <1>3, SameBytes DEF CandidatesOK
<1>9. ASSUME NEW m \in Names PROVE Open(m)' <=> Open(m)
  <2>1. CASE m = n
    <3>1. Open(m)
      BY <1>2, <2>1 DEF Open
    <3>2. CASE \E kind \in {"corrupt", "malformed"} : [kind |-> kind, name |-> n] \in deferred'
      <4>1. PICK kind \in {"corrupt", "malformed"} : [kind |-> kind, name |-> n] \in deferred'
        BY <3>2
      <4>2. [kind |-> kind, name |-> n].name = n /\ [kind |-> kind, name |-> n].kind # "poison"
        BY <4>1
      <4> QED
        BY <2>1, <3>1, <4>1, <4>2 DEF Open
    <3>3. CASE [name |-> n, meta |-> meta[n]] \in seen'
      <4>1. [name |-> n, meta |-> meta[n]].name = n
        OBVIOUS
      <4> QED
        BY <2>1, <3>1, <3>3, <4>1 DEF Open
    <3> QED
      BY <1>4, <3>2, <3>3
  <2>2. CASE m # n
    <3>1. <<m, "meta">> \in todo' <=> <<m, "meta">> \in todo
      BY <1>2, <2>2
    <3>2. <<m, "body">> \in todo' <=> <<m, "body">> \in todo
      BY <1>2
    <3>3. (\E s \in seen' : s.name = m) <=> (\E s \in seen : s.name = m)
      BY <1>4, <2>2
    <3>4. (\E d \in deferred' : d.name = m /\ d.kind # "poison")
            <=> (\E d \in deferred : d.name = m /\ d.kind # "poison")
      BY <1>4, <2>2
    <3> QED
      BY <3>1, <3>2, <3>3, <3>4 DEF Open
  <2> QED
    BY <2>1, <2>2
<1>10. Accounted'
  BY <1>1, <1>3, <1>9, SameAccount
<1> QED
  BY <1>5, <1>6, <1>7, <1>8, <1>10, QuietParts

LEMMA ScanSideQuiet ==
  ASSUME PassOK, QuietOK, quiet, phase = "scan", UNCHANGED <<body, meta>>,
         NEW n \in Names, NEW k \in {"body", "poison"}, ScanSideFile(n, k)
  PROVE  QuietOK'
<1>1. Listed /\ SeenOK /\ DeferredOK /\ CandidatesOK /\ Accounted
  BY QuietParts
<1>2. <<n, k>> \in todo /\ todo' = todo \ {<<n, k>>}
  BY DEF ScanSideFile
<1>3. UNCHANGED <<phase, candidates, scanned, faults, seen>>
  BY DEF ScanSideFile, Works
<1>4. \/ meta[n] = None /\ deferred' = deferred \cup {[kind |-> k, name |-> n]}
      \/ meta[n] # None /\ deferred' = deferred
  BY DEF ScanSideFile, Defer
<1>5. Listed' /\ SeenOK'
  BY <1>1, <1>2, <1>3 DEF Listed, SeenOK
<1>6. DeferredOK'
  BY <1>1, <1>4 DEF DeferredOK, Readable
<1>7. CandidatesOK'
  BY <1>1, <1>3, SameBytes DEF CandidatesOK
<1>8. ASSUME NEW m \in Names PROVE Open(m)' <=> Open(m)
  <2>1. <<m, "meta">> \in todo' <=> <<m, "meta">> \in todo
    BY <1>2
  <2>2. CASE m # n \/ k = "poison"
    <3>1. <<m, "body">> \in todo' <=> <<m, "body">> \in todo
      BY <1>2, <2>2
    <3>2. (\E d \in deferred' : d.name = m /\ d.kind # "poison")
            <=> (\E d \in deferred : d.name = m /\ d.kind # "poison")
      BY <1>4, <2>2
    <3> QED
      BY <1>3, <2>1, <3>1, <3>2 DEF Open
  <2>3. CASE m = n /\ k = "body" /\ meta[n] = None
    <3>1. Open(m)
      BY <1>2, <2>3 DEF Open
    <3>2. [kind |-> k, name |-> n] \in deferred'
      BY <1>4, <2>3
    <3>3. [kind |-> k, name |-> n].name = m /\ [kind |-> k, name |-> n].kind # "poison"
      BY <2>3
    <3> QED
      BY <3>1, <3>2, <3>3 DEF Open
  <2>4. CASE m = n /\ k = "body" /\ meta[n] # None
    BY <1>3, <1>4, <2>1, <2>4 DEF Open
  <2> QED
    BY <2>2, <2>3, <2>4
<1>9. Accounted'
  BY <1>1, <1>3, <1>8, SameAccount
<1> QED
  BY <1>5, <1>6, <1>7, <1>9, QuietParts

LEMMA ScanBodyQuiet ==
  ASSUME PassOK, PassOK', QuietOK, quiet, phase = "scan", UNCHANGED <<body, meta>>,
         NEW s \in seen, ScanBodySize(s)
  PROVE  QuietOK'
<1> DEFINE n == s.name
<1>1. Listed /\ SeenOK /\ DeferredOK /\ CandidatesOK /\ Accounted
  BY QuietParts
<1>2. UNCHANGED <<phase, todo, faults>> /\ seen' = seen \ {s}
  BY DEF ScanBodySize, Works
<1>3. /\ n \in Hashes /\ n \in Names /\ n \notin Junk /\ s.meta \in Entries
      /\ seen \subseteq [name : Hashes, meta : Entries]
      /\ \A d \in deferred : /\ d.kind \in {"body", "poison", "corrupt", "malformed", "missing"}
                             /\ d.kind = "malformed" => d.name \in Junk
  BY NameAssumption DEF PassOK, TypeOK, Names
<1>4. meta[n] = s.meta /\ Readable(meta[n]) /\ <<n, "meta">> \notin todo
  BY <1>1, <1>3, ValueAssumption DEF SeenOK, Readable
<1>5. \A t \in seen : t.name = n => t = s
  BY <1>1, <1>3, <1>4 DEF SeenOK
<1>6. Listed' /\ SeenOK'
  BY <1>1, <1>2 DEF Listed, SeenOK
<1>7. ASSUME NEW m \in Names, m # n PROVE Open(m)' <=> Open(m)
  <2>1. (\E t \in seen' : t.name = m) <=> (\E t \in seen : t.name = m)
    BY <1>2, <1>7
  <2>2. (\E d \in deferred' : d.name = m /\ d.kind # "poison")
          <=> (\E d \in deferred : d.name = m /\ d.kind # "poison")
    BY <1>7 DEF ScanBodySize, Defer
  <2> QED
    BY <1>2, <2>1, <2>2 DEF Open
<1>8. Open(n)
  BY DEF Open
<1>9. CASE body[n] = None
  <2>1. deferred' = deferred \cup {[kind |-> "missing", name |-> n]} /\ UNCHANGED <<candidates, scanned>>
    BY <1>9 DEF ScanBodySize, Defer
  <2>2. DeferredOK'
    BY <1>1, <1>9, <2>1 DEF DeferredOK
  <2>3. CandidatesOK'
    BY <1>1, <2>1, SameBytes DEF CandidatesOK
  <2>4. Open(n)'
    <3>1. [kind |-> "missing", name |-> n] \in deferred'
      BY <2>1
    <3>2. [kind |-> "missing", name |-> n].name = n /\ [kind |-> "missing", name |-> n].kind # "poison"
      OBVIOUS
    <3> QED
      BY <3>1, <3>2 DEF Open
  <2>5. Accounted'
    BY <1>1, <1>2, <1>7, <1>8, <2>1, <2>4, SameAccount
  <2> QED
    BY <1>6, <2>2, <2>3, <2>5, QuietParts
<1>10. CASE body[n] # None
  <2>1. /\ deferred' = deferred
        /\ candidates' = candidates \cup {Found(n, s.meta, body[n])}
        /\ scanned' = [bytes |-> scanned.bytes + (body[n] + 1), entries |-> scanned.entries + 1]
    BY <1>10 DEF ScanBodySize, Count, MetaBytes
  <2>2. body[n] \in Nat /\ scanned.bytes \in Nat
    BY <1>3, <1>10 DEF PassOK, TypeOK
  <2>3. EntryBytes(n) = body[n] + 1
    BY <1>4, <1>10, <2>2 DEF EntryBytes, BodyBytes, MetaBytesOf, MetaBytes, Readable
  <2>4. DeferredOK'
    BY <1>1, <2>1 DEF DeferredOK
  <2>5. CandidatesOK'
    <3>1. /\ Found(n, s.meta, body[n]).name = n /\ Found(n, s.meta, body[n]).size = body[n] + 1
          /\ Found(n, s.meta, body[n]).fill = s.meta.fill /\ Found(n, s.meta, body[n]).at = s.meta.at
      BY <1>3, <2>2, FoundFacts
    <3> QED
      BY <1>1, <1>4, <1>10, <2>1, <2>3, <3>1, SameBytes DEF CandidatesOK
  <2>6. ~Open(n)'
    <3>1. \A d \in deferred : d.name = n => d.kind = "poison"
      BY <1>1, <1>3, <1>4, <1>10 DEF DeferredOK, Readable
    <3>2. ~ \E t \in seen' : t.name = n
      BY <1>2, <1>5
    <3> QED
      BY <1>2, <1>4, <2>1, <3>1, <3>2 DEF Open, Readable
  <2>7. /\ Owed \in [Names -> Nat] /\ Owed' \in [Names -> Nat]
        /\ Owed[n] = 0 /\ Owed'[n] = body[n] + 1
        /\ \A m \in Names \ {n} : Owed'[m] = Owed[m]
    <3>1. Owed \in [Names -> Nat] /\ Owed' \in [Names -> Nat]
      BY EntryFacts, EntryFactsNext
    <3>2. \A m \in Names : Owed'[m] = IF Open(m)' THEN 0 ELSE EntryBytes(m)
      BY SameBytes DEF Owed
    <3>3. \A m \in Names : Owed[m] = IF Open(m) THEN 0 ELSE EntryBytes(m)
      BY DEF Owed
    <3> QED
      BY <1>3, <1>7, <1>8, <2>3, <2>6, <3>1, <3>2, <3>3
  <2>8. scanned'.bytes = scanned.bytes + (body[n] + 1) /\ scanned'.bytes \in Nat
    BY <2>1, <2>2
  <2>9. Covers(scanned.bytes, SumOf(Owed))
    BY <1>1 DEF Accounted
  <2>10. /\ scanned.bytes >= SumOf(Owed) => scanned'.bytes >= SumOf(Owed')
         /\ scanned.bytes = SumOf(Owed) => scanned'.bytes = SumOf(Owed')
    <3>1. scanned'.bytes + Owed[n] = scanned.bytes + Owed'[n]
      BY <2>2, <2>7, <2>8
    <3>2. scanned'.bytes + Owed[n] >= scanned.bytes + Owed'[n]
      BY <2>2, <2>7, <2>8
    <3> QED
      BY <1>3, <2>2, <2>7, <2>8, <3>1, <3>2, CoverMoves
  <2>11. Covers(scanned.bytes, SumOf(Owed))'
    BY <1>2, <2>9, <2>10 DEF Covers
  <2>12. Accounted'
    BY <1>2, <2>11 DEF Accounted
  <2> QED
    BY <1>6, <2>4, <2>5, <2>12, QuietParts
<1> QED
  BY <1>9, <1>10

LEMMA ScanQuiet ==
  ASSUME PassOK, PassOK', QuietOK, quiet, ScanStep
  PROVE  QuietOK'
<1>1. phase = "scan" /\ UNCHANGED <<body, meta>>
  BY DEF ScanStep, fileVars
<1>2. CASE Abort
  BY <1>2, EmptyQuiet DEF Abort
<1> QED
  BY <1>1, <1>2, ScanMetaQuiet, ScanSideQuiet, ScanBodyQuiet DEF ScanStep

LEMMA ScanDoneQuiet ==
  ASSUME PassOK, QuietOK, quiet, ScanDone
  PROVE  QuietOK'
<1>1. Listed /\ SeenOK /\ DeferredOK /\ CandidatesOK /\ Accounted
  BY QuietParts
<1>2. /\ UNCHANGED <<body, meta, todo, seen, deferred, candidates, scanned, faults>>
      /\ phase = "scan" /\ phase' = "clean"
  BY DEF ScanDone, fileVars
<1>3. Listed' /\ SeenOK' /\ DeferredOK'
  BY <1>1, <1>2 DEF Listed, SeenOK, DeferredOK
<1>4. CandidatesOK'
  BY <1>1, <1>2, SameBytes DEF CandidatesOK
<1>5. \A m \in Names : Open(m)' <=> Open(m)
  BY <1>2 DEF Open
<1>6. Accounted'
  BY <1>1, <1>2, <1>5, SameAccount
<1> QED
  BY <1>3, <1>4, <1>6, QuietParts

(* The clean-up of one item accounts for all the bytes of its name that are  *)
(* left; that of a poison marker touches no bytes.                           *)
LEMMA ArmCounts ==
  ASSUME PassOK, DeferredOK, phase = "clean", NEW d \in deferred, CleanArm(d), ~Abort
  PROVE  /\ candidates' = candidates
         /\ d.kind = "poison" => /\ body'[d.name] = body[d.name] /\ meta'[d.name] = meta[d.name]
                                 /\ scanned'.bytes = scanned.bytes
         /\ d.kind # "poison" => /\ scanned'.bytes = scanned.bytes + EntryBytes(d.name)'
                                 /\ faults' = 0 => EntryBytes(d.name)' = 0
<1> DEFINE n == d.name
<1>0. n \in Names /\ d.kind \in {"body", "poison", "corrupt", "malformed", "missing"}
  BY DEF PassOK, TypeOK
<1>1. ASSUME NEW fs, CleanFiles(n, fs),
             (body[n] # None => "body" \in fs) /\ (meta[n] # None => "meta" \in fs)
      PROVE  /\ candidates' = candidates
             /\ scanned'.bytes = scanned.bytes + EntryBytes(n)'
             /\ faults' = 0 => EntryBytes(n)' = 0
  BY <1>0, <1>1, CleanFilesFacts
<1>2. CASE d.kind = "poison"
  <2>1. CleanOrphanPoison(n)
    BY <1>0, <1>2, ArmFacts
  <2>2. CASE CleanFiles(n, {"poison"})
    BY <1>0, <1>2, <2>2, CleanFilesFacts
  <2>3. CASE Skip
    BY <1>2, <2>3 DEF Skip, fileVars
  <2> QED
    BY <2>1, <2>2, <2>3 DEF CleanOrphanPoison
<1>3. CASE d.kind = "body"
  <2>1. CleanOrphanBody(n) /\ meta[n] = None
    BY <1>0, <1>3, ArmFacts DEF DeferredOK
  <2>2. CASE CleanFiles(n, {"body"})
    BY <1>1, <1>3, <2>1, <2>2
  <2>3. CASE /\ Faulty(1)
             /\ scanned' = [scanned EXCEPT !.bytes = @ + BodyBytes(n)]
             /\ UNCHANGED <<fileVars, phase, todo, seen, candidates, current, stats>>
    <3>1. BodyBytes(n) \in Nat
      BY <1>0, EntryFacts
    <3>2. EntryBytes(n)' = BodyBytes(n)
      BY <2>1, <2>3, <3>1 DEF EntryBytes, BodyBytes, MetaBytesOf, fileVars
    <3>3. faults' # 0 /\ scanned \in [bytes : Nat, entries : Nat]
      BY <2>3 DEF Faulty, PassOK
    <3>4. scanned'.bytes = scanned.bytes + BodyBytes(n)
      BY <2>3, <3>3
    <3> QED
      BY <1>3, <2>3, <3>2, <3>3, <3>4
  <2> QED
    BY <2>1, <2>2, <2>3 DEF CleanOrphanBody
<1>4. CASE d.kind = "malformed"
  <2>1. CleanFiles(n, {"meta", "body", "poison"})
    BY <1>0, <1>4, ArmFacts
  <2> QED
    BY <1>1, <1>4, <2>1
<1>5. CASE d.kind \in {"corrupt", "missing"}
  <2>1. CleanOrRecover(n) /\ ~Recovered(n)
    BY <1>0, <1>5, ArmFacts DEF DeferredOK, Recovered
  <2>2. CASE body[n] = None /\ CleanFiles(n, {"meta", "poison"})
    BY <1>1, <1>5, <2>2
  <2>3. CASE CleanFiles(n, {"meta", "body", "poison"})
    BY <1>1, <1>5, <2>3
  <2> QED
    BY <2>1, <2>2, <2>3 DEF CleanOrRecover
<1> QED
  BY <1>0, <1>2, <1>3, <1>4, <1>5

LEMMA CleanQuiet ==
  ASSUME PassOK, PassOK', QuietOK, quiet, CleanStep
  PROVE  QuietOK'
<1>1. PICK d \in deferred : CleanArm(d) /\ deferred' = IF phase' = "failed" THEN {} ELSE deferred \ {d}
  BY CleanStepFacts
<1> DEFINE n == d.name
<1>2. Listed /\ SeenOK /\ DeferredOK /\ CandidatesOK /\ Accounted /\ phase = "clean"
  BY QuietParts, CleanStepFacts
<1>3. CASE Abort
  BY <1>3, EmptyQuiet DEF Abort
<1>4. CASE ~Abort
  <2>1. /\ FilesOK' /\ Shrinks(n) /\ faults' \in Nat /\ faults' >= faults /\ Counts
    BY <1>1, <1>4, ArmTypes
  <2>2. /\ candidates' = candidates
        /\ d.kind = "poison" => /\ body'[n] = body[n] /\ meta'[n] = meta[n]
                                /\ scanned'.bytes = scanned.bytes
        /\ d.kind # "poison" => /\ scanned'.bytes = scanned.bytes + EntryBytes(n)'
                                /\ faults' = 0 => EntryBytes(n)' = 0
    BY <1>1, <1>2, <1>4, ArmCounts
  <2>3. /\ phase' = "clean" /\ todo = {} /\ seen = {} /\ todo' = {} /\ seen' = {}
        /\ deferred' = deferred \ {d}
    BY <1>1, <1>2, <2>1 DEF Counts, PassOK
  <2>4. /\ n \in Names /\ \A e \in deferred : e.name \in Names
        /\ d.kind \in {"body", "poison", "corrupt", "malformed", "missing"}
        /\ (d.kind = "malformed" => n \in Junk)
        /\ \A c \in candidates : c.name \in Hashes /\ c.name \in Names
        /\ faults \in Nat /\ scanned.bytes \in Nat /\ scanned'.bytes \in Nat
    BY DEF PassOK, TypeOK, Items, Names
  <2>5. Listed' /\ SeenOK'
    BY <2>3 DEF Listed, SeenOK
  <2>6. DeferredOK'
    BY <1>2, <2>1, <2>3, <2>4 DEF DeferredOK, Shrinks, Readable
  <2>7. \A m \in Names : m # n \/ d.kind = "poison" => /\ body'[m] = body[m] /\ meta'[m] = meta[m]
                                                       /\ EntryBytes(m)' = EntryBytes(m)
    BY <2>1, <2>2 DEF Shrinks, EntryBytes, BodyBytes, MetaBytesOf
  <2>8. CandidatesOK'
    <3>1. \A c \in candidates : c.name # n \/ d.kind = "poison"
      BY <1>2, <2>4, NameAssumption DEF CandidatesOK, DeferredOK, Readable
    <3> QED
      BY <1>2, <2>2, <2>4, <2>7, <3>1 DEF CandidatesOK
  <2>9. \A m \in Names : m # n \/ d.kind = "poison" => (Open(m)' <=> Open(m))
    BY <2>3 DEF Open
  <2>10. Owed \in [Names -> Nat] /\ Owed' \in [Names -> Nat] /\ \A m \in Names : EntryBytes(m)' \in Nat
    BY EntryFacts, EntryFactsNext
  <2>11. \A m \in Names \ {n} : Owed'[m] = Owed[m]
    BY <2>7, <2>9 DEF Owed
  <2>12. Covers(scanned.bytes, SumOf(Owed))
    BY <1>2 DEF Accounted
  <2>13. /\ scanned'.bytes + Owed[n] >= scanned.bytes + Owed'[n]
         /\ faults' = 0 => scanned'.bytes + Owed[n] = scanned.bytes + Owed'[n]
    <3>1. CASE d.kind = "poison"
      <4>1. Owed'[n] = Owed[n] /\ Owed[n] \in Nat
        BY <2>4, <2>7, <2>9, <2>10, <3>1 DEF Owed
      <4> QED
        BY <2>2, <2>4, <3>1, <4>1
    <3>2. CASE d.kind # "poison"
      <4>1. Owed[n] = 0
        BY <2>4, <3>2 DEF Owed, Open
      <4>2. Owed'[n] \in {0, EntryBytes(n)'} /\ EntryBytes(n)' \in Nat
        BY <2>4, <2>10 DEF Owed
      <4> QED
        BY <2>2, <2>4, <3>2, <4>1, <4>2
    <3> QED
      BY <3>1, <3>2
  <2>14. /\ scanned.bytes >= SumOf(Owed) => scanned'.bytes >= SumOf(Owed')
         /\ faults' = 0 /\ scanned.bytes = SumOf(Owed) => scanned'.bytes = SumOf(Owed')
    BY <2>4, <2>10, <2>11, <2>13, CoverMoves
  <2>15. faults' = 0 => faults = 0
    BY <2>1, <2>4
  <2>16. Covers(scanned.bytes, SumOf(Owed))'
    BY <2>12, <2>14, <2>15 DEF Covers
  <2>17. Accounted'
    BY <2>3, <2>16 DEF Accounted
  <2> QED
    BY <2>5, <2>6, <2>8, <2>17, QuietParts
<1> QED
  BY <1>3, <1>4

LEMMA ReconcileQuiet ==
  ASSUME PassOK, QuietOK, quiet, Reconcile
  PROVE  QuietOK'
<1>1. Listed /\ SeenOK /\ DeferredOK /\ CandidatesOK /\ Accounted
  BY QuietParts
<1>2. /\ phase = "clean" /\ deferred = {} /\ todo = {} /\ seen = {}
      /\ UNCHANGED <<body, meta, todo, seen, deferred, candidates, faults>>
      /\ phase' = "evict" /\ stats' = scanned /\ current' = scanned.bytes
  BY DEF Reconcile, PassOK, fileVars
<1>3. Listed' /\ SeenOK' /\ DeferredOK'
  BY <1>2 DEF Listed, SeenOK, DeferredOK
<1>4. CandidatesOK'
  BY <1>1, <1>2, SameBytes DEF CandidatesOK
<1>5. Owed = [n \in Names |-> EntryBytes(n)]
  BY <1>2 DEF Owed, Open
<1>6. Covers(scanned.bytes, DiskBytes)
  BY <1>1, <1>2, <1>5 DEF Accounted, DiskBytes
<1>7. DiskBytes' = DiskBytes
  <2>1. [n \in Names |-> EntryBytes(n)'] = [n \in Names |-> EntryBytes(n)]
    BY <1>2, SameBytes
  <2> QED
    BY <2>1 DEF DiskBytes
<1>8. Accounted'
  BY <1>2, <1>6, <1>7 DEF Accounted, Covers
<1> QED
  BY <1>3, <1>4, <1>8, QuietParts

LEMMA EvictQuiet ==
  ASSUME PassOK, PassOK', QuietOK, quiet, EvictStep
  PROVE  QuietOK'
<1>1. PICK c \in candidates : /\ SkipChanged(c) \/ SkipUnreadable(c) \/ EvictUnchanged(c)
                              /\ candidates' = candidates \ {c}
  BY DEF EvictStep, Oldest
<1>2. Listed /\ SeenOK /\ DeferredOK /\ CandidatesOK /\ Accounted
  BY QuietParts
<1>3. /\ phase = "evict" /\ todo = {} /\ seen = {} /\ deferred = {}
      /\ UNCHANGED <<phase, todo, seen, deferred>>
  BY DEF EvictStep, PassOK
<1>4. Listed' /\ SeenOK' /\ DeferredOK'
  BY <1>3 DEF Listed, SeenOK, DeferredOK
<1>5. ~Changed(c)
  BY <1>2 DEF CandidatesOK, Changed
<1>6. /\ candidates \subseteq Items /\ c.name \in Names /\ c.size \in Nat
      /\ current \in Nat /\ current' \in Nat /\ faults \in Nat
      /\ stats.bytes \in Nat /\ stats'.bytes \in Nat
  BY DEF PassOK, TypeOK
<1>7. \A e \in candidates : e.name = c.name => e = c
  BY <1>2, <1>6 DEF CandidatesOK, Items
<1>8. Covers(current, DiskBytes) /\ stats.bytes >= DiskBytes
  BY <1>2, <1>3 DEF Accounted
<1>9. CASE SkipUnreadable(c)
  <2>1. UNCHANGED <<body, meta, current, stats>> /\ faults' # 0
    BY <1>6, <1>9 DEF SkipUnreadable, Faulty, fileVars
  <2>2. CandidatesOK'
    BY <1>1, <1>2, <2>1, SameBytes DEF CandidatesOK
  <2>3. DiskBytes' = DiskBytes
    <3>1. [n \in Names |-> EntryBytes(n)'] = [n \in Names |-> EntryBytes(n)]
      BY <2>1, SameBytes
    <3> QED
      BY <3>1 DEF DiskBytes
  <2>4. Accounted'
    BY <1>3, <1>8, <2>1, <2>3 DEF Accounted, Covers
  <2> QED
    BY <1>4, <2>2, <2>4, QuietParts
<1>10. CASE EvictUnchanged(c)
  <2> DEFINE v == [n \in Names |-> EntryBytes(n)]
             w == [n \in Names |-> EntryBytes(n)']
  <2>1. /\ Shrinks(c.name) /\ faults' \in Nat /\ faults' >= faults
        /\ EntryBytes(c.name)' \in Nat /\ EntryBytes(c.name)' <= EntryBytes(c.name)
        /\ \/ /\ EntryBytes(c.name)' = 0 /\ current' = Sub(current, c.size)
              /\ stats'.bytes = Sub(stats.bytes, c.size)
           \/ /\ faults' > 0 /\ stats' = stats
              /\ \/ current' = Sub(current, c.size) + EntryBytes(c.name)'
                 \/ current' = current
    BY <1>10, EvictFacts
  <2>2. \A m \in Names \ {c.name} : /\ body'[m] = body[m] /\ meta'[m] = meta[m]
                                    /\ EntryBytes(m)' = EntryBytes(m)
    BY <2>1 DEF Shrinks, EntryBytes, BodyBytes, MetaBytesOf
  <2>3. CandidatesOK'
    <3>1. \A e \in candidates' : e.name \in Names \ {c.name} /\ e \in candidates
      BY <1>1, <1>6, <1>7 DEF Items, Names
    <3> QED
      BY <1>2, <2>2, <3>1 DEF CandidatesOK
  <2>4. v \in [Names -> Nat] /\ w \in [Names -> Nat]
    BY EntryFacts, EntryFactsNext
  <2>5. /\ v[c.name] = c.size /\ w[c.name] = EntryBytes(c.name)'
        /\ EntryBytes(c.name) = c.size
        /\ \A m \in Names \ {c.name} : w[m] = v[m]
        /\ DiskBytes = SumOf(v) /\ DiskBytes' = SumOf(w)
    BY <1>2, <1>6, <2>2 DEF CandidatesOK, DiskBytes
  <2> HIDE DEF v, w
  <2>6. v[c.name] <= SumOf(v) /\ SumOf(v) \in Nat
    BY <1>6, <2>4, Finite, SumCovers
  <2>7. Sub(current, c.size) + c.size = current /\ Sub(current, c.size) \in Nat
    <3>1. current >= c.size
      BY <1>6, <1>8, <2>5, <2>6 DEF Covers
    <3> QED
      BY <1>6, <3>1, SubFacts
  <2>8. Sub(stats.bytes, c.size) + c.size = stats.bytes /\ Sub(stats.bytes, c.size) \in Nat
    <3>1. stats.bytes >= c.size
      BY <1>6, <1>8, <2>5, <2>6
    <3> QED
      BY <1>6, <3>1, SubFacts
  <2>9. /\ current' + v[c.name] >= current + w[c.name]
        /\ faults' = 0 => current' + v[c.name] = current + w[c.name]
    BY <1>6, <2>1, <2>5, <2>7
  <2>10. stats'.bytes + v[c.name] >= stats.bytes + w[c.name]
    BY <1>6, <2>1, <2>5, <2>8
  <2>11. /\ current >= SumOf(v) => current' >= SumOf(w)
         /\ faults' = 0 /\ current = SumOf(v) => current' = SumOf(w)
    BY <1>6, <2>4, <2>5, <2>9, CoverMoves
  <2>12. stats.bytes >= SumOf(v) => stats'.bytes >= SumOf(w)
    BY <1>6, <2>4, <2>5, <2>10, CoverMoves
  <2>13. faults' = 0 => faults = 0
    BY <1>6, <2>1
  <2>14. Covers(current, DiskBytes)' /\ stats'.bytes >= DiskBytes'
    BY <1>8, <2>5, <2>11, <2>12, <2>13 DEF Covers
  <2>15. Accounted'
    BY <1>3, <2>14 DEF Accounted
  <2> QED
    BY <1>4, <2>3, <2>15, QuietParts
<1> QED
  BY <1>1, <1>5, <1>9, <1>10 DEF SkipChanged

LEMMA EvictDoneQuiet ==
  ASSUME PassOK, QuietOK, quiet, EvictDone
  PROVE  QuietOK'
<1>1. Listed /\ SeenOK /\ DeferredOK /\ CandidatesOK /\ Accounted
  BY QuietParts
<1>2. /\ UNCHANGED <<body, meta, todo, seen, deferred, candidates, current, stats, faults>>
      /\ phase = "evict" /\ phase' = "done"
  BY DEF EvictDone, fileVars
<1>3. Listed' /\ SeenOK' /\ DeferredOK'
  BY <1>1, <1>2 DEF Listed, SeenOK, DeferredOK
<1>4. CandidatesOK'
  BY <1>1, <1>2, SameBytes DEF CandidatesOK
<1>5. DiskBytes' = DiskBytes
  <2>1. [n \in Names |-> EntryBytes(n)'] = [n \in Names |-> EntryBytes(n)]
    BY <1>2, SameBytes
  <2> QED
    BY <2>1 DEF DiskBytes
<1>6. Accounted'
  BY <1>1, <1>2, <1>5 DEF Accounted, Covers
<1> QED
  BY <1>3, <1>4, <1>6, QuietParts

LEMMA TickQuiet ==
  ASSUME PassOK, Tick
  PROVE  QuietOK'
<1>1. todo = {} /\ seen = {} /\ deferred = {}
  BY PassParts DEF StageOK, Tick
<1> QED
  BY <1>1, EmptyQuiet DEF Tick

LEMMA QuietSteps == PassOK /\ PassOK' /\ QuietOK /\ [Next]_vars => QuietOK'
<1> SUFFICES ASSUME PassOK, PassOK', QuietOK, [Next]_vars PROVE QuietOK'
  OBVIOUS
<1>1. CASE UNCHANGED vars
  <2>1. UNCHANGED <<body, meta, todo, seen, deferred, candidates, scanned, current, stats, phase, quiet, faults>>
    BY <1>1 DEF vars, fileVars, passVars
  <2>2. Owed' = Owed /\ DiskBytes' = DiskBytes
    <3>1. [n \in Names |-> EntryBytes(n)'] = [n \in Names |-> EntryBytes(n)]
      BY <2>1, SameBytes
    <3>2. \A m \in Names : (Open(m)' <=> Open(m)) /\ EntryBytes(m)' = EntryBytes(m)
      BY <2>1, SameBytes DEF Open
    <3> QED
      BY <3>1, <3>2 DEF DiskBytes, Owed
  <2>3. Accounted' <=> Accounted
    BY <2>1, <2>2 DEF Accounted, Covers
  <2>4. CandidatesOK' <=> CandidatesOK
    BY <2>1, SameBytes DEF CandidatesOK
  <2> QED
    BY <2>1, <2>3, <2>4 DEF QuietOK, SeenOK, DeferredOK
<1>2. CASE CacheStep
  BY <1>2 DEF CacheStep, QuietOK
<1>3. CASE StartPass
  BY <1>3, StartQuiet
<1>4. CASE Tick
  BY <1>4, TickQuiet
<1>5. CASE ScanStep \/ ScanDone \/ CleanStep \/ Reconcile \/ EvictStep \/ EvictDone
  <2>1. quiet' = quiet
    BY <1>5 DEF ScanStep, ScanDone, CleanStep, Reconcile, EvictStep, EvictDone
  <2>2. CASE ~quiet
    BY <2>1, <2>2 DEF QuietOK
  <2>3. CASE quiet
    BY <1>5, <2>3, ScanQuiet, ScanDoneQuiet, CleanQuiet, ReconcileQuiet, EvictQuiet, EvictDoneQuiet
  <2> QED
    BY <2>2, <2>3
<1> QED
  BY <1>1, <1>2, <1>3, <1>4, <1>5 DEF Next, PassStep
-----------------------------------------------------------------------------
(* The results.                                                              *)

(* EvictInv is an invariant: whatever fails, the pass keeps its books.       *)
THEOREM PassesAccount == Spec => []EvictInv
<1>1. Init => EvictInv
  <2>1. Init => QuietOK
    BY DEF Init, QuietOK, SeenOK, DeferredOK, CandidatesOK, Accounted
  <2> QED
    BY <2>1, InitOK DEF EvictInv
<1>2. EvictInv /\ [Next]_vars => EvictInv'
  BY PassSteps, QuietSteps DEF EvictInv
<1> QED
  BY <1>1, <1>2, PTL DEF Spec

(* If no cache operation overlapped a pass of the evictor, its budget and    *)
(* the statistics it stores cover every byte that is left on disk, for any   *)
(* number of entries and of failing file operations.                         *)
THEOREM BudgetAlwaysCovers == Spec => []BudgetCovers
<1>1. EvictInv => BudgetCovers
  BY DEF EvictInv, PassOK, QuietOK, Accounted, Covers, BudgetCovers
<1> QED
  BY <1>1, PassesAccount, PTL

LEMMA CacheStepSeen ==
  ASSUME PassOK, CacheStep
  PROVE  ~UNCHANGED cacheVars
<1>1. PICK n \in Hashes : CommitBackup(n) \/ CommitPublish(n) \/ Purge(n) \/ Touch(n)
  BY DEF CacheStep
<1>2. busy \in [Hashes -> {"free", "body", "meta", "purge"}] /\ fills \in Nat /\ ops \in Nat
  BY BoundAssumption DEF PassOK
<1>3. busy'[n] # busy[n] \/ fills' # fills \/ ops' # ops
  BY <1>1, <1>2 DEF CommitBackup, CommitPublish, Purge, Touch
<1> QED
  BY <1>3 DEF cacheVars

(* No clean-up touches a complete entry.                                     *)
LEMMA CleanSpares ==
  ASSUME PassOK, NEW d \in deferred, CleanArm(d), d.name \in Hashes, Complete(d.name)
  PROVE  body' = body /\ meta' = meta
<1>0. /\ d.kind \in {"body", "poison", "corrupt", "malformed", "missing"}
      /\ d.kind # "malformed"
  BY NameAssumption DEF PassOK, TypeOK
<1>1. meta[d.name] # None /\ body[d.name] # None /\ meta[d.name] # Corrupt
  BY DEF Complete, Readable
<1>2. CASE d.kind = "body"
  <2>1. CleanOrphanBody(d.name)
    BY <1>0, <1>2, ArmFacts
  <2> QED
    BY <1>1, <2>1 DEF CleanOrphanBody, Skip, fileVars
<1>3. CASE d.kind = "poison"
  <2>1. CleanOrphanPoison(d.name)
    BY <1>0, <1>3, ArmFacts
  <2> QED
    BY <1>1, <2>1 DEF CleanOrphanPoison, Skip, fileVars
<1>4. CASE d.kind \in {"corrupt", "missing"}
  <2>1. CleanOrRecover(d.name)
    BY <1>0, <1>4, ArmFacts
  <2> QED
    BY <1>1, <2>1 DEF CleanOrRecover, fileVars
<1> QED
  BY <1>0, <1>2, <1>3, <1>4

(* The evictor removes a file of a complete entry only if it is still the    *)
(* entry the scan saw: whatever a fill publishes, a purge removes or a read  *)
(* refreshes between the scan, the clean-up and the eviction.                *)
THEOREM LiveEntriesSpared == Spec => SparesLiveEntries
<1> DEFINE Spared(n) ==
             Complete(n) /\ (body'[n] = None \/ meta'[n] = None) =>
               \E c \in candidates : c.name = n /\ c.fill = meta[n].fill /\ c.at = meta[n].at
<1>1. ASSUME PassOK, [Next]_vars, UNCHANGED cacheVars, NEW n \in Hashes
      PROVE  Spared(n)
  <2>0. n \in Names
    BY DEF Names
  <2>1. CASE body'[n] = body[n] /\ meta'[n] = meta[n]
    BY <2>1 DEF Complete, Readable
  <2>2. CASE CleanStep
    <3>1. PICK d \in deferred : CleanArm(d)
      BY <1>1, <2>2, CleanStepFacts
    <3>2. CASE n # d.name
      <4>1. Shrinks(d.name)
        BY <1>1, <3>1, ArmTypes
      <4> QED
        BY <2>0, <2>1, <3>2, <4>1 DEF Shrinks
    <3>3. CASE n = d.name /\ Complete(n)
      BY <1>1, <2>1, <3>1, <3>3, CleanSpares
    <3> QED
      BY <3>2, <3>3
  <2>3. CASE EvictStep
    <3>1. PICK c \in candidates : SkipChanged(c) \/ SkipUnreadable(c) \/ EvictUnchanged(c)
      BY <2>3 DEF EvictStep, Oldest
    <3>2. CASE SkipChanged(c) \/ SkipUnreadable(c)
      BY <2>1, <3>2 DEF SkipChanged, SkipUnreadable, fileVars
    <3>3. CASE EvictUnchanged(c) /\ c.name # n
      <4>1. Shrinks(c.name)
        BY <1>1, <3>3, EvictFacts
      <4> QED
        BY <2>0, <2>1, <3>3, <4>1 DEF Shrinks
    <3>4. CASE EvictUnchanged(c) /\ c.name = n /\ Complete(n)
      <4>1. c.fill = meta[n].fill /\ c.at = meta[n].at
        BY <3>4 DEF EvictUnchanged, Changed, Complete
      <4> QED
        BY <3>4, <4>1
    <3> QED
      BY <3>1, <3>2, <3>3, <3>4
  <2>4. CASE StartPass \/ ScanStep \/ ScanDone \/ Reconcile \/ EvictDone \/ Tick \/ UNCHANGED vars
    <3>1. UNCHANGED fileVars
      BY <2>4 DEF StartPass, ScanStep, ScanDone, Reconcile, EvictDone, Tick, vars
    <3> QED
      BY <2>1, <3>1 DEF fileVars
  <2> QED
    BY <1>1, <2>2, <2>3, <2>4, CacheStepSeen DEF Next, PassStep
<1>2. PassOK /\ [Next]_vars => [UNCHANGED cacheVars => \A n \in Hashes : Spared(n)]_vars
  BY <1>1
<1>3. EvictInv => PassOK
  BY DEF EvictInv
<1> QED
  BY <1>2, <1>3, PassesAccount, PTL DEF Spec, SparesLiveEntries

(* Without failures and overlapping operations an entry is evicted only      *)
(* while the disk holds more than max_bytes.                                 *)
THEOREM NoMoreEvicted == Spec => EvictsNoMore
<1>1. EvictInv /\ [Next]_vars => EvictionNeeded
  <2> SUFFICES ASSUME EvictInv, [Next]_vars, phase = "evict", candidates' # candidates,
                      quiet, faults' = 0
               PROVE  DiskBytes > MaxBytes
    BY DEF EvictionNeeded
  <2>1. EvictStep
    BY DEF Next, PassStep, vars, passVars, CacheStep, StartPass, ScanStep, ScanDone, CleanStep,
           Reconcile, EvictDone, Tick
  <2>2. PICK c \in candidates : SkipChanged(c) \/ SkipUnreadable(c) \/ EvictUnchanged(c)
    BY <2>1 DEF EvictStep, Oldest
  <2>3. PassOK /\ CandidatesOK /\ Covers(current, DiskBytes) /\ faults \in Nat
    BY DEF EvictInv, QuietOK, Accounted, PassOK
  <2>4. ~Changed(c)
    BY <2>3 DEF CandidatesOK, Changed
  <2>5. faults = 0
    <3>1. CASE SkipUnreadable(c)
      BY <2>3, <3>1 DEF SkipUnreadable, Faulty
    <3>2. CASE EvictUnchanged(c)
      BY <2>3, <3>2, EvictFacts
    <3> QED
      BY <2>2, <2>4, <3>1, <3>2 DEF SkipChanged
  <2> QED
    BY <2>1, <2>3, <2>5 DEF EvictStep, OverBudget, Covers
<1> QED
  BY <1>1, PassesAccount, PTL DEF Spec, EvictsNoMore
=============================================================================
