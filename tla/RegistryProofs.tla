---------------------------- MODULE RegistryProofs ----------------------------
(****************************************************************************)
(* Proofs about Registry, for every set of configurations and of databases. *)
(****************************************************************************)
EXTENDS Registry, Numbers

-----------------------------------------------------------------------------
(* What one target resolves to. *)

Keys == {"", "own", "foreign", "garbage"}

LEMMA KeyOfType == \A e : KeyOf(e) \in Keys
  BY DEF KeyOf, Keys

LEMMA ParseKeyType == \A f : ParseKey(f) \in Keys
  BY KeyOfType DEF ParseKey, Keys

LEMMA FoundKeyType == \A id : FoundKey(id) \in Keys
<1>1. \A fs : BazarrKey(fs) \in Keys
  BY ParseKeyType DEF BazarrKey, Keys
<1> QED BY <1>1 DEF FoundKey, Keys

Kinds == {"config_sync", "arr_api", "mongo_dump", "postgres_dump"}

(* A target of some kind, or else an error. *)
Results == {r \in [err : Errors, kind : Kinds \cup {"none"}, key : Keys] :
              (r.err = "none") <=> (r.kind # "none")}

LEMMA FailedType == \A err \in Errors : err # "none" => Failed(err) \in Results
  BY DEF Failed, Results, Keys

LEMMA ResolvedType == \A kind \in Kinds, key \in Keys : Resolved(kind, key) \in Results
  BY DEF Resolved, Results, Kinds, Errors

LEMMA ResolveType == \A id : Resolve(id) \in Results
<1> USE FailedType, ResolvedType DEF Errors, Kinds, Keys
<1>1. ResolveKomodo \in Results
  BY DEF ResolveKomodo
<1>2. ResolvePostgres \in Results
  BY DEF ResolvePostgres
<1>3. ASSUME NEW id PROVE ResolveAPI(id) \in Results
  BY FoundKeyType DEF ResolveAPI
<1>4. ASSUME NEW id PROVE ResolvePath(id) \in Results
  BY DEF ResolvePath
<1> QED BY <1>1, <1>2, <1>3, <1>4 DEF Resolve

(* The settings stay, and so does what a target resolves to. *)
LEMMA ResolveStays ==
  ASSUME UNCHANGED config
  PROVE  \A id : Resolve(id)' = Resolve(id)
<1>1. \A id : FoundKey(id)' = FoundKey(id)
  BY DEF FoundKey
<1>2. \A id : ResolveAPI(id)' = ResolveAPI(id)
  BY <1>1 DEF ResolveAPI
<1> QED BY <1>2 DEF Resolve, ResolveKomodo, ResolvePostgres, HasURI, ResolvePath

-----------------------------------------------------------------------------
(* The inductive invariant. *)

Parts == config.parts

RestType == rest \in Seq(Apps \cup {"", "unknown"})

Typed == TypeOK /\ config \in Configurations

(* Before the end, nothing has gone wrong; before the targets, there are    *)
(* none; and none is connected to before all are resolved.                  *)
Phases ==
  /\ pc # "err" => error = "none"
  /\ pc \in {"validate", "parse", "err"} => targets = <<>>
  /\ pc # "connect" => reached = <<>>
  /\ pc = "validate" => ids = <<>>
  /\ pc \in {"parse", "resolve", "connect"} => ~Empty(config.prefix)

(* If a is a name, it is one of the k ids x. *)
Has(x, k, a) == a # "" => \E j \in 1..k : x[j] = a

(* Of the n parts p, the m in r are left; the k ids x are the names among   *)
(* the others.                                                              *)
Looked(p, n, r, m, x, k) ==
  /\ m <= n
  /\ \A i \in 1..m : r[i] = p[n - m + i]
  /\ \A i \in 1..n - m : /\ p[i] # "unknown"
                         /\ Has(x, k, p[i])
  /\ \A j \in 1..k : \E i \in 1..n - m : p[i] = x[j]

Parsing ==
  pc = "parse" => Looked(Parts, Len(Parts), rest, Len(rest), ids, Len(ids))

InOrder == \A i, j \in 1..Len(ids) : i < j => First(ids[i]) < First(ids[j])

Listed ==
  pc \in {"resolve", "connect"} =>
    /\ ids # <<>>
    /\ {ids[i] : i \in 1..Len(ids)} = Named
    /\ "unknown" \notin ToSet(Parts)

(* A target is what its id resolves to. *)
Resolving ==
  /\ pc = "resolve" => /\ Len(targets) + Len(rest) = Len(ids)
                       /\ \A i \in 1..Len(rest) : rest[i] = ids[Len(targets) + i]
  /\ pc = "connect" => Len(targets) = Len(ids)
  /\ \A i \in 1..Len(targets) :
       /\ i \in 1..Len(ids) /\ targets[i].id = ids[i]
       /\ Resolve(ids[i]).err = "none"
       /\ targets[i].kind = Resolve(ids[i]).kind
       /\ targets[i].key = Resolve(ids[i]).key

Connecting ==
  /\ Len(reached) <= Len(targets)
  /\ \A i \in 1..Len(reached) : reached[i] = Connect(targets[i])

(* The bad target that stands first in the list. *)
FirstBad(a) == /\ a \in Named
               /\ Resolve(a).err # "none"
               /\ \A b \in Named : Resolve(b).err # "none" => First(a) <= First(b)

(* Why there are no targets. *)
Verdict ==
  pc = "err" =>
    \/ Empty(config.prefix) /\ error = "ErrMissingRemotePrefix"
    \/ /\ ~Empty(config.prefix)
       /\ \/ "unknown" \in ToSet(Parts) /\ error = "ErrUnknownTarget"
          \/ /\ "unknown" \notin ToSet(Parts)
             /\ \/ Named = {} /\ error = "ErrNoEnabledTargets"
                \/ \E a : FirstBad(a) /\ error = Resolve(a).err

Inv == /\ Typed /\ Phases /\ Parsing /\ InOrder /\ Listed /\ Resolving /\ Connecting
       /\ Verdict

-----------------------------------------------------------------------------
(* Sequences. *)

LEMMA EmptySeq == \A S : <<>> \in Seq(S) /\ Len(<<>>) = 0
  OBVIOUS

LEMMA NoIndex == ASSUME NEW n, n = 0 PROVE \A i \in 1..n : FALSE
  OBVIOUS

LEMMA TailSeq ==
  ASSUME NEW S, NEW s \in Seq(S), s # <<>>
  PROVE  /\ Len(s) \in Nat /\ Len(s) > 0 /\ Head(s) = s[1] /\ Head(s) \in S
         /\ Tail(s) \in Seq(S) /\ Len(Tail(s)) = Len(s) - 1
         /\ \A i \in 1..Len(s) - 1 : Tail(s)[i] = s[i + 1]
  OBVIOUS

LEMMA AppendSeq ==
  ASSUME NEW S, NEW s \in Seq(S), NEW e \in S
  PROVE  /\ Append(s, e) \in Seq(S) /\ Len(s) \in Nat /\ Len(Append(s, e)) = Len(s) + 1
         /\ \A i \in 1..Len(s) : Append(s, e)[i] = s[i]
         /\ Append(s, e)[Len(s) + 1] = e
  OBVIOUS

-----------------------------------------------------------------------------
LEMMA PartsType ==
  ASSUME Typed
  PROVE  /\ Len(Parts) \in Nat
         /\ \A i \in 1..Len(Parts) : Parts[i] \in Apps \cup {"", "unknown"}
         /\ ToSet(Parts) = {Parts[i] : i \in 1..Len(Parts)}
<1> DEFINE S == Apps \cup {"", "unknown"}
<1>1. Parts \in Seq(S)
  BY DEF Typed, TypeOK, Parts
<1> HIDE DEF S
<1> DEFINE p == Parts
<1>2. p \in Seq(S)
  BY <1>1
<1> HIDE DEF p
<1>3. Len(p) \in Nat /\ DOMAIN p = 1..Len(p) /\ \A i \in 1..Len(p) : p[i] \in S
  BY <1>2
<1>4. ToSet(p) = {p[i] : i \in 1..Len(p)}
  BY <1>3 DEF ToSet
<1> QED BY <1>3, <1>4 DEF p, S

(* Where a name first stands in the list. *)

LEMMA FirstIs ==
  ASSUME Typed, NEW i \in 1..Len(Parts)
  PROVE  /\ First(Parts[i]) \in 1..Len(Parts) /\ First(Parts[i]) <= i
         /\ Parts[First(Parts[i])] = Parts[i]
         /\ \A k \in 1..Len(Parts) : Parts[k] = Parts[i] => First(Parts[i]) <= k
<1> DEFINE S == {k \in 1..Len(Parts) : Parts[k] = Parts[i]}
<1>1. Len(Parts) \in Nat
  BY PartsType
<1>2. S \in SUBSET Nat /\ i \in S
  BY <1>1
<1>3. First(Parts[i]) \in S /\ \A k \in S : First(Parts[i]) <= k
  BY <1>2, LeastExists DEF First, Min, Parts
<1> QED BY <1>1, <1>2, <1>3

LEMMA NamedIs ==
  ASSUME Typed
  PROVE  /\ \A a : a \in ToSet(Parts) <=> \E i \in 1..Len(Parts) : Parts[i] = a
         /\ \A a : a \in Named <=> a \in Apps /\ \E i \in 1..Len(Parts) : Parts[i] = a
<1>2. \A a : a \in ToSet(Parts) <=> \E i \in 1..Len(Parts) : Parts[i] = a
  BY PartsType
<1>3. "" \notin Apps /\ "unknown" \notin Apps
  BY DEF Apps, ApiApps
<1>4. \A i \in 1..Len(Parts) : Parts[i] \in Apps \cup {"", "unknown"}
  BY PartsType
<1> QED BY <1>2, <1>3, <1>4 DEF Named, Parts

(* Two names stand first at two places. *)
LEMMA FirstInjective ==
  ASSUME Typed, NEW a \in Named, NEW b \in Named, First(a) = First(b)
  PROVE  a = b
  BY NamedIs, FirstIs

LEMMA FirstType ==
  ASSUME Typed, NEW a \in Named
  PROVE  First(a) \in 1..Len(Parts) /\ First(a) \in Nat
<1>1. Len(Parts) \in Nat
  BY PartsType
<1> QED BY <1>1, NamedIs, FirstIs

(* The list, and what its names resolve to, are the same all along. *)
LEMMA ListStays ==
  ASSUME UNCHANGED config
  PROVE  /\ Parts' = Parts /\ Named' = Named
         /\ \A a : First(a)' = First(a)
         /\ \A a : FirstBad(a)' = FirstBad(a)
         /\ Empty(config.prefix)' = Empty(config.prefix)
<1>1. Parts' = Parts /\ Named' = Named /\ \A a : First(a)' = First(a)
  BY DEF Parts, Named, First
<1>2. \A a : FirstBad(a)' = FirstBad(a)
  BY <1>1, ResolveStays DEF FirstBad
<1> QED BY <1>1, <1>2

LEMMA InvInit == Init => Inv
<1> SUFFICES ASSUME Init PROVE Inv
  OBVIOUS
<1>1. config.parts \in Seq(Apps \cup {"", "unknown"})
  BY ConfigurationsAssumption DEF Init
<1>2. /\ rest \in Seq(Apps \cup {"", "unknown"}) /\ ids \in Seq(Apps)
      /\ targets \in Seq(Targets) /\ reached \in Seq(ConnectErrors)
      /\ Len(rest) = 0 /\ Len(ids) = 0 /\ Len(targets) = 0 /\ Len(reached) = 0
  BY DEF Init
<1>3. Typed
  BY <1>1, <1>2 DEF Init, Typed, TypeOK, Errors
<1>4. Phases
  BY DEF Init, Phases
<1>5. Parsing /\ Listed /\ Verdict
  BY DEF Init, Parsing, Listed, Verdict
<1>6. InOrder /\ Resolving /\ Connecting
  BY <1>2 DEF Init, InOrder, Resolving, Connecting
<1> QED BY <1>3, <1>4, <1>5, <1>6 DEF Inv

(* An error, whichever, leaves nothing to be said but what it is. *)
LEMMA FailStep ==
  ASSUME Inv, pc \in {"validate", "parse", "resolve"}, NEW err \in Errors, Fail(err),
         UNCHANGED <<config, ids, reached>>, RestType', Verdict'
  PROVE  Inv'
<1>1. pc' = "err" /\ error' = err /\ targets' = <<>> /\ reached' = <<>>
  BY DEF Fail, Inv, Phases
<1>2. targets' \in Seq(Targets)
  BY <1>1, EmptySeq
<1>3. Len(targets') = 0 /\ Len(reached') = 0
  BY <1>1, EmptySeq
<1>4. Typed'
  BY <1>1, <1>2 DEF Inv, Typed, TypeOK, RestType
<1>5. Phases' /\ Parsing' /\ Listed'
  BY <1>1 DEF Phases, Parsing, Listed
<1>6. InOrder'
  BY ListStays DEF Inv, InOrder
<1>7. Resolving'
  <2>1. \A i \in 1..Len(targets') : FALSE
    BY <1>3, NoIndex
  <2> QED BY <1>1, <2>1 DEF Resolving
<1>8. Connecting'
  <2>1. \A i \in 1..Len(reached') : FALSE
    BY <1>3, NoIndex
  <2>2. Len(reached') <= Len(targets')
    BY <1>3
  <2> QED BY <2>1, <2>2 DEF Connecting
<1> QED BY <1>4, <1>5, <1>6, <1>7, <1>8 DEF Inv

LEMMA ValidateStep == Inv /\ Validate => Inv'
<1> SUFFICES ASSUME Inv, Validate PROVE Inv'
  OBVIOUS
<1>0. pc = "validate" /\ UNCHANGED <<config, ids, reached>>
  BY DEF Validate
<1>1. CASE Empty(config.prefix)
  <2>1. Fail("ErrMissingRemotePrefix") /\ UNCHANGED rest
    BY <1>1 DEF Validate
  <2>2. Verdict'
    BY <1>0, <1>1, <2>1, ListStays DEF Verdict, Fail
  <2>3. RestType'
    BY <2>1 DEF Inv, Typed, TypeOK, RestType
  <2>4. "ErrMissingRemotePrefix" \in Errors
    BY DEF Errors
  <2> QED BY <1>0, <2>1, <2>2, <2>3, <2>4, FailStep
<1>2. CASE ~Empty(config.prefix)
  <2>1. pc' = "parse" /\ rest' = Parts /\ UNCHANGED <<targets, error>>
    BY <1>2 DEF Validate, Parts
  <2>2. ids = <<>> /\ targets = <<>> /\ reached = <<>> /\ error = "none"
    BY <1>0 DEF Inv, Phases
  <2>3. Len(ids) = 0 /\ Len(targets) = 0 /\ Len(reached) = 0
    BY <2>2
  <2>4. Typed'
    BY <1>0, <2>1 DEF Inv, Typed, TypeOK, Parts
  <2>5. Phases' /\ Listed' /\ Verdict'
    BY <1>0, <1>2, <2>1, <2>2, ListStays DEF Phases, Listed, Verdict
  <2>6. Parsing'
    <3>1. Len(Parts) \in Nat /\ Parts' = Parts /\ rest' = Parts
      BY <1>0, <2>1, ListStays, PartsType DEF Inv
    <3>2. Len(Parts') = Len(Parts) /\ Len(rest') = Len(Parts)
      BY <3>1
    <3>3. /\ Len(rest') <= Len(Parts')
          /\ \A i \in 1..Len(rest') : rest'[i] = Parts'[Len(Parts') - Len(rest') + i]
          /\ \A i \in 1..Len(Parts') - Len(rest') : FALSE
      BY <3>1, <3>2
    <3>4. \A j \in 1..Len(ids') : FALSE
      BY <1>0, <2>3
    <3> QED BY <3>3, <3>4 DEF Parsing, Looked
  <2>7. InOrder'
    BY <1>0, <2>3 DEF InOrder
  <2>8. Resolving' /\ Connecting'
    <3>1. Len(targets') = 0 /\ Len(reached') = 0
      BY <1>0, <2>1, <2>3
    <3>2. /\ Len(reached') <= Len(targets') /\ \A i \in 1..Len(reached') : FALSE
          /\ \A i \in 1..Len(targets') : FALSE
      BY <3>1
    <3> QED BY <2>1, <3>2 DEF Resolving, Connecting
  <2> QED BY <2>4, <2>5, <2>6, <2>7, <2>8 DEF Inv
<1> QED BY <1>1, <1>2

(* r1 is the tail of r, which has m elements. *)
Tailed(r, m, r1) == \A i \in 1..m - 1 : r1[i] = r[i + 1]

(* To the k ids x, h has been added unless it is there, or no name. *)
Grown(x, k, x1, k1, h) == /\ k <= k1
                          /\ \A j \in 1..k : x1[j] = x[j]
                          /\ \A j \in 1..k1 : j > k => x1[j] = h
                          /\ Has(x1, k1, h)

(* The part that is looked at next joins those that have been. *)
LEMMA LookedMore ==
  ASSUME NEW n \in Nat, NEW m \in Nat, NEW k \in Nat, NEW k1 \in Nat, NEW h,
         NEW p, NEW r, NEW x, NEW r1, NEW x1,
         Looked(p, n, r, m, x, k), m > 0, h = r[1], h # "unknown",
         Tailed(r, m, r1), Grown(x, k, x1, k1, h)
  PROVE  Looked(p, n, r1, m - 1, x1, k1) /\ n - m + 1 \in 1..n /\ p[n - m + 1] = h
<1> USE DEF Tailed, Grown
<1>1. /\ m <= n
      /\ \A i \in 1..m : r[i] = p[n - m + i]
      /\ \A i \in 1..n - m : /\ p[i] # "unknown"
                             /\ Has(x, k, p[i])
      /\ \A j \in 1..k : \E i \in 1..n - m : p[i] = x[j]
  BY DEF Looked
<1>2. 1 \in 1..m /\ n - (m - 1) = n - m + 1 /\ n - m \in Nat /\ n - m + 1 \in 1..n
  BY <1>1
<1>3. p[n - m + 1] = h
  BY <1>1, <1>2
<1>4. ASSUME NEW i \in 1..m - 1 PROVE r1[i] = p[n - (m - 1) + i]
  <2>1. i + 1 \in 1..m /\ n - m + (i + 1) = n - (m - 1) + i
    OBVIOUS
  <2>2. r1[i] = r[i + 1]
    OBVIOUS
  <2> QED BY <1>1, <2>1, <2>2
<1>5. ASSUME NEW i \in 1..n - (m - 1)
      PROVE  p[i] # "unknown" /\ Has(x1, k1, p[i])
  <2>1. CASE i = n - m + 1
    BY <1>3, <2>1
  <2>2. CASE i # n - m + 1
    <3>1. i \in 1..n - m
      BY <2>2
    <3>2. ASSUME Has(x, k, p[i]), p[i] # "" PROVE \E j \in 1..k1 : x1[j] = p[i]
      <4>1. PICK j \in 1..k : x[j] = p[i]
        BY <3>2 DEF Has
      <4>2. j \in 1..k1 /\ x1[j] = p[i]
        BY <4>1
      <4> QED BY <4>2
    <3>3. Has(x, k, p[i]) => Has(x1, k1, p[i])
      BY <3>2 DEF Has
    <3> QED BY <1>1, <3>1, <3>3
  <2> QED BY <2>1, <2>2
<1>6. ASSUME NEW j \in 1..k1 PROVE \E i \in 1..n - (m - 1) : p[i] = x1[j]
  <2>1. CASE j <= k
    <3>1. j \in 1..k
      BY <2>1
    <3>2. PICK i \in 1..n - m : p[i] = x[j]
      BY <1>1, <3>1
    <3>3. i \in 1..n - (m - 1)
      BY <1>2
    <3> QED BY <3>1, <3>2, <3>3
  <2>2. CASE j > k
    <3>1. x1[j] = h /\ n - m + 1 \in 1..n - (m - 1)
      BY <1>2, <2>2
    <3> QED BY <1>3, <3>1
  <2> QED BY <2>1, <2>2
<1> QED BY <1>1, <1>2, <1>3, <1>4, <1>5, <1>6 DEF Looked

(* The first of what is left to look at. *)
LEMMA HeadIs ==
  ASSUME Inv, pc = "parse", rest # <<>>
  PROVE  /\ Len(Parts) \in Nat /\ Len(rest) \in Nat /\ Len(rest) > 0
         /\ Head(rest) = rest[1] /\ RestType /\ Tail(rest) \in Seq(Apps \cup {"", "unknown"})
         /\ Head(rest) \in Apps \cup {"", "unknown"} /\ Len(Tail(rest)) = Len(rest) - 1
         /\ \A i \in 1..Len(rest) - 1 : Tail(rest)[i] = rest[i + 1]
         /\ ids \in Seq(Apps) /\ Len(ids) \in Nat
<1> DEFINE S == Apps \cup {"", "unknown"}
<1>1. rest \in Seq(S) /\ RestType
  BY DEF Inv, Typed, TypeOK, RestType
<1>2. ids \in Seq(Apps)
  BY DEF Inv, Typed, TypeOK
<1>3. Len(Parts) \in Nat
  BY PartsType DEF Inv
<1> HIDE DEF S
<1>4. /\ Len(rest) \in Nat /\ Len(rest) > 0 /\ Head(rest) = rest[1] /\ Head(rest) \in S
      /\ Tail(rest) \in Seq(S) /\ Len(Tail(rest)) = Len(rest) - 1
      /\ \A i \in 1..Len(rest) - 1 : Tail(rest)[i] = rest[i + 1]
  BY <1>1, TailSeq
<1>5. Len(ids) \in Nat
  BY <1>2
<1> QED BY <1>1, <1>2, <1>3, <1>4, <1>5 DEF S

(* What Parse leaves of the invariant when it adds to the ids or does not. *)
LEMMA ParseMore ==
  ASSUME Inv, pc = "parse", rest # <<>>, Head(rest) # "unknown", rest' = Tail(rest),
         UNCHANGED <<config, pc, targets, error, reached>>, ids' \in Seq(Apps), InOrder',
         Len(ids') \in Nat, Grown(ids, Len(ids), ids', Len(ids'), Head(rest))
  PROVE  Inv'
<1>1. Typed'
  BY HeadIs DEF Inv, Typed, TypeOK
<1>2. Phases' /\ Listed' /\ Verdict'
  BY DEF Inv, Phases, Listed, Verdict
<1>3. Parsing'
  <2>1. Looked(Parts, Len(Parts), rest, Len(rest), ids, Len(ids))
    BY DEF Inv, Parsing
  <2>2. Looked(Parts, Len(Parts), Tail(rest), Len(rest) - 1, ids', Len(ids'))
    <3> DEFINE n == Len(Parts)  m == Len(rest)  k == Len(ids)  k1 == Len(ids')
               h == Head(rest)  r1 == Tail(rest)  x1 == ids'
    <3>1. n \in Nat /\ m \in Nat /\ k \in Nat /\ k1 \in Nat /\ m > 0 /\ h = rest[1]
      BY HeadIs
    <3>2. h # "unknown" /\ Grown(ids, k, x1, k1, h) /\ Tailed(rest, m, r1)
      BY HeadIs DEF Tailed
    <3>3. Looked(Parts, n, rest, m, ids, k)
      BY <2>1
    <3> HIDE DEF n, m, k, k1, h, r1, x1
    <3>4. Looked(Parts, n, r1, m - 1, x1, k1)
      BY <3>1, <3>2, <3>3, LookedMore
    <3> QED BY <3>4 DEF n, m, k1, r1, x1
  <2>3. Parts' = Parts /\ rest' = Tail(rest) /\ Len(rest') = Len(rest) - 1
    BY ListStays, HeadIs
  <2>4. Looked(Parts', Len(Parts'), rest', Len(rest'), ids', Len(ids'))
    BY <2>2, <2>3
  <2> QED BY <2>4 DEF Parsing
<1>4. Resolving' /\ Connecting'
  <2>1. targets = <<>> /\ reached = <<>>
    BY DEF Inv, Phases
  <2>2. Len(targets') = 0 /\ Len(reached') = 0
    BY <2>1
  <2> QED BY <2>2, NoIndex DEF Resolving, Connecting
<1> QED BY <1>1, <1>2, <1>3, <1>4, InOrder' DEF Inv

(* It stands in the list after all that have been looked at. *)
LEMMA HeadAt ==
  ASSUME Inv, pc = "parse", rest # <<>>
  PROVE  /\ Len(Parts) - Len(rest) + 1 \in 1..Len(Parts)
         /\ Len(Parts) - Len(rest) \in Nat
         /\ Parts[Len(Parts) - Len(rest) + 1] = Head(rest)
         /\ Looked(Parts, Len(Parts), rest, Len(rest), ids, Len(ids))
<1> DEFINE n == Len(Parts)  m == Len(rest)  h == Head(rest)
<1>1. n \in Nat /\ m \in Nat /\ m > 0 /\ h = rest[1]
  BY HeadIs
<1>2. Looked(Parts, n, rest, m, ids, Len(ids))
  BY DEF Inv, Parsing
<1>3. m <= n /\ \A i \in 1..m : rest[i] = Parts[n - m + i]
  BY <1>2 DEF Looked
<1> HIDE DEF n, m, h
<1>4. n - m + 1 \in 1..n /\ 1 \in 1..m /\ n - m \in Nat
  BY <1>1, <1>3
<1>5. Parts[n - m + 1] = h
  BY <1>1, <1>3, <1>4
<1> QED BY <1>2, <1>4, <1>5 DEF n, m, h

(* An id stands first before all that are still to be looked at, and the    *)
(* head, when it is no id yet, does not stand before.                       *)
LEMMA FirstsOfIds ==
  ASSUME Inv, pc = "parse", rest # <<>>
  PROVE  /\ \A j \in 1..Len(ids) : /\ First(ids[j]) \in Nat
                                   /\ First(ids[j]) <= Len(Parts) - Len(rest)
         /\ Head(rest) # "" /\ (\A j \in 1..Len(ids) : ids[j] # Head(rest)) =>
              /\ First(Head(rest)) \in Nat
              /\ First(Head(rest)) > Len(Parts) - Len(rest)
<1> DEFINE n == Len(Parts)  m == Len(rest)  h == Head(rest)  k == Len(ids)
<1>1. /\ n - m + 1 \in 1..n /\ n - m \in Nat /\ Parts[n - m + 1] = h
      /\ Looked(Parts, n, rest, m, ids, k)
  BY HeadAt
<1>2. n \in Nat /\ m \in Nat
  BY HeadIs
<1>3. Typed
  BY DEF Inv
<1> HIDE DEF n, m, h, k
<1>4. ASSUME NEW j \in 1..k PROVE First(ids[j]) \in Nat /\ First(ids[j]) <= n - m
  <2>1. PICK i \in 1..n - m : Parts[i] = ids[j]
    BY <1>1 DEF Looked
  <2>2. i \in 1..n
    BY <1>1, <1>2
  <2>3. First(Parts[i]) \in 1..n /\ First(Parts[i]) <= i
    BY <1>3, <2>2, FirstIs DEF n
  <2> QED BY <1>1, <1>2, <2>1, <2>3
<1>5. ASSUME h # "", \A j \in 1..k : ids[j] # h
      PROVE  First(h) \in Nat /\ First(h) > n - m
  <2>1. First(h) \in 1..n /\ Parts[First(h)] = h
    BY <1>1, <1>3, FirstIs DEF n
  <2>2. ASSUME First(h) <= n - m PROVE FALSE
    <3>1. First(h) \in 1..n - m
      BY <1>1, <1>2, <2>1, <2>2
    <3>2. Has(ids, k, Parts[First(h)])
      BY <1>1, <3>1 DEF Looked
    <3> QED BY <1>5, <2>1, <3>2 DEF Has
  <2> QED BY <1>1, <1>2, <2>1, <2>2
<1> QED BY <1>4, <1>5 DEF n, m, h, k

LEMMA ParseStep == Inv /\ Parse => Inv'
<1> SUFFICES ASSUME Inv, Parse PROVE Inv'
  OBVIOUS
<1>1. pc = "parse" /\ rest # <<>> /\ rest' = Tail(rest) /\ UNCHANGED <<config, reached>>
  BY DEF Parse
<1>2. CASE Head(rest) = "unknown"
  <2>1. Fail("ErrUnknownTarget") /\ UNCHANGED ids
    BY <1>2 DEF Parse
  <2>2. RestType'
    BY <1>1, HeadIs DEF RestType
  <2>3. "unknown" \in ToSet(Parts)
    BY <1>1, <1>2, HeadAt, NamedIs DEF Inv
  <2>4. ~Empty(config.prefix) /\ Parts' = Parts /\ UNCHANGED config
    BY <1>1, ListStays DEF Inv, Phases
  <2>5. ~Empty(config.prefix)' /\ ("unknown" \in ToSet(Parts))' /\ error' = "ErrUnknownTarget"
    BY <2>1, <2>3, <2>4 DEF Fail
  <2>6. Verdict'
    BY <2>5 DEF Verdict
  <2>7. "ErrUnknownTarget" \in Errors
    BY DEF Errors
  <2> QED BY <1>1, <2>1, <2>2, <2>6, <2>7, FailStep
<1>3. CASE Head(rest) # "unknown"
  <2> DEFINE h == Head(rest)
  <2>1. /\ UNCHANGED <<config, pc, targets, error, reached>>
        /\ ids' = IF h \in {""} \cup ToSet(ids) THEN ids ELSE Append(ids, h)
    BY <1>3 DEF Parse
  <2>2. ids \in Seq(Apps) /\ Len(ids) \in Nat
    BY <1>1, HeadIs
  <2>3. \A a : a \in ToSet(ids) <=> \E j \in 1..Len(ids) : ids[j] = a
    BY <2>2 DEF ToSet
  <2>4. h \in Apps \cup {"", "unknown"}
    BY <1>1, HeadIs
  <2> HIDE DEF h
  <2>5. CASE h \in {""} \cup ToSet(ids)
    <3>1. ids' = ids
      BY <2>1, <2>5
    <3>2. Has(ids, Len(ids), h)
      BY <2>3, <2>5 DEF Has
    <3>3. Grown(ids, Len(ids), ids', Len(ids'), h)
      BY <2>2, <3>1, <3>2 DEF Grown
    <3>4. InOrder'
      BY <1>1, <3>1, ListStays DEF Inv, InOrder
    <3> QED BY <1>1, <1>3, <2>1, <2>2, <3>1, <3>3, <3>4, ParseMore DEF h
  <2>6. CASE h \notin {""} \cup ToSet(ids)
    <3> DEFINE k == Len(ids)  y == ids'
    <3>1. y = Append(ids, h) /\ h # "" /\ h \in Apps /\ \A j \in 1..k : ids[j] # h
      BY <1>3, <2>1, <2>3, <2>4, <2>6 DEF h
    <3>2. /\ y \in Seq(Apps) /\ k \in Nat /\ Len(y) = k + 1
          /\ \A j \in 1..k : y[j] = ids[j]
          /\ y[k + 1] = h
      BY <2>2, <3>1, AppendSeq
    <3>3. /\ \A j \in 1..k : /\ First(ids[j]) \in Nat
                             /\ First(ids[j]) <= Len(Parts) - Len(rest)
          /\ First(h) \in Nat /\ First(h) > Len(Parts) - Len(rest)
      BY <1>1, <3>1, FirstsOfIds DEF h
    <3>4. Len(Parts) - Len(rest) \in Nat
      BY <1>1, HeadAt
    <3> DEFINE d == Len(Parts) - Len(rest)
    <3>5. \A i, j \in 1..k : i < j => First(ids[i]) < First(ids[j])
      BY DEF Inv, InOrder
    <3> HIDE DEF k, y, d
    <3>6. ASSUME NEW i \in 1..k + 1, NEW j \in 1..k + 1, i < j
          PROVE  First(y[i]) < First(y[j])
      <4>1. i \in 1..k
        BY <3>2, <3>6
      <4>2. CASE j = k + 1
        BY <3>2, <3>3, <3>4, <4>1, <4>2 DEF d
      <4>3. CASE j # k + 1
        <5>1. j \in 1..k
          BY <3>2, <4>3
        <5> QED BY <3>2, <3>5, <3>6, <4>1, <5>1
      <4> QED BY <4>2, <4>3
    <3>7. InOrder'
      <4>1. \A a : First(a)' = First(a)
        BY <1>1, ListStays
      <4>2. \A i, j \in 1..Len(ids') : i < j => First(ids'[i]) < First(ids'[j])
        BY <3>2, <3>6 DEF y
      <4> QED BY <4>1, <4>2 DEF InOrder
    <3>8. Grown(ids, k, y, Len(y), h)
      <4>3. k + 1 \in 1..k + 1
        BY <3>2
      <4>1. Has(y, k + 1, h)
        <5>1. \E j \in 1..k + 1 : y[j] = h
          BY <3>2, <4>3
        <5> QED BY <5>1 DEF Has
      <4>2. \A j \in 1..k + 1 : j > k => j = k + 1
        BY <3>2
      <4> QED BY <3>2, <4>1, <4>2 DEF Grown
    <3>9. Len(y) \in Nat
      BY <3>2
    <3> QED BY <1>1, <1>3, <2>1, <3>2, <3>7, <3>8, <3>9, ParseMore DEF h, k, y
  <2> QED BY <2>5, <2>6
<1> QED BY <1>2, <1>3

(* When all parts have been looked at, the ids are the names of the list. *)
LEMMA ParsedAll ==
  ASSUME Inv, pc = "parse", rest = <<>>
  PROVE  /\ {ids[i] : i \in 1..Len(ids)} = Named
         /\ "unknown" \notin ToSet(Parts)
         /\ ids \in Seq(Apps) /\ Len(ids) \in Nat
<1> DEFINE n == Len(Parts)  k == Len(ids)
<1>1. ids \in Seq(Apps)
  BY DEF Inv, Typed, TypeOK
<1>2. k \in Nat /\ \A j \in 1..k : ids[j] \in Apps
  BY <1>1
<1>3. n \in Nat /\ Typed
  BY PartsType DEF Inv
<1>4. Looked(Parts, n, rest, 0, ids, k)
  <2>1. Len(rest) = 0
    BY EmptySeq
  <2> QED BY <2>1 DEF Inv, Parsing
<1>5. "" \notin Apps
  BY DEF Apps, ApiApps
<1> HIDE DEF n, k
<1>6. n - 0 = n
  BY <1>3
<1>7. /\ \A i \in 1..n : Parts[i] # "unknown" /\ Has(ids, k, Parts[i])
      /\ \A j \in 1..k : \E i \in 1..n : Parts[i] = ids[j]
  BY <1>4, <1>6 DEF Looked
<1>8. /\ \A a : a \in ToSet(Parts) <=> \E i \in 1..n : Parts[i] = a
      /\ \A a : a \in Named <=> a \in Apps /\ \E i \in 1..n : Parts[i] = a
  BY <1>3, NamedIs DEF n
<1>9. "unknown" \notin ToSet(Parts)
  BY <1>7, <1>8
<1>10. \A a : a \in Named => \E j \in 1..k : ids[j] = a
  BY <1>5, <1>7, <1>8 DEF Has
<1>11. \A j \in 1..k : ids[j] \in Named
  BY <1>2, <1>7, <1>8
<1>12. {ids[i] : i \in 1..k} = Named
  BY <1>10, <1>11
<1> QED BY <1>1, <1>2, <1>9, <1>12 DEF k

LEMMA ParsedStep == Inv /\ Parsed => Inv'
<1> SUFFICES ASSUME Inv, Parsed PROVE Inv'
  OBVIOUS
<1>1. pc = "parse" /\ rest = <<>> /\ UNCHANGED <<config, ids, reached>>
  BY DEF Parsed
<1>2. /\ {ids[i] : i \in 1..Len(ids)} = Named /\ "unknown" \notin ToSet(Parts)
      /\ ids \in Seq(Apps) /\ Len(ids) \in Nat
  BY <1>1, ParsedAll
<1>3. ~Empty(config.prefix) /\ Parts' = Parts /\ Named' = Named
  BY <1>1, ListStays DEF Inv, Phases
<1>4. CASE ids = <<>>
  <2>1. Fail("ErrNoEnabledTargets") /\ UNCHANGED rest
    BY <1>4 DEF Parsed
  <2>2. RestType'
    BY <2>1 DEF Inv, Typed, TypeOK, RestType
  <2>3. Named = {}
    <3>1. \A i \in 1..Len(ids) : FALSE
      BY <1>4, EmptySeq, NoIndex
    <3> QED BY <1>2, <3>1
  <2>4. ~Empty(config.prefix)' /\ ~("unknown" \in ToSet(Parts))' /\ (Named = {})'
    BY <1>1, <1>2, <1>3, <2>3
  <2>5. error' = "ErrNoEnabledTargets"
    BY <2>1 DEF Fail
  <2>6. Verdict'
    BY <2>4, <2>5 DEF Verdict
  <2>7. "ErrNoEnabledTargets" \in Errors
    BY DEF Errors
  <2> QED BY <1>1, <2>1, <2>2, <2>6, <2>7, FailStep
<1>5. CASE ids # <<>>
  <2>1. pc' = "resolve" /\ rest' = ids /\ UNCHANGED <<targets, error>>
    BY <1>5 DEF Parsed
  <2>2. targets = <<>> /\ reached = <<>> /\ error = "none"
    BY <1>1 DEF Inv, Phases
  <2>3. rest' \in Seq(Apps \cup {"", "unknown"})
    <3> DEFINE S == Apps \cup {"", "unknown"}
    <3>1. \A a \in Apps : a \in S
      OBVIOUS
    <3> HIDE DEF S
    <3>2. ids \in Seq(S)
      BY <1>2, <3>1
    <3> QED BY <2>1, <3>2 DEF S
  <2>4. Typed'
    BY <1>1, <2>1, <2>3 DEF Inv, Typed, TypeOK
  <2>5. Phases' /\ Parsing' /\ Verdict'
    BY <1>1, <1>3, <2>1, <2>2 DEF Phases, Parsing, Verdict
  <2>6. Listed'
    BY <1>1, <1>2, <1>3, <1>5 DEF Listed
  <2>7. InOrder'
    BY <1>1, ListStays DEF Inv, InOrder
  <2>8. Len(targets') = 0 /\ Len(reached') = 0
    BY <1>1, <2>1, <2>2, EmptySeq
  <2>9. Resolving'
    <3>1. \A i \in 1..Len(targets') : FALSE
      BY <2>8, NoIndex
    <3>2. Len(targets') + Len(rest') = Len(ids')
      BY <1>1, <1>2, <2>1, <2>8
    <3>3. \A i \in 1..Len(rest') : rest'[i] = ids'[Len(targets') + i]
      BY <1>1, <1>2, <2>1, <2>8
    <3> QED BY <2>1, <3>1, <3>2, <3>3 DEF Resolving
  <2>10. Connecting'
    <3>1. \A i \in 1..Len(reached') : FALSE
      BY <2>8, NoIndex
    <3>2. Len(reached') <= Len(targets')
      BY <2>8
    <3> QED BY <3>1, <3>2 DEF Connecting
  <2> QED BY <2>4, <2>5, <2>6, <2>7, <2>9, <2>10 DEF Inv
<1> QED BY <1>4, <1>5

(* The target that is resolved next. *)
LEMMA NextTarget ==
  ASSUME Inv, pc = "resolve", rest # <<>>
  PROVE  /\ Len(targets) \in Nat /\ Len(rest) \in Nat /\ Len(ids) \in Nat /\ Len(rest) > 0
         /\ Len(targets) + 1 \in 1..Len(ids) /\ Head(rest) = ids[Len(targets) + 1]
         /\ Head(rest) \in Apps /\ Head(rest) \in Named /\ RestType
         /\ Len(Tail(rest)) = Len(rest) - 1 /\ Tailed(rest, Len(rest), Tail(rest))
         /\ Tail(rest) \in Seq(Apps \cup {"", "unknown"})
<1> DEFINE S == Apps \cup {"", "unknown"}
           n == Len(targets)  m == Len(rest)  k == Len(ids)  h == Head(rest)
<1>1. rest \in Seq(S) /\ RestType
  BY DEF Inv, Typed, TypeOK, RestType
<1>2. ids \in Seq(Apps)
  BY DEF Inv, Typed, TypeOK
<1>3. targets \in Seq(Targets)
  BY DEF Inv, Typed, TypeOK
<1>4. {ids[i] : i \in 1..k} = Named
  BY DEF Inv, Listed
<1>5. n + m = k /\ \A i \in 1..m : rest[i] = ids[n + i]
  BY DEF Inv, Resolving
<1> HIDE DEF S
<1>6. /\ m \in Nat /\ m > 0 /\ h = rest[1] /\ Tail(rest) \in Seq(S)
      /\ Len(Tail(rest)) = m - 1 /\ Tailed(rest, m, Tail(rest))
  BY <1>1, TailSeq DEF Tailed
<1>7. k \in Nat /\ \A i \in 1..k : ids[i] \in Apps
  BY <1>2
<1>8. n \in Nat
  BY <1>3
<1> HIDE DEF n, m, k, h
<1>9. n + 1 \in 1..k /\ 1 \in 1..m
  BY <1>5, <1>6, <1>7, <1>8
<1>10. h = ids[n + 1]
  BY <1>5, <1>6, <1>9
<1> QED BY <1>1, <1>4, <1>6, <1>7, <1>8, <1>9, <1>10 DEF n, m, k, h, S

(* When it does not resolve, it is the first bad one. *)
LEMMA NextIsFirstBad ==
  ASSUME Inv, pc = "resolve", rest # <<>>, Resolve(Head(rest)).err # "none"
  PROVE  FirstBad(Head(rest))
<1> DEFINE n == Len(targets)  k == Len(ids)  h == Head(rest)
<1>1. n \in Nat /\ k \in Nat /\ n + 1 \in 1..k /\ h = ids[n + 1] /\ h \in Named
  BY NextTarget
<1>2. {ids[i] : i \in 1..k} = Named
  BY DEF Inv, Listed
<1>3. \A i, j \in 1..k : i < j => First(ids[i]) < First(ids[j])
  BY DEF Inv, InOrder
<1>4. \A i \in 1..n : Resolve(ids[i]).err = "none"
  BY DEF Inv, Resolving
<1>5. \A a \in Named : First(a) \in Nat
  BY FirstType DEF Inv
<1>6. Resolve(h).err # "none"
  OBVIOUS
<1> HIDE DEF n, k, h
<1>7. ASSUME NEW b \in Named, Resolve(b).err # "none" PROVE First(h) <= First(b)
  <2>1. PICK j \in 1..k : b = ids[j]
    BY <1>2
  <2>2. j \notin 1..n
    BY <1>4, <1>7, <2>1
  <2>3. j = n + 1 \/ n + 1 < j
    BY <1>1, <2>2
  <2>4. CASE j = n + 1
    BY <1>1, <1>5, <2>1, <2>4
  <2>5. CASE n + 1 < j
    <3>1. First(ids[n + 1]) < First(ids[j])
      BY <1>1, <1>3, <2>5
    <3>2. First(h) < First(b) /\ First(h) \in Nat /\ First(b) \in Nat
      BY <1>1, <1>5, <2>1, <3>1
    <3> QED BY <3>2
  <2> QED BY <2>3, <2>4, <2>5
<1>8. FirstBad(h)
  BY <1>1, <1>6, <1>7 DEF FirstBad
<1> QED BY <1>8 DEF h

LEMMA ResolveNextStep == Inv /\ ResolveNext => Inv'
<1> SUFFICES ASSUME Inv, ResolveNext PROVE Inv'
  OBVIOUS
<1> DEFINE h == Head(rest)  r == Resolve(h)
<1>1. pc = "resolve" /\ rest # <<>> /\ rest' = Tail(rest) /\ UNCHANGED <<config, ids, reached>>
  BY DEF ResolveNext
<1>2. r \in Results
  BY ResolveType
<1>3. ~Empty(config.prefix) /\ Parts' = Parts /\ Named' = Named
  BY <1>1, ListStays DEF Inv, Phases
<1>4. "unknown" \notin ToSet(Parts)
  BY <1>1 DEF Inv, Listed
<1>5. CASE r.err # "none"
  <2>1. Fail(r.err)
    BY <1>5 DEF ResolveNext
  <2>2. r.err \in Errors
    BY <1>2 DEF Results
  <2>3. RestType'
    BY <1>1, NextTarget DEF RestType
  <2>4. FirstBad(h)
    BY <1>1, <1>5, NextIsFirstBad
  <2>5. (\A a : FirstBad(a)' = FirstBad(a)) /\ (\A a : Resolve(a)' = Resolve(a))
    BY <1>1, ListStays, ResolveStays
  <2>6. error' = r.err
    BY <2>1 DEF Fail
  <2>7. Verdict'
    <3> HIDE DEF h, r
    <3>1. PICK bad : bad = h
      OBVIOUS
    <3>2. FirstBad(bad) /\ error' = Resolve(bad).err
      BY <2>4, <2>6, <3>1 DEF r
    <3>3. FirstBad(bad)' /\ error' = Resolve(bad)'.err
      BY <2>5, <3>2
    <3>4. (\E a : FirstBad(a) /\ error = Resolve(a).err)'
      BY <3>3
    <3>5. ~Empty(config.prefix)' /\ ("unknown" \notin ToSet(Parts))'
      BY <1>1, <1>3, <1>4
    <3> QED BY <3>4, <3>5 DEF Verdict
  <2> QED BY <1>1, <2>1, <2>2, <2>3, <2>7, FailStep
<1>6. CASE r.err = "none"
  <2> DEFINE t == [id |-> h, kind |-> r.kind, key |-> r.key]
             n == Len(targets)  y == targets'
  <2>1. targets' = Append(targets, t) /\ UNCHANGED <<pc, error>>
    BY <1>6 DEF ResolveNext
  <2>2. t \in Targets
    BY <1>1, <1>2, <1>6, NextTarget DEF Results, Kinds, Keys, Targets
  <2>3. targets \in Seq(Targets)
    BY DEF Inv, Typed, TypeOK
  <2>4. /\ n \in Nat /\ Len(rest) \in Nat /\ Len(ids) \in Nat /\ Len(rest) > 0
        /\ n + 1 \in 1..Len(ids) /\ h = ids[n + 1] /\ Tailed(rest, Len(rest), Tail(rest))
        /\ Len(Tail(rest)) = Len(rest) - 1
    BY <1>1, NextTarget
  <2>5. t.id = h /\ t.kind = r.kind /\ t.key = r.key
    OBVIOUS
  <2> HIDE DEF t
  <2>6. /\ y \in Seq(Targets) /\ Len(y) = n + 1
        /\ \A i \in 1..n : y[i] = targets[i]
        /\ y[n + 1] = t
    BY <2>1, <2>2, <2>3, AppendSeq
  <2>7. Typed'
    BY <1>1, <2>1, <2>6, NextTarget DEF Inv, Typed, TypeOK
  <2>8. Phases' /\ Parsing' /\ Verdict'
    BY <1>1, <2>1 DEF Inv, Phases, Parsing, Verdict
  <2>9. Listed'
    BY <1>1, <1>3, <2>1 DEF Inv, Listed
  <2>10. InOrder'
    BY <1>1, ListStays DEF Inv, InOrder
  <2>11. Connecting'
    <3>1. Len(reached') = 0
      BY <1>1, EmptySeq DEF Inv, Phases
    <3>2. \A i \in 1..Len(reached') : FALSE
      BY <3>1, NoIndex
    <3>3. Len(reached') <= Len(targets')
      BY <2>4, <2>6, <3>1
    <3> QED BY <3>2, <3>3 DEF Connecting
  <2>12. Resolving'
    <3> DEFINE m == Len(rest)  k == Len(ids)  z == Tail(rest)
    <3>1. n + m = k /\ \A i \in 1..m : rest[i] = ids[n + i]
      BY <1>1 DEF Inv, Resolving
    <3>2. \A i \in 1..n :
            /\ i \in 1..k /\ targets[i].id = ids[i]
            /\ Resolve(ids[i]).err = "none"
            /\ targets[i].kind = Resolve(ids[i]).kind
            /\ targets[i].key = Resolve(ids[i]).key
      BY DEF Inv, Resolving
    <3>3. /\ n \in Nat /\ m \in Nat /\ k \in Nat /\ m > 0 /\ n + 1 \in 1..k
          /\ h = ids[n + 1] /\ Tailed(rest, m, z) /\ Len(z) = m - 1
      BY <2>4
    <3>4. \A a : Resolve(a)' = Resolve(a)
      BY <1>1, ResolveStays
    <3> HIDE DEF n, m, k, z, h, y
    <3>5. (n + 1) + (m - 1) = k /\ \A i \in 1..m - 1 : z[i] = ids[(n + 1) + i]
      <4>1. (n + 1) + (m - 1) = k
        BY <3>1, <3>3
      <4>2. ASSUME NEW i \in 1..m - 1 PROVE z[i] = ids[(n + 1) + i]
        <5>1. i + 1 \in 1..m /\ n + (i + 1) = (n + 1) + i
          BY <3>3
        <5>2. z[i] = rest[i + 1]
          BY <3>3 DEF Tailed
        <5> QED BY <3>1, <5>1, <5>2
      <4> QED BY <4>1, <4>2
    <3>6. ASSUME NEW i \in 1..n + 1
          PROVE  /\ i \in 1..k /\ y[i].id = ids[i]
                 /\ Resolve(ids[i]).err = "none"
                 /\ y[i].kind = Resolve(ids[i]).kind
                 /\ y[i].key = Resolve(ids[i]).key
      <4>1. CASE i = n + 1
        BY <1>6, <2>5, <2>6, <3>3, <4>1
      <4>2. CASE i # n + 1
        <5>1. i \in 1..n
          BY <3>3, <4>2
        <5> QED BY <2>6, <3>2, <5>1
      <4> QED BY <4>1, <4>2
    <3>7. /\ Len(targets') + Len(rest') = Len(ids')
          /\ \A i \in 1..Len(rest') : rest'[i] = ids'[Len(targets') + i]
      BY <1>1, <2>6, <3>3, <3>5 DEF y, z, k
    <3>8. \A i \in 1..Len(targets') :
            /\ i \in 1..Len(ids') /\ targets'[i].id = ids'[i]
            /\ Resolve(ids'[i]).err = "none"
            /\ targets'[i].kind = Resolve(ids'[i]).kind
            /\ targets'[i].key = Resolve(ids'[i]).key
      BY <1>1, <2>6, <3>6 DEF y, k
    <3>9. pc' = "resolve"
      BY <1>1, <2>1
    <3> QED BY <3>4, <3>7, <3>8, <3>9 DEF Resolving
  <2> QED BY <2>7, <2>8, <2>9, <2>10, <2>11, <2>12 DEF Inv
<1> QED BY <1>5, <1>6

LEMMA AllResolvedStep == Inv /\ AllResolved => Inv'
<1> SUFFICES ASSUME Inv, AllResolved PROVE Inv'
  OBVIOUS
<1>1. pc = "resolve" /\ rest = <<>> /\ pc' = "connect"
      /\ UNCHANGED <<config, rest, ids, targets, error, reached>>
  BY DEF AllResolved
<1>2. Parts' = Parts /\ Named' = Named /\ \A a : Resolve(a)' = Resolve(a)
  BY <1>1, ListStays, ResolveStays
<1>3. Typed'
  BY <1>1 DEF Inv, Typed, TypeOK
<1>4. Phases' /\ Parsing' /\ Verdict' /\ Listed'
  BY <1>1, <1>2 DEF Inv, Phases, Parsing, Verdict, Listed
<1>5. InOrder'
  BY <1>1, ListStays DEF Inv, InOrder
<1>6. Len(targets) = Len(ids)
  <2>1. Len(rest) = 0
    BY <1>1, EmptySeq
  <2>2. Len(targets) + Len(rest) = Len(ids)
    BY <1>1 DEF Inv, Resolving
  <2>3. Len(targets) \in Nat
    <3>1. targets \in Seq(Targets)
      BY DEF Inv, Typed, TypeOK
    <3> QED BY <3>1
  <2> QED BY <2>1, <2>2, <2>3
<1>7. Resolving'
  BY <1>1, <1>2, <1>6 DEF Inv, Resolving
<1>8. Connecting'
  <2>1. Len(reached') = 0 /\ Len(targets) \in Nat
    BY <1>1, EmptySeq DEF Inv, Phases, Typed, TypeOK
  <2>2. \A i \in 1..Len(reached') : FALSE
    BY <2>1, NoIndex
  <2>3. Len(reached') <= Len(targets')
    BY <1>1, <2>1
  <2> QED BY <2>2, <2>3 DEF Connecting
<1> QED BY <1>3, <1>4, <1>5, <1>7, <1>8 DEF Inv

(* What keeps a Postgres server from being connected to, for any database:  *)
(* only a URI makes the database matter.                                    *)
LEMMA PostgresErrors ==
  ASSUME NEW db
  PROVE  LET err == ConnectPostgres(db).err
         IN  \/ err = "none"
             \/ err = "uri" /\ HasURI /\ db # "" /\ ~config.pg.uri.parses
             \/ err = "host" /\ ~HasURI /\ Empty(config.pg.host)
             \/ err = "password" /\ ~HasURI /\ config.pg.password = "unset"
  BY DEF ConnectPostgres, Connection, NoConnection

(* The connections of a dump fail for the first one, or for one of the      *)
(* databases that are dumped.                                               *)
LEMMA PostgresErrorOf ==
  \/ PostgresError = "none"
  \/ PostgresError = ConnectPostgres("").err
  \/ config.pg.all /\ \E db \in Databases : PostgresError = ConnectPostgres(db).err
<1> DEFINE first == ConnectPostgres("").err
           later == {DumpPostgres[db].err : db \in DOMAIN DumpPostgres} \ {"none"}
           pick == CHOOSE e \in later : TRUE
<1>1. CASE first # "none"
  BY <1>1 DEF PostgresError
<1>2. CASE first = "none" /\ later = {}
  BY <1>2 DEF PostgresError
<1>3. CASE first = "none" /\ later # {}
  <2>1. PostgresError = pick /\ pick \in later
    BY <1>3 DEF PostgresError
  <2>2. CASE config.pg.all
    BY <2>1, <2>2 DEF DumpPostgres
  <2>3. CASE ~config.pg.all
    BY <2>1, <2>3 DEF DumpPostgres
  <2> QED BY <2>2, <2>3
<1> QED BY <1>1, <1>2, <1>3

(* A connection is made or fails, of any target. *)
LEMMA ConnectType == \A t : Connect(t) \in ConnectErrors
<1>1. PostgresError \in ConnectErrors
  BY PostgresErrorOf, PostgresErrors DEF ConnectErrors
<1>2. MongoError \in ConnectErrors
  BY DEF MongoError, ConnectErrors
<1>3. \A url : URLError(url) \in ConnectErrors
  BY DEF URLError, ConnectErrors
<1>4. "none" \in ConnectErrors
  BY DEF ConnectErrors
<1> QED BY <1>1, <1>2, <1>3, <1>4 DEF Connect

LEMMA ConnectStays ==
  ASSUME UNCHANGED config
  PROVE  \A t : Connect(t)' = Connect(t)
<1>1. \A db : ConnectPostgres(db)' = ConnectPostgres(db)
  BY DEF ConnectPostgres, HasURI
<1>2. DumpPostgres' = DumpPostgres
  BY <1>1 DEF DumpPostgres
<1>3. PostgresError' = PostgresError
  BY <1>1, <1>2 DEF PostgresError
<1>4. MongoError' = MongoError
  BY DEF MongoError
<1> QED BY <1>3, <1>4 DEF Connect

LEMMA ConnectNextStep == Inv /\ ConnectNext => Inv'
<1> SUFFICES ASSUME Inv, ConnectNext PROVE Inv'
  OBVIOUS
<1> DEFINE c == Connect(targets[Len(reached) + 1])  n == Len(reached)  y == reached'
<1>1. /\ pc = "connect" /\ Len(reached) < Len(targets) /\ reached' = Append(reached, c)
      /\ UNCHANGED <<config, pc, rest, ids, targets, error>>
  BY DEF ConnectNext
<1>2. /\ Parts' = Parts /\ Named' = Named /\ \A a : Resolve(a)' = Resolve(a)
      /\ \A t : Connect(t)' = Connect(t)
  BY <1>1, ListStays, ResolveStays, ConnectStays
<1>3. c \in ConnectErrors
  BY ConnectType
<1>4. reached \in Seq(ConnectErrors) /\ Len(targets) \in Nat
  <2>1. reached \in Seq(ConnectErrors) /\ targets \in Seq(Targets)
    BY DEF Inv, Typed, TypeOK
  <2> QED BY <2>1
<1> DEFINE S == ConnectErrors
<1>5. /\ y \in Seq(S) /\ n \in Nat /\ Len(y) = n + 1
      /\ \A i \in 1..n : y[i] = reached[i]
      /\ y[n + 1] = c
  <2> HIDE DEF S, c
  <2>1. c \in S /\ reached \in Seq(S)
    BY <1>3, <1>4 DEF S
  <2> QED BY <1>1, <2>1, AppendSeq
<1>6. Typed'
  BY <1>1, <1>5 DEF Inv, Typed, TypeOK
<1>7. Phases' /\ Parsing' /\ Verdict' /\ Listed'
  BY <1>1, <1>2 DEF Inv, Phases, Parsing, Verdict, Listed
<1>8. InOrder'
  BY <1>1, ListStays DEF Inv, InOrder
<1>9. Resolving'
  BY <1>1, <1>2 DEF Inv, Resolving
<1>10. Connecting'
  <2>1. \A i \in 1..n : reached[i] = Connect(targets[i])
    BY DEF Inv, Connecting
  <2>2. c = Connect(targets[n + 1])
    OBVIOUS
  <2> HIDE DEF n, y, c, S
  <2>3. ASSUME NEW i \in 1..n + 1 PROVE y[i] = Connect(targets[i])
    <3>1. CASE i = n + 1
      BY <1>5, <2>2, <3>1
    <3>2. CASE i # n + 1
      <4>1. i \in 1..n
        BY <1>5, <3>2
      <4> QED BY <1>5, <2>1, <4>1
    <3> QED BY <3>1, <3>2
  <2>4. Len(reached') <= Len(targets')
    BY <1>1, <1>4, <1>5 DEF n, y
  <2>5. \A i \in 1..Len(reached') : reached'[i] = Connect(targets[i])
    BY <1>5, <2>3 DEF y
  <2>6. \A i \in 1..Len(reached') : reached'[i] = Connect(targets[i])'
    BY <1>1, <1>2, <2>5
  <2> QED BY <2>4, <2>6 DEF Connecting
<1> QED BY <1>6, <1>7, <1>8, <1>9, <1>10 DEF Inv

LEMMA Steps == Inv /\ [Next]_vars => Inv'
<1>1. Inv /\ UNCHANGED vars => Inv'
  <2> SUFFICES ASSUME Inv, UNCHANGED vars PROVE Inv'
    OBVIOUS
  <2>1. UNCHANGED <<config, pc, rest, ids, targets, error, reached>>
    BY DEF vars
  <2>2. /\ Parts' = Parts /\ Named' = Named /\ \A a : Resolve(a)' = Resolve(a)
        /\ \A t : Connect(t)' = Connect(t) /\ \A a : FirstBad(a)' = FirstBad(a)
    BY <2>1, ListStays, ResolveStays, ConnectStays
  <2>3. Typed'
    BY <2>1 DEF Inv, Typed, TypeOK
  <2>4. Phases' /\ Parsing' /\ Listed'
    BY <2>1, <2>2 DEF Inv, Phases, Parsing, Listed
  <2>5. Verdict'
    BY <2>1, <2>2 DEF Inv, Verdict
  <2>6. InOrder'
    BY <2>1, ListStays DEF Inv, InOrder
  <2>7. Resolving' /\ Connecting'
    BY <2>1, <2>2 DEF Inv, Resolving, Connecting
  <2> QED BY <2>3, <2>4, <2>5, <2>6, <2>7 DEF Inv
<1> QED BY <1>1, ValidateStep, ParseStep, ParsedStep, ResolveNextStep, AllResolvedStep,
           ConnectNextStep DEF Next

LEMMA InvHolds == Spec => []Inv
  BY InvInit, Steps, PTL DEF Spec

-----------------------------------------------------------------------------
(* The theorems. *)

(* The settings, the lists and the targets have their types throughout      *)
(* EnabledTargets and the backups' first connections.                       *)
THEOREM TypeCorrect == Spec => []TypeOK
<1>1. Inv => TypeOK
  BY DEF Inv, Typed
<1> QED BY <1>1, InvHolds, PTL

(* parseEnabledTargets and EnabledTargets: the targets are those the list   *)
(* names, each once, in the order in which the list first names them.       *)
THEOREM ListOnce == Spec => []ListIsFaithful
<1>1. Inv => ListIsFaithful
  <2> SUFFICES ASSUME Inv, pc = "connect"
               PROVE  /\ {targets[i].id : i \in 1..Len(targets)} = Named
                      /\ \A i, j \in 1..Len(targets) :
                           i < j => First(targets[i].id) < First(targets[j].id)
    BY DEF ListIsFaithful
  <2>1. Len(targets) = Len(ids) /\ \A i \in 1..Len(targets) : targets[i].id = ids[i]
    BY DEF Inv, Resolving
  <2>2. {ids[i] : i \in 1..Len(ids)} = Named
    BY DEF Inv, Listed
  <2>3. \A i, j \in 1..Len(ids) : i < j => First(ids[i]) < First(ids[j])
    BY DEF Inv, InOrder
  <2>4. {targets[i].id : i \in 1..Len(targets)} = {ids[i] : i \in 1..Len(ids)}
    BY <2>1
  <2> QED BY <2>1, <2>2, <2>3, <2>4
<1> QED BY <1>1, InvHolds, PTL

(* What FirstErrorWins calls bad. *)
Bad == {a \in Named : Resolve(a).err # "none"}

(* There is one first bad target. *)
LEMMA FirstBadIs ==
  ASSUME Typed, NEW a, FirstBad(a)
  PROVE  Bad # {} /\ a = CHOOSE c \in Bad : \A b \in Bad : First(c) <= First(b)
<1>1. a \in Bad /\ \A b \in Bad : First(a) <= First(b)
  BY DEF FirstBad, Bad
<1>2. ASSUME NEW c \in Bad, \A b \in Bad : First(c) <= First(b) PROVE c = a
  <2>1. First(c) <= First(a) /\ First(a) <= First(c)
    BY <1>1, <1>2
  <2>2. First(a) \in Nat /\ First(c) \in Nat
    BY <1>1, FirstType DEF Bad
  <2>3. First(a) = First(c)
    BY <2>1, <2>2
  <2> QED BY <1>1, <2>3, FirstInjective DEF Bad
<1> QED BY <1>1, <1>2

(* EnabledTargets returns no targets with an error, and its error is the    *)
(* first in the order of the prefix, the unknown names, the empty list and  *)
(* the settings of each target as listed.                                   *)
THEOREM OneErrorIsReported == Spec => []FirstErrorWins
<1>1. Inv => FirstErrorWins
  <2> SUFFICES ASSUME Inv PROVE FirstErrorWins
    OBVIOUS
  <2> DEFINE first == CHOOSE a \in Bad : \A b \in Bad : First(a) <= First(b)
             named == CASE Named = {} -> "ErrNoEnabledTargets"
                        [] Bad # {} -> Resolve(first).err
                        [] OTHER -> "none"
             expected == CASE Empty(config.prefix) -> "ErrMissingRemotePrefix"
                           [] ~Empty(config.prefix) /\ "unknown" \in ToSet(Parts) ->
                                "ErrUnknownTarget"
                           [] OTHER -> named
  <2>1. ASSUME pc = "err" PROVE error = expected /\ targets = <<>>
    <3>1. targets = <<>>
      BY <2>1 DEF Inv, Phases
    <3>2. CASE Empty(config.prefix) /\ error = "ErrMissingRemotePrefix"
      BY <3>1, <3>2
    <3>3. CASE /\ ~Empty(config.prefix) /\ "unknown" \in ToSet(Parts)
               /\ error = "ErrUnknownTarget"
      BY <3>1, <3>3
    <3>4. CASE /\ ~Empty(config.prefix) /\ "unknown" \notin ToSet(Parts)
               /\ Named = {} /\ error = "ErrNoEnabledTargets"
      <4>1. Bad = {}
        BY <3>4 DEF Bad
      <4>2. named = "ErrNoEnabledTargets"
        <5> HIDE DEF first
        <5> QED BY <3>4, <4>1
      <4>3. expected = named
        BY <3>4
      <4> QED BY <3>1, <3>4, <4>2, <4>3
    <3>5. CASE /\ ~Empty(config.prefix) /\ "unknown" \notin ToSet(Parts)
               /\ \E a : FirstBad(a) /\ error = Resolve(a).err
      <4>1. PICK a : FirstBad(a) /\ error = Resolve(a).err
        BY <3>5
      <4>2. Bad # {} /\ a = first /\ Named # {}
        BY <4>1, FirstBadIs DEF Inv, FirstBad
      <4>3. error = Resolve(first).err
        BY <4>1, <4>2
      <4> HIDE DEF first
      <4>4. named = Resolve(first).err
        BY <4>2
      <4>5. expected = named
        BY <3>5
      <4> QED BY <3>1, <4>3, <4>4, <4>5
    <3> QED BY <2>1, <3>2, <3>3, <3>4, <3>5 DEF Inv, Verdict
  <2>2. ASSUME pc = "connect" PROVE expected = "none"
    <3>1. ~Empty(config.prefix) /\ "unknown" \notin ToSet(Parts)
      BY <2>2 DEF Inv, Phases, Listed
    <3>2. {ids[i] : i \in 1..Len(ids)} = Named /\ Len(targets) = Len(ids)
      BY <2>2 DEF Inv, Listed, Resolving
    <3>3. \A i \in 1..Len(ids) : Resolve(ids[i]).err = "none"
      BY <3>2 DEF Inv, Resolving
    <3>4. Bad = {}
      BY <3>2, <3>3 DEF Bad
    <3>5. Named # {}
      <4>1. ids \in Seq(Apps)
        BY DEF Inv, Typed, TypeOK
      <4>2. ids # <<>>
        BY <2>2 DEF Inv, Listed
      <4>3. 1 \in 1..Len(ids)
        BY <4>1, <4>2
      <4> QED BY <3>2, <4>3
    <3>6. named = "none"
      BY <3>4, <3>5
    <3>7. expected = named
      BY <3>1
    <3> QED BY <3>6, <3>7
  <2> HIDE DEF named
  <2> QED BY <2>1, <2>2 DEF FirstErrorWins, named, Bad, Parts
<1> QED BY <1>1, InvHolds, PTL

(* What a target of each kind has in the settings. *)
LEMMA ApiHasKey ==
  \A id : Resolve(id).kind = "arr_api" =>
            Resolve(id).key # "" /\ ~Empty(config.app[id].mount)
<1>1. ResolveKomodo.kind # "arr_api" /\ ResolvePostgres.kind # "arr_api"
  BY DEF ResolveKomodo, ResolvePostgres, Resolved, Failed
<1>2. \A id : ResolvePath(id).kind # "arr_api"
  BY DEF ResolvePath, Resolved, Failed
<1>3. ASSUME NEW id, ResolveAPI(id).kind = "arr_api"
      PROVE  ResolveAPI(id).key # "" /\ ~Empty(config.app[id].mount)
  BY <1>3 DEF ResolveAPI, Resolved, Failed
<1>4. ASSUME NEW id
      PROVE  Resolve(id) \in {ResolveKomodo, ResolvePostgres, ResolveAPI(id), ResolvePath(id)}
  BY DEF Resolve
<1>5. ASSUME NEW id, Resolve(id).kind = "arr_api" PROVE Resolve(id) = ResolveAPI(id)
  BY <1>1, <1>2, <1>4, <1>5
<1> QED BY <1>3, <1>5

LEMMA PathIsThere ==
  ASSUME Typed, NEW id \in Apps, Resolve(id).kind = "config_sync"
  PROVE  /\ config.app[id].path = "set"
         /\ id \in ApiApps =>
              {config.app[id].url, config.app[id].key, config.app[id].mount} = {"unset"}
<1> DEFINE api == /\ id \in ApiApps
                  /\ {config.app[id].url, config.app[id].key, config.app[id].mount} # {"unset"}
<1>1. ResolveKomodo.kind # "config_sync" /\ ResolvePostgres.kind # "config_sync"
  BY DEF ResolveKomodo, ResolvePostgres, Resolved, Failed
<1>2. ResolveAPI(id).kind # "config_sync"
  BY DEF ResolveAPI, Resolved, Failed
<1>3. /\ id # "komodo" /\ id # "postgres" /\ ~api /\ ResolvePath(id).kind = "config_sync"
  BY <1>1, <1>2 DEF Resolve
<1>4. config.app[id].path \in {"unset", "blank", "missing", "set"}
  BY ConfigurationsAssumption DEF Typed, AppSettings
<1>5. config.app[id].path = "set"
  BY <1>3, <1>4 DEF ResolvePath, Resolved, Failed, Empty
<1> QED BY <1>3, <1>5

LEMMA MongoIsThere ==
  \A id : Resolve(id).kind = "mongo_dump" =>
            ~(Empty(config.mongo.uri) /\ Empty(config.mongo.address))
<1>1. ResolvePostgres.kind # "mongo_dump"
  BY DEF ResolvePostgres, Resolved, Failed
<1>2. \A id : ResolvePath(id).kind # "mongo_dump"
  BY DEF ResolvePath, Resolved, Failed
<1>3. \A id : ResolveAPI(id).kind # "mongo_dump"
  BY DEF ResolveAPI, Resolved, Failed
<1>4. ResolveKomodo.kind = "mongo_dump" =>
        ~(Empty(config.mongo.uri) /\ Empty(config.mongo.address))
  BY DEF ResolveKomodo, Resolved, Failed
<1> QED BY <1>1, <1>2, <1>3, <1>4 DEF Resolve

LEMMA PostgresIsThere ==
  \A id : Resolve(id).kind = "postgres_dump" =>
            HasURI \/ (~Empty(config.pg.host) /\ (config.pg.all \/ config.pg.db # "blank"))
<1>1. ResolveKomodo.kind # "postgres_dump"
  BY DEF ResolveKomodo, Resolved, Failed
<1>2. \A id : ResolvePath(id).kind # "postgres_dump"
  BY DEF ResolvePath, Resolved, Failed
<1>3. \A id : ResolveAPI(id).kind # "postgres_dump"
  BY DEF ResolveAPI, Resolved, Failed
<1>4. ResolvePostgres.kind = "postgres_dump" =>
        HasURI \/ (~Empty(config.pg.host) /\ (config.pg.all \/ config.pg.db # "blank"))
  BY DEF ResolvePostgres, Resolved, Failed
<1> QED BY <1>1, <1>2, <1>3, <1>4 DEF Resolve

(* resolveTarget against connectionArgs, buildArgs and joinURL: whatever    *)
(* target gets through can be connected to, but for a url that is blank or  *)
(* malformed, a Postgres password that is not set and a malformed URI for a *)
(* dump of all databases; an app with any of its API settings is never      *)
(* backed up from its directory.                                            *)
THEOREM ResolvedConnects == Spec => []ResolvedIsComplete
<1>1. Inv => ResolvedIsComplete
  <2> SUFFICES ASSUME Inv PROVE ResolvedIsComplete
    OBVIOUS
  <2>1. \A i \in 1..Len(targets) :
          /\ targets[i].id \in Apps
          /\ targets[i].kind = Resolve(targets[i].id).kind
          /\ targets[i].key = Resolve(targets[i].id).key
    <3>1. ids \in Seq(Apps)
      BY DEF Inv, Typed, TypeOK
    <3>2. \A i \in 1..Len(ids) : ids[i] \in Apps
      BY <3>1
    <3> QED BY <3>2 DEF Inv, Resolving
  <2>2. ASSUME NEW i \in 1..Len(targets)
        PROVE  LET t == targets[i]
                   s == config.app[t.id]
               IN  /\ t.kind = "arr_api" => t.key # "" /\ ~Empty(s.mount)
                   /\ t.kind = "config_sync" =>
                        /\ s.path = "set"
                        /\ t.id \in ApiApps => {s.url, s.key, s.mount} = {"unset"}
    <3> DEFINE t == targets[i]
    <3>1. t.id \in Apps /\ t.kind = Resolve(t.id).kind /\ t.key = Resolve(t.id).key
      BY <2>1
    <3>2. t.kind = "arr_api" => t.key # "" /\ ~Empty(config.app[t.id].mount)
      BY <3>1, ApiHasKey
    <3>3. t.kind = "config_sync" =>
            /\ config.app[t.id].path = "set"
            /\ t.id \in ApiApps =>
                 {config.app[t.id].url, config.app[t.id].key, config.app[t.id].mount} = {"unset"}
      BY <3>1, PathIsThere DEF Inv
    <3> QED BY <3>2, <3>3
  <2>3. ASSUME NEW i \in 1..Len(reached), reached[i] # "none"
        PROVE  \/ /\ targets[i].kind = "arr_api" /\ reached[i] = "url"
                  /\ config.app[targets[i].id].url \in {"blank", "malformed"}
               \/ /\ targets[i].kind = "postgres_dump" /\ reached[i] = "password"
                  /\ ~HasURI /\ config.pg.password = "unset"
               \/ /\ targets[i].kind = "postgres_dump" /\ reached[i] = "uri"
                  /\ HasURI /\ ~config.pg.uri.parses /\ config.pg.all
    <3> DEFINE t == targets[i]
    <3>1. i \in 1..Len(targets)
      <4>1. reached \in Seq(ConnectErrors) /\ targets \in Seq(Targets)
        BY DEF Inv, Typed, TypeOK
      <4>2. Len(reached) \in Nat /\ Len(targets) \in Nat
        BY <4>1
      <4>3. Len(reached) <= Len(targets)
        BY DEF Inv, Connecting
      <4> QED BY <4>2, <4>3
    <3>2. reached[i] = Connect(t) /\ Connect(t) # "none"
      BY <2>3 DEF Inv, Connecting
    <3>3. t.kind = Resolve(t.id).kind
      BY <2>1, <3>1
    <3>4. t.kind = "mongo_dump" => ~(Empty(config.mongo.uri) /\ Empty(config.mongo.address))
      BY <3>3, MongoIsThere
    <3>5. t.kind = "postgres_dump" => HasURI \/ ~Empty(config.pg.host)
      BY <3>3, PostgresIsThere
    <3> HIDE DEF t
    <3>6. CASE t.kind = "arr_api"
      BY <3>2, <3>6 DEF Connect, URLError, t
    <3>7. CASE t.kind = "mongo_dump"
      BY <3>2, <3>4, <3>7 DEF Connect, MongoError
    <3>8. CASE t.kind = "postgres_dump"
      <4>1. reached[i] = PostgresError /\ PostgresError # "none"
        BY <3>2, <3>8 DEF Connect
      <4>2. HasURI \/ ~Empty(config.pg.host)
        BY <3>5, <3>8
      <4>3. CASE PostgresError = ConnectPostgres("").err
        <5>1. PostgresError = "password" /\ ~HasURI /\ config.pg.password = "unset"
          BY <4>1, <4>2, <4>3, PostgresErrors
        <5> QED BY <3>8, <4>1, <5>1 DEF t
      <4>4. CASE config.pg.all /\ \E db \in Databases :
                                   PostgresError = ConnectPostgres(db).err
        <5>1. \/ PostgresError = "password" /\ ~HasURI /\ config.pg.password = "unset"
              \/ PostgresError = "uri" /\ HasURI /\ ~config.pg.uri.parses
          BY <4>1, <4>2, <4>4, PostgresErrors
        <5> QED BY <3>8, <4>1, <4>4, <5>1 DEF t
      <4> QED BY <4>1, <4>3, <4>4, PostgresErrorOf
    <3>9. CASE t.kind \notin {"arr_api", "mongo_dump", "postgres_dump"}
      BY <3>2, <3>9 DEF Connect
    <3> QED BY <3>6, <3>7, <3>8, <3>9
  <2> QED BY <2>2, <2>3 DEF ResolvedIsComplete
<1> QED BY <1>1, InvHolds, PTL

(* A dump whose connections can be built has no error in any of them. *)
LEMMA NoPostgresError ==
  ASSUME PostgresError = "none"
  PROVE  /\ ConnectPostgres("").err = "none"
         /\ \A db \in DOMAIN DumpPostgres : DumpPostgres[db].err = "none"
<1> DEFINE first == ConnectPostgres("").err
           later == {DumpPostgres[db].err : db \in DOMAIN DumpPostgres} \ {"none"}
           pick == CHOOSE e \in later : TRUE
<1>1. first = "none"
  BY DEF PostgresError
<1>2. later = {}
  <2>1. SUFFICES ASSUME later # {} PROVE FALSE
    OBVIOUS
  <2>2. PostgresError = pick /\ pick \in later
    BY <1>1, <2>1 DEF PostgresError
  <2> QED BY <2>2
<1> QED BY <1>1, <1>2

(* Dumper.Dump: every dump of all databases connects to the database whose  *)
(* name its file gets, and a single one over a host to the configured one.  *)
THEOREM DumpsConnectRight == Spec => []DumpsWhatIsNamed
<1>1. Inv => DumpsWhatIsNamed
  <2> SUFFICES ASSUME Inv, NEW i \in 1..Len(reached), targets[i].kind = "postgres_dump",
                      reached[i] = "none"
               PROVE  IF config.pg.all
                      THEN \A db \in Databases : DumpPostgres[db] = Connection(db)
                      ELSE ~HasURI => DumpPostgres[""] = Connection(config.pg.db)
    BY DEF DumpsWhatIsNamed
  <2>1. i \in 1..Len(targets)
    <3>1. reached \in Seq(ConnectErrors) /\ targets \in Seq(Targets)
      BY DEF Inv, Typed, TypeOK
    <3>2. Len(reached) \in Nat /\ Len(targets) \in Nat
      BY <3>1
    <3>3. Len(reached) <= Len(targets)
      BY DEF Inv, Connecting
    <3> QED BY <3>2, <3>3
  <2>2. Connect(targets[i]) = "none" /\ Resolve(ids[i]).kind = "postgres_dump"
    BY <2>1 DEF Inv, Connecting, Resolving
  <2>3. HasURI \/ (~Empty(config.pg.host) /\ (config.pg.all \/ config.pg.db # "blank"))
    BY <2>2, PostgresIsThere
  <2>4. PostgresError = "none"
    <3> DEFINE t == targets[i]
    <3>1. Connect(t) = "none" /\ t.kind = "postgres_dump"
      BY <2>2
    <3> HIDE DEF t
    <3> QED BY <3>1 DEF Connect
  <2>5. /\ ConnectPostgres("").err = "none"
        /\ \A db \in DOMAIN DumpPostgres : DumpPostgres[db].err = "none"
    BY <2>4, NoPostgresError
  <2>6. CASE config.pg.all
    <3>1. DumpPostgres = [db \in Databases |-> ConnectPostgres(db)]
      BY <2>6 DEF DumpPostgres
    <3>2. ASSUME NEW db \in Databases PROVE ConnectPostgres(db) = Connection(db)
      <4>1. db # "" /\ db # NoName
        BY DatabasesAssumption
      <4>2. ConnectPostgres(db).err = "none"
        BY <2>5, <3>1
      <4>3. CASE HasURI
        <5>1. config.pg.uri.parses
          BY <4>1, <4>2, <4>3 DEF ConnectPostgres, NoConnection
        <5>2. ConnectPostgres(db) = Connection(DatabaseOf(Replace(config.pg.uri, db)))
          BY <4>1, <4>3, <5>1 DEF ConnectPostgres
        <5>3. DatabaseOf(Replace(config.pg.uri, db)) = db
          BY <4>1 DEF DatabaseOf, Replace
        <5> QED BY <5>2, <5>3
      <4>4. CASE ~HasURI
        <5>1. config.pg.password # "unset" /\ ~Empty(config.pg.host)
          BY <2>3, <4>2, <4>4 DEF ConnectPostgres, NoConnection
        <5> QED BY <4>1, <4>4, <5>1 DEF ConnectPostgres
      <4> QED BY <4>3, <4>4
    <3> QED BY <2>6, <3>1, <3>2
  <2>7. CASE ~config.pg.all
    <3>1. DumpPostgres = [db \in {""} |-> ConnectPostgres("")]
      BY <2>7 DEF DumpPostgres
    <3>2. ASSUME ~HasURI PROVE ConnectPostgres("") = Connection(config.pg.db)
      <4>1. config.pg.password # "unset"
        BY <2>3, <2>5, <3>2 DEF ConnectPostgres, NoConnection
      <4> QED BY <2>3, <2>7, <3>2, <4>1 DEF ConnectPostgres
    <3> QED BY <2>7, <3>1, <3>2
  <2> QED BY <2>6, <2>7
<1> QED BY <1>1, InvHolds, PTL

LEMMA MinIn ==
  ASSUME NEW S \in SUBSET Nat, S # {}
  PROVE  Min(S) \in S /\ \A y \in S : Min(S) <= y
  BY LeastExists DEF Min

(* parseBazarrAPIKey on a file whose own key is where it looks. *)
LEMMA OwnKeyIsFound ==
  ASSUME NEW es, Len(es) \in Nat,
         \A i, j \in 1..Len(es) : es[i].section = "auth" /\ es[j].section = "auth" => i = j,
         NEW k \in 1..Len(es), es[k].section = "auth", es[k].value \in {"plain", "quoted"},
         k = 1 \/ (es[k].first /\ es[k].value = "plain")
  PROVE  ParseKey(es) = "own"
<1> DEFINE AtHead(e) == e.section = "auth" /\ e.first /\ e.value \in {"plain", "nothing"}
           heads == {i \in 1..Len(es) : AtHead(es[i])}
           usable == {i \in 1..Len(es) : es[i].value # "quotes_only"}
<1>1. KeyOf(es[k]) = "own"
  BY DEF KeyOf
<1>2. heads \in SUBSET Nat /\ usable \in SUBSET Nat
  OBVIOUS
<1>3. CASE heads # {}
  <2>1. Min(heads) \in heads
    BY <1>2, <1>3, MinIn
  <2>2. Min(heads) = k
    BY <2>1
  <2>3. ParseKey(es) = KeyOf(es[Min(heads)])
    BY <1>3 DEF ParseKey
  <2> QED BY <1>1, <2>2, <2>3
<1>4. CASE heads = {}
  <2>1. k = 1
    <3>1. ~AtHead(es[k])
      BY <1>4
    <3> QED BY <3>1
  <2>2. k \in usable
    OBVIOUS
  <2>3. Min(usable) \in usable /\ Min(usable) <= k
    BY <1>2, <2>2, MinIn
  <2>4. Min(usable) = k
    BY <2>1, <2>3
  <2>5. ParseKey(es) = KeyOf(es[Min(usable)])
    BY <1>4, <2>2 DEF ParseKey
  <2> QED BY <1>1, <2>4, <2>5
<1> QED BY <1>3, <1>4

(* resolveAPITarget takes the key of the settings or the one that it found. *)
LEMMA KeyIsFrom ==
  ASSUME NEW id, Resolve(id).kind = "arr_api"
  PROVE  Resolve(id).key \in {"own", FoundKey(id)}
<1>1. Resolve(id) = ResolveAPI(id)
  <2>1. ResolveKomodo.kind # "arr_api" /\ ResolvePostgres.kind # "arr_api"
    BY DEF ResolveKomodo, ResolvePostgres, Resolved, Failed
  <2>2. ResolvePath(id).kind # "arr_api"
    BY DEF ResolvePath, Resolved, Failed
  <2> QED BY <2>1, <2>2 DEF Resolve
<1> DEFINE search == Empty(config.app[id].key) /\ ~Empty(config.app[id].mount)
           key == CASE config.app[id].key = "set" -> "own" [] search -> FoundKey(id)
                    [] OTHER -> ""
<1>2. ResolveAPI(id) = CASE search /\ key = "" -> Failed("key")
                         [] ~search /\ key = "" -> Failed("ErrMissingAPI")
                         [] key # "" /\ config.app[id].url = "unset" -> Failed("ErrMissingAPI")
                         [] key # "" /\ config.app[id].url # "unset"
                              /\ Empty(config.app[id].mount) -> Failed("ErrMissingBackupMount")
                         [] OTHER -> Resolved("arr_api", key)
  BY DEF ResolveAPI
<1>3. key \in {"own", FoundKey(id), ""}
  BY DEF Empty
<1> HIDE DEF key, search
<1> DEFINE failed == {Failed("key"), Failed("ErrMissingAPI"), Failed("ErrMissingBackupMount")}
<1>4. ResolveAPI(id) \in failed \cup {Resolved("arr_api", key)}
  BY <1>2
<1>5. key = "" => ResolveAPI(id) \in failed
  <2>1. CASE search
    BY <1>2, <2>1
  <2>2. CASE ~search
    BY <1>2, <2>2
  <2> QED BY <2>1, <2>2
<1>6. \A err : Failed(err).kind = "none"
  BY DEF Failed
<1>7. Resolved("arr_api", key).key = key
  BY DEF Resolved
<1>8. ResolveAPI(id) \notin failed
  BY <1>1, <1>6
<1>9. ResolveAPI(id) = Resolved("arr_api", key) /\ key # ""
  BY <1>4, <1>5, <1>8
<1> QED BY <1>1, <1>3, <1>7, <1>9

(* BazarrAPIKey: a Bazarr that is backed up over its API gets its own key   *)
(* whenever the first file that can be read has it unquoted at the head of  *)
(* its section, or as the first apikey of all.                              *)
THEOREM BazarrGetsItsKey == Spec => []KeyIsTheApps
<1>1. Inv => KeyIsTheApps
  <2> DEFINE readable == {i \in 1..Len(config.yaml) : config.yaml[i].readable}
             es == config.yaml[Min(readable)].entries
             Own(e) == e.section = "auth" /\ e.value \in {"plain", "quoted"}
             found == \E k \in 1..Len(es) :
                        Own(es[k]) /\ (k = 1 \/ (es[k].first /\ es[k].value = "plain"))
  <2>0. readable \in SUBSET Nat
    OBVIOUS
  <2> SUFFICES ASSUME Inv, NEW i \in 1..Len(targets), targets[i].id = "bazarr",
                      targets[i].kind = "arr_api", readable # {}, found
               PROVE  targets[i].key = "own"
    BY DEF KeyIsTheApps
  <2>1. config.yaml \in Seq(Files)
    BY ConfigurationsAssumption DEF Inv, Typed
  <2>2. Min(readable) \in readable
    <3> HIDE DEF readable
    <3> QED BY <2>0, MinIn
  <2>3. config.yaml[Min(readable)] \in Files
    <3> DEFINE y == config.yaml  m == Min(readable)
    <3>1. m \in 1..Len(y)
      BY <2>2
    <3>2. y \in Seq(Files)
      BY <2>1
    <3> HIDE DEF y, m, readable, es, found
    <3>3. y[m] \in Files
      BY <3>1, <3>2
    <3> QED BY <3>3 DEF y, m
  <2>4. /\ es \in Seq(Entries)
        /\ \A m, n \in 1..Len(es) : es[m].section = "auth" /\ es[n].section = "auth" => m = n
    BY <2>3 DEF Files
  <2> HIDE DEF es
  <2>5. Len(es) \in Nat
    <3>1. es \in Seq(Entries)
      BY <2>4
    <3> QED BY <3>1
  <2>6. ParseKey(es) = "own"
    BY <2>4, <2>5, OwnKeyIsFound
  <2>7. BazarrKey(config.yaml) = "own"
    BY <2>6 DEF BazarrKey, es
  <2>8. Resolve("bazarr").kind = "arr_api" /\ targets[i].key = Resolve("bazarr").key
    BY DEF Inv, Resolving
  <2> QED BY <2>7, <2>8, KeyIsFrom DEF FoundKey
<1> QED BY <1>1, InvHolds, PTL

=============================================================================
