---------------------------- MODULE DaemonProofs ----------------------------
(***************************************************************************)
(* What a process that serves has made sure of, for every host it may be   *)
(* started on: every worker.yaml, presets file, GPU and payment daemon.    *)
(*                                                                         *)
(* The invariant follows run from place to place: what each check of the   *)
(* startup established still holds in every later one.                     *)
(*                                                                         *)
(* The last part is about the encoders the process runs, the module        *)
(* Encoders, which shares no state with the startup.                       *)
(***************************************************************************)
EXTENDS Daemon, Encoders, FiniteSetTheorems, WellFoundedInduction, TLAPS

------------------------------------------------------------------------------
(* Lemmas about the catalogue's operators. *)

(* Every nonempty set of naturals has a least element. *)
LEMMA LeastNumber ==
  ASSUME NEW T, T \subseteq Nat, T # {}
  PROVE  \E x \in T : \A y \in T : x <= y
<1> DEFINE R == OpToRel(<, Nat)
<1>1. IsWellFoundedOn(R, Nat) BY NatLessThanWellFounded, Zenon
<1>2. \A x, y \in Nat : y < x => <<y, x>> \in R BY DEF OpToRel
<1> HIDE DEF R
<1>3. PICK x \in T : \A y \in T : ~(<<y, x>> \in R) BY <1>1, WFMin
<1>4. \A y \in T : ~(y < x) BY <1>2, <1>3
<1>5. \A y \in T : x <= y BY <1>4
<1>6. QED BY <1>5

(* The first of some positions is one of them. *)
LEMMA FirstIsOne ==
  ASSUME NEW s, NEW K, K \subseteq Nat, K # {}
  PROVE  \E k \in K : First(s, K) = s[k]
<1> DEFINE k == CHOOSE k \in K : \A i \in K : k <= i
<1>1. k \in K BY LeastNumber
<1>2. First(s, K) = s[k] BY DEF First
<1> HIDE DEF k
<1>3. QED BY <1>1, <1>2

(* The first of one position. *)
LEMMA FirstOfOne ==
  ASSUME NEW s, NEW k \in Nat
  PROVE  First(s, {k}) = s[k]
<1>1. PICK i \in {k} : First(s, {k}) = s[i] BY FirstIsOne
<1>2. QED BY <1>1

(* f is the prefix by prefix result of keeping the positions K of s, up to *)
(* the prefix of length m.                                                 *)
Keeps(s, K, m, f) ==
  f = [n \in 0..m |->
         IF n = 0 THEN <<>>
         ELSE IF n \in K THEN Append(f[n - 1], s[n]) ELSE f[n - 1]]

(* The equations of such a function. *)
LEMMA KeepsEquations ==
  ASSUME NEW s, NEW K, NEW m \in Nat, NEW f, Keeps(s, K, m, f)
  PROVE  /\ f[0] = <<>>
         /\ \A n \in 1..m : f[n] = IF n \in K THEN Append(f[n - 1], s[n])
                                              ELSE f[n - 1]
<1>1. \A n \in 0..m : f[n] = IF n = 0 THEN <<>>
                             ELSE IF n \in K THEN Append(f[n - 1], s[n])
                                             ELSE f[n - 1]
  BY DEF Keeps
<1>2. 0 \in 0..m /\ \A n \in 1..m : n \in 0..m /\ n # 0 OBVIOUS
<1>3. QED BY <1>1, <1>2, Zenon

(* There is one, by induction on the length. *)
LEMMA KeepsExist ==
  ASSUME NEW s, NEW K, NEW m \in Nat
  PROVE  \E f : Keeps(s, K, m, f)
<1> DEFINE Body(f, n) == IF n = 0 THEN <<>>
                         ELSE IF n \in K THEN Append(f[n - 1], s[n]) ELSE f[n - 1]
           P(n) == \E f : f = [i \in 0..n |-> Body(f, i)]
           T == {n \in Nat : ~P(n)}
<1>1. P(0)
  <2> DEFINE f == [i \in 0..0 |-> <<>>]
  <2>1. \A i \in 0..0 : i = 0 OBVIOUS
  <2>2. \A i \in 0..0 : <<>> = Body(f, i) BY <2>1, Zenon
  <2>3. f = [i \in 0..0 |-> Body(f, i)]
    <3> HIDE DEF Body
    <3>1. QED BY <2>2
  <2>4. QED BY <2>3
<1>2. ASSUME NEW n \in Nat, P(n) PROVE P(n + 1)
  <2>1. PICK f : f = [i \in 0..n |-> Body(f, i)] BY <1>2
  <2> DEFINE h == [i \in 0..(n + 1) |-> Body(f, i)]
  <2>2. \A i \in 0..n : i \in 0..(n + 1) OBVIOUS
  <2>3. \A i \in 0..n : h[i] = f[i]
    <3>1. \A i \in 0..n : f[i] = Body(f, i) BY <2>1, Zenon
    <3>2. \A i \in 0..(n + 1) : h[i] = Body(f, i) BY Zenon
    <3>3. QED BY <2>2, <3>1, <3>2, Zenon
  <2>4. \A i \in 0..(n + 1) : i # 0 => i - 1 \in 0..n OBVIOUS
  <2>5. \A i \in 0..(n + 1) : Body(f, i) = Body(h, i) BY <2>3, <2>4, Zenon
  <2>6. h = [i \in 0..(n + 1) |-> Body(h, i)]
    <3> HIDE DEF Body
    <3>1. QED BY <2>5
  <2>7. QED BY <2>6
<1> HIDE DEF P
<1>3. \A n \in Nat : P(n)
  <2> SUFFICES ASSUME T # {} PROVE FALSE OBVIOUS
  <2>1. PICK n \in T : \A i \in T : n <= i BY LeastNumber
  <2>2. n \in Nat /\ n # 0 BY <1>1, <2>1
  <2>3. n - 1 \in Nat /\ n - 1 \notin T BY <2>1, <2>2
  <2>4. P(n - 1) BY <2>3
  <2>5. P(n - 1 + 1) BY <1>2, <2>3, <2>4
  <2>6. n - 1 + 1 = n BY <2>2
  <2>7. P(n) BY <2>5, <2>6
  <2>8. QED BY <2>1, <2>7
<1>4. P(m) BY <1>3
<1>5. PICK f : f = [i \in 0..m |-> Body(f, i)] BY <1>4 DEF P
<1>6. Keeps(s, K, m, f) BY <1>5 DEF Keeps
<1>7. QED BY <1>6

(* Keep is the value of one. *)
LEMMA KeepIs ==
  ASSUME NEW s, NEW K, Len(s) \in Nat
  PROVE  \E f : Keeps(s, K, Len(s), f) /\ Keep(s, K) = f[Len(s)]
<1> DEFINE f == CHOOSE g : Keeps(s, K, Len(s), g)
<1>1. Keep(s, K) = f[Len(s)] BY DEF Keep, Keeps
<1>2. Keeps(s, K, Len(s), f) BY KeepsExist
<1>3. QED BY <1>1, <1>2

(* Keep keeps nothing but what is at the positions it is given. *)
LEMMA KeepIsPart ==
  ASSUME NEW S, NEW s \in Seq(S), NEW K
  PROVE  Keep(s, K) \in Seq({s[i] : i \in {j \in DOMAIN s : j \in K}})
<1> DEFINE V == {s[i] : i \in {j \in DOMAIN s : j \in K}}
<1>1. Len(s) \in Nat /\ DOMAIN s = 1..Len(s) OBVIOUS
<1>2. PICK f : Keeps(s, K, Len(s), f) /\ Keep(s, K) = f[Len(s)] BY <1>1, KeepIs
<1>3. /\ f[0] = <<>>
      /\ \A n \in 1..Len(s) : f[n] = IF n \in K THEN Append(f[n - 1], s[n])
                                                ELSE f[n - 1]
  BY <1>1, <1>2, KeepsEquations
<1> DEFINE T == {n \in 0..Len(s) : f[n] \notin Seq(V)}
<1>4. \A n \in 1..Len(s) : n \in K => s[n] \in V BY <1>1
<1> HIDE DEF V
<1>5. \A n \in 0..Len(s) : f[n] \in Seq(V)
  <2> SUFFICES ASSUME T # {} PROVE FALSE OBVIOUS
  <2>1. T \subseteq Nat BY <1>1
  <2>2. PICK n \in T : \A i \in T : n <= i BY <2>1, LeastNumber
  <2>3. n \in 0..Len(s) /\ f[n] \notin Seq(V) BY <2>2
  <2>4. n # 0
    <3>1. <<>> \in Seq(V) OBVIOUS
    <3>2. QED BY <1>3, <2>3, <3>1
  <2>5. n \in 1..Len(s) /\ n - 1 \in 0..Len(s) /\ ~(n <= n - 1) BY <1>1, <2>3, <2>4
  <2>6. f[n - 1] \in Seq(V) BY <2>2, <2>5
  <2>7. n \in K => Append(f[n - 1], s[n]) \in Seq(V) BY <1>4, <2>5, <2>6
  <2>8. f[n] \in Seq(V) BY <1>3, <2>5, <2>6, <2>7
  <2>9. QED BY <2>3, <2>8
<1>6. QED BY <1>1, <1>2, <1>5 DEF V
------------------------------------------------------------------------------
(* Lemmas about the catalogue. *)

(* What the checks of worker.yaml leave: no two capabilities of a name, no *)
(* two offerings of an id in one of them, no offering without an id.       *)
SoundCaps(caps) ==
  /\ \A i, k \in DOMAIN caps : caps[i].name = caps[k].name => i = k
  /\ \A i \in DOMAIN caps : \A k \in DOMAIN caps[i].offerings :
       /\ caps[i].offerings[k].id # Unset
       /\ \A j \in DOMAIN caps[i].offerings :
            caps[i].offerings[k].id = caps[i].offerings[j].id => k = j

(* A text that is not blank is set. *)
LEMMA TrimmedIsSet ==
  ASSUME NEW text, TrimSpace(text) # Unset
  PROVE  text # Unset
BY Zenon DEF TrimSpace

(* A file that passes the checks has a sound catalogue. *)
LEMMA CheckedIsSound ==
  ASSUME NEW f, validateSharedConfig(f)
  PROVE  SoundCaps(f.caps)
<1>1. \A i, k \in DOMAIN f.caps : f.caps[i].name = f.caps[k].name => i = k
  BY Zenon DEF validateSharedConfig, Distinct
<1>2. ASSUME NEW i \in DOMAIN f.caps, NEW k \in DOMAIN f.caps[i].offerings
      PROVE  /\ f.caps[i].offerings[k].id # Unset
             /\ \A j \in DOMAIN f.caps[i].offerings :
                  f.caps[i].offerings[k].id = f.caps[i].offerings[j].id => k = j
  <2>1. validateCapability(f.caps[i]) BY Zenon DEF validateSharedConfig
  <2>2. validateOffering(f.caps[i].offerings[k])
    BY <2>1, Zenon DEF validateCapability
  <2>3. f.caps[i].offerings[k].id # Unset
    BY <2>2, TrimmedIsSet, Zenon DEF validateOffering
  <2>4. \A j \in DOMAIN f.caps[i].offerings :
          f.caps[i].offerings[k].id = f.caps[i].offerings[j].id => k = j
    BY <2>1, Zenon DEF validateCapability, Distinct
  <2>5. QED BY <2>3, <2>4
<1>3. QED BY <1>1, <1>2, Zenon DEF SoundCaps

(* The binding a request on a sound catalogue gets for a row of            *)
(* /registry/offerings is that row.                                        *)
LEMMA RowResolves ==
  ASSUME NEW caps \in Seq(Capability), SoundCaps(caps),
         NEW row \in handleRegistryOfferings(caps)
  PROVE  resolveSessionBinding(caps, row.name, row.offering, Unset) = {row}
<1>0. PICK i \in DOMAIN caps : \E k \in DOMAIN caps[i].offerings :
        row = [name |-> caps[i].name, unit |-> caps[i].unit,
               offering |-> caps[i].offerings[k].id,
               price |-> caps[i].offerings[k].price]
  BY Zenon DEF handleRegistryOfferings
<1>1. PICK k \in DOMAIN caps[i].offerings :
        row = [name |-> caps[i].name, unit |-> caps[i].unit,
               offering |-> caps[i].offerings[k].id,
               price |-> caps[i].offerings[k].price]
  BY <1>0
<1> DEFINE c == caps[i]
           o == c.offerings[k]
<1>2. i \in Nat /\ k \in Nat
  <2>1. c \in Capability OBVIOUS
  <2>2. c.offerings \in Seq(Offering) BY <2>1 DEF Capability
  <2>3. QED BY <2>2
<1>3. /\ row.name = c.name /\ row.unit = c.unit
      /\ row.offering = o.id /\ row.price = o.price
  BY <1>1
<1>4. {j \in DOMAIN caps : caps[j].name = row.name} = {i}
  BY <1>1, <1>3, Zenon DEF SoundCaps
<1>5. First(caps, {i}) = c BY <1>2, FirstOfOne
<1>6. {j \in DOMAIN c.offerings : c.offerings[j].id = row.offering} = {k}
  BY <1>1, <1>3, Zenon DEF SoundCaps
<1>7. First(c.offerings, {k}) = o BY <1>2, FirstOfOne
<1>8. row.offering # Unset BY <1>3, Zenon DEF SoundCaps
<1> HIDE DEF c, o
<1>9. resolveOffering(c, row.offering, Unset) = {o}
  <2>1. {k} # {} OBVIOUS
  <2>2. QED BY <1>6, <1>7, <1>8, <2>1, Zenon DEF resolveOffering, Where
<1>10. resolveSessionBinding(caps, row.name, row.offering, Unset) =
         {[name |-> c.name, unit |-> c.unit, offering |-> x.id, price |-> x.price] :
            x \in {o}}
  <2>1. {i} # {} OBVIOUS
  <2>2. QED BY <1>4, <1>5, <1>9, <2>1, Zenon DEF resolveSessionBinding, Where
<1>11. row = [name |-> c.name, unit |-> c.unit, offering |-> o.id, price |-> o.price]
  BY <1>1 DEF c, o
<1>12. QED BY <1>10, <1>11

(* Whatever a request asks for, what it gets is an offering of the worker. *)
LEMMA BindingIsOffered ==
  ASSUME NEW caps \in Seq(Capability), NEW name, NEW requested, NEW hint,
         NEW b \in resolveSessionBinding(caps, name, requested, hint)
  PROVE  \E i \in DOMAIN caps : /\ b.name = caps[i].name /\ b.unit = caps[i].unit
                                /\ b.offering \in IdsOf(caps[i])
<1> DEFINE K == {k \in DOMAIN caps : caps[k].name = name}
<1>1. K # {} BY Zenon DEF resolveSessionBinding, Where
<1>2. K \subseteq Nat /\ K \subseteq DOMAIN caps OBVIOUS
<1>3. PICK i \in K : First(caps, K) = caps[i] BY <1>1, <1>2, FirstIsOne, Zenon
<1> DEFINE c == caps[i]
<1>4. PICK o \in resolveOffering(c, requested, hint) :
        b = [name |-> c.name, unit |-> c.unit, offering |-> o.id, price |-> o.price]
  BY <1>1, <1>3, Zenon DEF resolveSessionBinding, Where
<1>5. c.offerings \in Seq(Offering)
  <2>1. c \in Capability BY <1>2
  <2>2. QED BY <2>1 DEF Capability
<1> DEFINE N == {k \in DOMAIN c.offerings : c.offerings[k].id = requested}
           H == {k \in DOMAIN c.offerings :
                   hint \in {c.offerings[k].id, c.offerings[k].preset}}
<1>6. /\ N \subseteq Nat /\ N \subseteq DOMAIN c.offerings
      /\ H \subseteq Nat /\ H \subseteq DOMAIN c.offerings
      /\ Len(c.offerings) = 1 => 1 \in DOMAIN c.offerings
  BY <1>5
<1>7. \/ N # {} /\ o = First(c.offerings, N)
      \/ H # {} /\ o = First(c.offerings, H)
      \/ Len(c.offerings) = 1 /\ o = c.offerings[1]
  BY <1>4, Zenon DEF resolveOffering, Where
<1> HIDE DEF N, H, c
<1>8. \E k \in DOMAIN c.offerings : o = c.offerings[k]
  BY <1>6, <1>7, FirstIsOne, Zenon
<1>9. b.offering \in IdsOf(c) BY <1>4, <1>8 DEF IdsOf
<1>10. QED BY <1>2, <1>4, <1>9 DEF c

ListedCapability ==
  [name : STRING, unit : STRING, offerings : Seq([id : STRING, price : PriceInfo])]

(* What the client hands on has the names, units and ids the daemon lists. *)
LEMMA ListedIsSame ==
  ASSUME NEW caps, NEW k \in DOMAIN Listed(caps),
         \A i \in DOMAIN caps :
           caps[i] \in ListedCapability
  PROVE  /\ k \in DOMAIN caps
         /\ Listed(caps)[k].name = caps[k].name
         /\ Listed(caps)[k].unit = caps[k].unit
         /\ IdsOf(Listed(caps)[k]) = IdsOf(caps[k])
<1>1. k \in DOMAIN caps BY DEF Listed
<1> DEFINE rows == [j \in DOMAIN caps[k].offerings |->
                      [id |-> caps[k].offerings[j].id,
                       price |-> priceInfoToWei(caps[k].offerings[j].price)]]
<1>2. Listed(caps)[k] = [caps[k] EXCEPT !.offerings = rows]
  BY <1>1 DEF Listed
<1> HIDE DEF rows
<1>3. /\ Listed(caps)[k].name = caps[k].name
      /\ Listed(caps)[k].unit = caps[k].unit
      /\ Listed(caps)[k].offerings = rows
  BY <1>1, <1>2 DEF ListedCapability
<1>4. /\ DOMAIN rows = DOMAIN caps[k].offerings
      /\ \A j \in DOMAIN rows : rows[j].id = caps[k].offerings[j].id
  BY DEF rows
<1>5. IdsOf(Listed(caps)[k]) = IdsOf(caps[k])
  BY <1>3, <1>4, Zenon DEF IdsOf
<1>6. QED BY <1>1, <1>3, <1>5

(* A worker whose catalogue the daemon lists too sells nothing else. *)
LEMMA BindingIsListed ==
  ASSUME NEW caps \in Seq(Capability), NEW listed,
         \A i \in DOMAIN listed : listed[i] \in ListedCapability,
         verifyPaymentDaemonCatalog(caps, Listed(listed)),
         NEW name, NEW requested, NEW hint,
         NEW b \in resolveSessionBinding(caps, name, requested, hint)
  PROVE  \E k \in DOMAIN listed : /\ listed[k].name = b.name
                                  /\ listed[k].unit = b.unit
                                  /\ b.offering \in IdsOf(listed[k])
<1>1. PICK i \in DOMAIN caps : /\ b.name = caps[i].name /\ b.unit = caps[i].unit
                               /\ b.offering \in IdsOf(caps[i])
  BY BindingIsOffered
<1>2. PICK k \in DOMAIN Listed(listed) :
        /\ Listed(listed)[k].name = caps[i].name
        /\ Listed(listed)[k].unit = caps[i].unit
        /\ IdsOf(Listed(listed)[k]) = IdsOf(caps[i])
  BY <1>1, Zenon DEF verifyPaymentDaemonCatalog
<1>3. /\ k \in DOMAIN listed
      /\ Listed(listed)[k].name = listed[k].name
      /\ Listed(listed)[k].unit = listed[k].unit
      /\ IdsOf(Listed(listed)[k]) = IdsOf(listed[k])
  BY <1>2, ListedIsSame
<1>4. QED BY <1>1, <1>2, <1>3

------------------------------------------------------------------------------
(* Lemmas about the presets. *)

Hard == {"nvidia", "intel", "amd"}

(* A ladder is a part of the presets, and every rung of it suits the GPU. *)
LEMMA LadderSuits ==
  ASSUME presets \in Seq(Preset), ParseBytes(presets)
  PROVE  /\ liveLadder \in Seq(Preset)
         /\ \A k \in DOMAIN liveLadder : /\ ValidPreset(liveLadder[k])
                                         /\ Supported(liveLadder[k])
<1> DEFINE V == {p \in Preset : ValidPreset(p) /\ Supported(p)}
           K == {k \in DOMAIN presets : Supported(presets[k])}
           fit == Keep(presets, K)
           L == {k \in DOMAIN fit : fit[k].live}
           tagged == Keep(fit, L)
<1>1. \A k \in K : presets[k] \in V
  BY DEF ParseBytes
<1>2. fit \in Seq({presets[i] : i \in {j \in DOMAIN presets : j \in K}})
  BY KeepIsPart
<1>3. {presets[i] : i \in {j \in DOMAIN presets : j \in K}} \subseteq V BY <1>1
<1> HIDE DEF V
<1>4. fit \in Seq(V)
  <2> HIDE DEF fit
  <2>1. QED BY <1>2, <1>3
<1> HIDE DEF fit
<1>5. tagged \in Seq({fit[i] : i \in {j \in DOMAIN fit : j \in L}})
  BY <1>4, KeepIsPart
<1>6. {fit[i] : i \in {j \in DOMAIN fit : j \in L}} \subseteq V BY <1>4
<1>7. tagged \in Seq(V)
  <2> HIDE DEF tagged
  <2>1. QED BY <1>5, <1>6
<1>8. liveLadder = IF tagged # <<>> THEN tagged ELSE fit
  BY DEF liveLadder, Filter, Where, fit
<1> HIDE DEF tagged
<1>9. liveLadder \in Seq(V) BY <1>4, <1>7, <1>8
<1>10. liveLadder \in Seq(Preset)
  <2>1. V \subseteq Preset BY DEF V
  <2>2. QED BY <1>9, <2>1
<1>11. \A k \in DOMAIN liveLadder : liveLadder[k] \in V BY <1>9
<1>12. QED BY <1>10, <1>11, Zenon DEF V

(* A rung the GPU supports is encoded by the GPU. *)
LEMMA RungIsHard ==
  ASSUME NEW p, ValidPreset(p), Supported(p), gpu.vendor \in Hard
  PROVE  /\ codecFlag(p.codec, gpu.vendor) \in EncodersOf(gpu)
         /\ codecFlag(p.codec, gpu.vendor)[2] # "lib"
<1>1. p.codec \in Codecs BY Zenon DEF ValidPreset
<1>2. codecFlag(p.codec, gpu.vendor)[2] # "lib" BY <1>1 DEF codecFlag, Hard
<1>3. codecFlag(p.codec, gpu.vendor) \in EncodersOf(gpu)
  BY Zenon DEF Supported, EncodersOf
<1>4. QED BY <1>2, <1>3

(* A video codec and an audio codec are two. *)
LEMMA TwoCodecs ==
  ASSUME NEW codec \in Codecs
  PROVE  Cardinality(CodecsAttribute(codec)) = 2
<1>1. \A v : v # "mp4a" => Cardinality({v, "mp4a"}) = 2
  <2> SUFFICES ASSUME NEW v, v # "mp4a" PROVE Cardinality({v, "mp4a"}) = 2 OBVIOUS
  <2>1. IsFiniteSet({v}) /\ Cardinality({v}) = 1 BY FS_Singleton
  <2>2. {v, "mp4a"} = {v} \cup {"mp4a"} /\ "mp4a" \notin {v} OBVIOUS
  <2>3. QED BY <2>1, <2>2, FS_AddElement
<1>2. \E v \in {"avc1", "hvc1", "av01"} : CodecsAttribute(codec) = {v, "mp4a"}
  BY DEF CodecsAttribute, Codecs
<1>3. QED BY <1>1, <1>2

(* A master playlist names exactly what the live encoder writes. *)
LEMMA MasterNamesOutputs ==
  ASSUME NEW rungs, \A k \in DOMAIN rungs : rungs[k].codec \in Codecs,
         NEW m \in BuildMaster(Renditions(rungs))
  PROVE  /\ {m[k].uri : k \in DOMAIN m} =
              {BuildLiveArgs(rungs)[k].out : k \in DOMAIN BuildLiveArgs(rungs)}
         /\ \A k \in DOMAIN m : Cardinality(m[k].codecs) = 2
<1> DEFINE D == DOMAIN rungs
           r == Renditions(rungs)
           Playlist(p) == <<p.codec, p.name, "playlist.m3u8">>
<1>1. /\ DOMAIN r = D
      /\ \A k \in D : /\ r[k].uri = Playlist(rungs[k])
                      /\ r[k].codecs = CodecsAttribute(rungs[k].codec)
  BY DEF Renditions
<1>2. /\ DOMAIN BuildLiveArgs(rungs) = D
      /\ \A k \in D : BuildLiveArgs(rungs)[k].out = Playlist(rungs[k])
  BY DEF BuildLiveArgs
<1> HIDE DEF r, Playlist
<1>3. PICK order \in Bijection(D, D) : m = [k \in D |-> r[order[k]]]
  BY <1>1, Zenon DEF BuildMaster, r
<1>4. /\ \A k \in D : order[k] \in D
      /\ \A j \in D : \E k \in D : order[k] = j
  BY <1>3 DEF Bijection, Injection, Surjection
<1>5. DOMAIN m = D /\ \A k \in D : m[k] = r[order[k]] BY <1>3
<1>6. \A k \in D : m[k].uri = Playlist(rungs[order[k]]) BY <1>1, <1>4, <1>5
<1>7. {m[k].uri : k \in D} = {Playlist(rungs[k]) : k \in D}
  <2>1. \A k \in D : m[k].uri \in {Playlist(rungs[j]) : j \in D}
    BY <1>4, <1>6, Zenon
  <2>2. ASSUME NEW j \in D PROVE Playlist(rungs[j]) \in {m[k].uri : k \in D}
    <3>1. PICK k \in D : order[k] = j BY <1>4
    <3>2. m[k].uri = Playlist(rungs[j]) BY <1>6, <3>1
    <3>3. QED BY <3>2, Zenon
  <2>3. QED BY <2>1, <2>2, Zenon
<1>8. {BuildLiveArgs(rungs)[k].out : k \in D} = {Playlist(rungs[k]) : k \in D}
  BY <1>2, Zenon
<1>9. ASSUME NEW k \in D PROVE Cardinality(m[k].codecs) = 2
  <2>1. m[k].codecs = CodecsAttribute(rungs[order[k]].codec) BY <1>1, <1>4, <1>5
  <2>2. rungs[order[k]].codec \in Codecs BY <1>4
  <2>3. QED BY <2>1, <2>2, TwoCodecs, Zenon
<1>10. QED BY <1>2, <1>5, <1>7, <1>8, <1>9, Zenon

------------------------------------------------------------------------------
(* The invariant: what run has established where it is. *)

Started == {"serving", "stopping", "live", "wait"}

(* worker.yaml has been read, if there is one. *)
CapsRead ==
  /\ host \in Hosts
  /\ at = "flags" => cfg = host.flags
  /\ at \notin {"flags", "exited"} =>
       cfg.caps \in Seq(Capability) /\ SoundCaps(cfg.caps)

(* Validate has passed: --dev has no payment socket. *)
FlagsChecked ==
  at \notin {"flags", "config", "exited"} =>
    ~(cfg.dev /\ cfg.paymentSocket # Unset)

(* Preflight has found a GPU. *)
GPUFound ==
  at \notin {"flags", "config", "preflight", "exited"} => gpu.vendor \in Hard

(* The presets have been loaded. *)
PresetsLoaded ==
  /\ presets \in Seq(Preset)
  /\ at \in {"payment", "runners", "surfaces"} \cup Started => ParseBytes(presets)

(* The catalogues have been compared. *)
CataloguesAgree ==
  at \in {"runners", "surfaces"} \cup Started =>
    \/ cfg.paymentSocket = Unset
    \/ verifyPaymentDaemonCatalog(cfg.caps, Listed(host.daemon.caps))

(* The ladder has been made, or there is none. *)
LadderMade ==
  /\ at \notin {"surfaces", "exited"} \cup Started => ladder = <<>>
  /\ at \in {"surfaces"} \cup Started =>
       \A k \in DOMAIN ladder : ValidPreset(ladder[k]) /\ Supported(ladder[k])

IInv ==
  /\ at \in Places
  /\ CapsRead /\ FlagsChecked /\ GPUFound /\ PresetsLoaded /\ CataloguesAgree
  /\ LadderMade

(* What is known of a host. *)
LEMMA HostFacts ==
  ASSUME NEW h \in Hosts
  PROVE  /\ h.flags \in Config /\ h.flags.caps = <<>>
         /\ h.file.caps \in Seq(Capability)
         /\ h.presets \in Seq(Preset)
         /\ \A i \in DOMAIN h.daemon.caps : h.daemon.caps[i] \in ListedCapability
<1>1. h \in Host /\ h.flags.caps = <<>> BY DaemonAssumption
<1>2. h.flags \in Config /\ h.file \in SharedConfig /\ h.presets \in Seq(Preset)
  BY <1>1 DEF Host
<1>3. h.file.caps \in Seq(Capability) BY <1>2 DEF SharedConfig
<1>4. h.daemon.caps \in Seq(ListedCapability) BY <1>1 DEF Host, ListedCapability
<1>5. \A i \in DOMAIN h.daemon.caps : h.daemon.caps[i] \in ListedCapability
  BY <1>4
<1>6. QED BY <1>1, <1>2, <1>3, <1>5

(* Nothing has been made sure of before the flags are read. *)
LEMMA InitIInv == Init => IInv
<1> SUFFICES ASSUME Init PROVE IInv OBVIOUS
<1>1. at = "flags" /\ host \in Hosts /\ cfg = host.flags /\ presets = <<>>
      /\ ladder = <<>>
  BY DEF Init
<1>2. at \in Places BY <1>1 DEF Places
<1>3. presets \in Seq(Preset) BY <1>1
<1>4. QED
  BY <1>1, <1>2, <1>3 DEF IInv, CapsRead, FlagsChecked, GPUFound, PresetsLoaded,
     CataloguesAgree, LadderMade, Started

(* A process that has exited has no more to make sure of. *)
LEMMA ExitPreserves ==
  ASSUME IInv, at' = "exited", host' = host, presets' \in Seq(Preset)
  PROVE  IInv'
BY DEF IInv, CapsRead, FlagsChecked, GPUFound, PresetsLoaded, CataloguesAgree,
       LadderMade, Started, Places

(* A step of the services, or of lifecycle.Run, that stays among the       *)
(* places of a process that was started.                                   *)
LEMMA StayPreserves ==
  ASSUME IInv, UNCHANGED <<host, cfg, gpu, presets, ladder>>,
         \/ at' = at
         \/ at \in {"surfaces"} \cup Started /\ at' \in Started
  PROVE  IInv'
<1>1. at' \in Places BY DEF IInv, Places, Started
<1>2. CapsRead' BY DEF IInv, CapsRead, Started
<1>3. FlagsChecked' BY DEF IInv, FlagsChecked, Started
<1>4. GPUFound' BY DEF IInv, GPUFound, Started
<1>5. PresetsLoaded' BY DEF IInv, PresetsLoaded, Started
<1>6. CataloguesAgree' BY DEF IInv, CataloguesAgree, Started
<1>7. LadderMade' BY DEF IInv, LadderMade, Started, Supported
<1>8. QED BY <1>1, <1>2, <1>3, <1>4, <1>5, <1>6, <1>7 DEF IInv

(* The catalogue of a process is worker.yaml's, checked, or empty. *)
LEMMA LoadSharedWorkerPreserves ==
  ASSUME IInv, LoadSharedWorker
  PROVE  IInv'
<1>1. /\ at = "flags" /\ UNCHANGED <<host, gpu, presets, ladder>>
      /\ host \in Hosts /\ cfg = host.flags
      /\ presets \in Seq(Preset) /\ ladder = <<>>
  BY DEF LoadSharedWorker, IInv, CapsRead, PresetsLoaded, LadderMade, Started
<1>2. /\ host.flags \in Config /\ host.flags.caps = <<>>
      /\ host.file.caps \in Seq(Capability)
  BY <1>1, HostFacts
<1>3. ASSUME at' = "config", cfg'.caps \in Seq(Capability), SoundCaps(cfg'.caps)
      PROVE  IInv'
  <2>1. CapsRead' BY <1>1, <1>3 DEF CapsRead
  <2>2. QED
    BY <1>1, <1>3, <2>1 DEF IInv, FlagsChecked, GPUFound, PresetsLoaded,
       CataloguesAgree, LadderMade, Started, Places
<1>4. CASE Step("config") /\ UNCHANGED cfg
  <2>1. cfg'.caps = <<>> BY <1>1, <1>2, <1>4
  <2>2. SoundCaps(<<>>) BY DEF SoundCaps
  <2>3. <<>> \in Seq(Capability) OBVIOUS
  <2>4. QED BY <1>3, <1>4, <2>1, <2>2, <2>3 DEF Step
<1>5. CASE /\ validateSharedConfig(host.file) /\ Step("config")
           /\ cfg' = Over(projectSharedConfig(host.file))
  <2>1. cfg'.caps = host.file.caps
    BY <1>1, <1>2, <1>5 DEF Over, projectSharedConfig, Config
  <2>2. SoundCaps(host.file.caps) BY <1>5, CheckedIsSound
  <2>3. QED BY <1>2, <1>3, <1>5, <2>1, <2>2 DEF Step
<1>6. CASE Exit(2) BY <1>1, <1>6, ExitPreserves DEF Exit
<1>7. QED BY <1>4, <1>5, <1>6 DEF LoadSharedWorker

(* Validate lets no --dev process with a payment socket pass. *)
LEMMA ValidatePreserves ==
  ASSUME IInv, Validate
  PROVE  IInv'
<1>1. /\ at = "config" /\ UNCHANGED <<host, cfg, gpu, presets, ladder>>
      /\ presets \in Seq(Preset) /\ CapsRead /\ ladder = <<>>
  BY DEF Validate, made, IInv, PresetsLoaded, LadderMade, Started
<1>2. CASE Valid /\ Step("preflight")
  <2>1. at' = "preflight" /\ ~(cfg.dev /\ cfg.paymentSocket # Unset)
    BY <1>2, Zenon DEF Valid, Step
  <2>2. CapsRead' /\ FlagsChecked' BY <1>1, <2>1 DEF CapsRead, FlagsChecked
  <2>3. QED
    BY <1>1, <2>1, <2>2 DEF IInv, GPUFound, PresetsLoaded,
       CataloguesAgree, LadderMade, Started, Places
<1>3. CASE Exit(2) BY <1>1, <1>3, ExitPreserves DEF Exit
<1>4. QED BY <1>2, <1>3 DEF Validate

(* Whatever the probes say, a process that goes on has a GPU. *)
LEMMA PreflightPreserves ==
  ASSUME IInv, Preflight
  PROVE  IInv'
<1>1. /\ at = "preflight" /\ UNCHANGED <<host, cfg, presets, ladder>>
      /\ presets \in Seq(Preset) /\ CapsRead /\ FlagsChecked /\ ladder = <<>>
  BY DEF Preflight, IInv, PresetsLoaded, LadderMade, Started
<1>2. CASE gpu' \in Detect /\ Step("store")
  <2>1. at' = "store" BY <1>2 DEF Step
  <2>2. gpu'.vendor \in Hard
    BY <1>2 DEF Detect, Nvidia, Vaapi, Hard
  <2>3. CapsRead' /\ FlagsChecked' BY <1>1, <2>1 DEF CapsRead, FlagsChecked
  <2>4. QED
    BY <1>1, <2>1, <2>2, <2>3 DEF IInv, GPUFound, PresetsLoaded,
       CataloguesAgree, LadderMade, Started, Places
<1>3. CASE Exit(1) BY <1>1, <1>3, ExitPreserves DEF Exit
<1>4. QED BY <1>2, <1>3 DEF Preflight

(* The presets a process starts with parse. *)
LEMMA LoadPresetsPreserves ==
  ASSUME IInv, LoadPresets
  PROVE  IInv'
<1>1. /\ at = "store" /\ UNCHANGED <<host, cfg, gpu, ladder>>
      /\ presets \in Seq(Preset) /\ CapsRead /\ FlagsChecked /\ GPUFound
      /\ ladder = <<>> /\ host \in Hosts
  BY DEF LoadPresets, IInv, PresetsLoaded, CapsRead, LadderMade, Started
<1>2. CASE Reload(host.presets) /\ Step("payment")
  <2>1. at' = "payment" /\ presets' = host.presets /\ ParseBytes(host.presets)
    BY <1>2 DEF Step, Reload
  <2>2. presets' \in Seq(Preset) BY <1>1, <2>1, HostFacts
  <2>3. ParseBytes(presets') BY <2>1
  <2>4. CapsRead' /\ FlagsChecked' /\ GPUFound'
    BY <1>1, <2>1 DEF CapsRead, FlagsChecked, GPUFound
  <2>5. PresetsLoaded' BY <2>2, <2>3 DEF PresetsLoaded, ParseBytes
  <2>6. QED
    BY <1>1, <2>1, <2>4, <2>5 DEF IInv, CataloguesAgree, LadderMade, Started, Places
<1>3. CASE Exit(1) /\ UNCHANGED presets BY <1>1, <1>3, ExitPreserves DEF Exit
<1>4. QED BY <1>2, <1>3 DEF LoadPresets

(* A process with a payment socket goes on only if the catalogues agree. *)
LEMMA PaymentPreserves ==
  ASSUME IInv, Payment
  PROVE  IInv'
<1>1. /\ at = "payment" /\ UNCHANGED <<host, cfg, gpu, presets, ladder>>
      /\ CapsRead /\ FlagsChecked /\ GPUFound /\ PresetsLoaded /\ ladder = <<>>
  BY DEF Payment, made, IInv, LadderMade, Started
<1>2. presets \in Seq(Preset) BY <1>1 DEF PresetsLoaded
<1>3. ASSUME at' = "runners",
             \/ cfg.paymentSocket = Unset
             \/ verifyPaymentDaemonCatalog(cfg.caps, Listed(host.daemon.caps))
      PROVE  IInv'
  <2>1. CapsRead' /\ FlagsChecked' /\ GPUFound' /\ PresetsLoaded'
    BY <1>1, <1>3 DEF CapsRead, FlagsChecked, GPUFound, PresetsLoaded
  <2>2. CataloguesAgree' BY <1>1, <1>3 DEF CataloguesAgree
  <2>3. QED BY <1>1, <1>3, <2>1, <2>2 DEF IInv, LadderMade, Started, Places
<1>4. CASE (cfg.paymentSocket = Unset \/ cfg.dev) /\ Step("runners")
  <2>1. cfg.paymentSocket = Unset BY <1>1, <1>4 DEF FlagsChecked
  <2>2. QED BY <1>3, <1>4, <2>1 DEF Step
<1>5. CASE /\ verifyPaymentDaemonCatalog(cfg.caps, Listed(host.daemon.caps))
           /\ Step("runners")
  BY <1>3, <1>5 DEF Step
<1>6. CASE Exit(1) BY <1>1, <1>2, <1>6, ExitPreserves DEF Exit
<1>7. QED BY <1>4, <1>5, <1>6, Zenon DEF Payment

(* The ladder is made of presets that parse and that the GPU supports. *)
LEMMA RunnersPreserves ==
  ASSUME IInv, Runners
  PROVE  IInv'
<1>1. /\ at = "runners" /\ UNCHANGED <<host, cfg, gpu, presets>>
      /\ CapsRead /\ FlagsChecked /\ GPUFound /\ PresetsLoaded /\ CataloguesAgree
      /\ ladder = <<>>
  BY DEF Runners, IInv, LadderMade, Started
<1>2. presets \in Seq(Preset) /\ ParseBytes(presets)
  BY <1>1 DEF PresetsLoaded
<1>3. ASSUME at' = "surfaces",
             \A k \in DOMAIN ladder' : ValidPreset(ladder'[k]) /\ Supported(ladder'[k])
      PROVE  IInv'
  <2>1. CapsRead' /\ FlagsChecked' /\ GPUFound' /\ PresetsLoaded'
    BY <1>1, <1>2, <1>3 DEF CapsRead, FlagsChecked, GPUFound, PresetsLoaded
  <2>2. CataloguesAgree' BY <1>1, <1>3 DEF CataloguesAgree
  <2>3. LadderMade' BY <1>1, <1>3 DEF LadderMade, Started, Supported
  <2>4. QED BY <1>3, <2>1, <2>2, <2>3 DEF IInv, Places
<1>4. CASE ladder' = liveLadder /\ Step("surfaces")
  BY <1>2, <1>3, <1>4, LadderSuits DEF Step
<1>5. CASE UNCHANGED ladder /\ Step("surfaces")
  BY <1>1, <1>3, <1>5 DEF Step
<1>6. CASE Exit(1) \/ Exit(2) BY <1>1, <1>2, <1>6, ExitPreserves DEF Exit
<1>7. QED BY <1>4, <1>5, <1>6 DEF Runners

(* The services and the signal touch nothing that was made sure of. *)
LEMMA ServicesPreserve ==
  ASSUME IInv,
         \/ GRPCBinds \/ GRPCServes \/ Signal
         \/ \E s \in Services : Up(s) \/ Breaks(s) \/ Returns(s)
  PROVE  IInv'
<1>1. UNCHANGED <<host, at, cfg, gpu, presets, ladder>>
  BY DEF GRPCBinds, GRPCServes, Signal, Up, Breaks, Returns, made
<1>2. QED BY <1>1, StayPreserves

(* lifecycle.Run goes from place to place and exits. *)
LEMMA LifecyclePreserves ==
  ASSUME IInv, Start \/ Stopping
  PROVE  IInv'
<1>1. UNCHANGED <<host, cfg, gpu, presets, ladder>>
  BY DEF Start, Stopping, Wakes, GRPCStop, LiveShutdown, Waits, made
<1>2. CASE Start
  BY <1>1, <1>2, StayPreserves DEF Start, Step, Started
<1>3. CASE Wakes \/ GRPCStop \/ LiveShutdown
  BY <1>1, <1>3, StayPreserves DEF Wakes, GRPCStop, LiveShutdown, Step, Started
<1>4. CASE Waits
  <2>1. presets' \in Seq(Preset) BY <1>1 DEF IInv, PresetsLoaded
  <2>2. QED BY <1>1, <1>4, <2>1, ExitPreserves DEF Waits, Exit
<1>5. QED BY <1>2, <1>3, <1>4 DEF Stopping

(* Every step of the process preserves the invariant. *)
LEMMA NextIInv == IInv /\ [Next]_vars => IInv'
<1> SUFFICES ASSUME IInv, [Next]_vars PROVE IInv' OBVIOUS
<1>1. CASE UNCHANGED vars BY <1>1, StayPreserves DEF vars
<1>2. CASE Startup
  BY <1>2, LoadSharedWorkerPreserves, ValidatePreserves, PreflightPreserves,
     LoadPresetsPreserves, PaymentPreserves, RunnersPreserves, LifecyclePreserves
  DEF Startup
<1>3. CASE Stopping BY <1>3, LifecyclePreserves
<1>4. CASE \/ GRPCBinds \/ GRPCServes \/ Signal
           \/ \E s \in Services : Up(s) \/ Breaks(s) \/ Returns(s)
  BY <1>4, ServicesPreserve
<1>5. QED BY <1>1, <1>2, <1>3, <1>4 DEF Next

(* The invariant holds wherever run is. *)
THEOREM Inductive == Spec => []IInv
BY InitIInv, NextIInv, PTL DEF Spec

------------------------------------------------------------------------------
(* The results. *)

(* A process that serves sells what it bills and what its payment daemon   *)
(* knows, for every worker.yaml, every daemon's catalogue and every        *)
(* request: the checks of worker.yaml, the comparison at startup and the   *)
(* resolution in the routes leave no gap between them.                     *)
THEOREM SoldIsKnown == Spec => []BindingsKnown
<1>1. IInv => BindingsKnown
  <2> SUFFICES ASSUME IInv, Serving PROVE BindingsKnown
    BY Zenon DEF BindingsKnown
  <2>1. /\ host \in Hosts /\ cfg.caps \in Seq(Capability) /\ SoundCaps(cfg.caps)
        /\ \/ cfg.paymentSocket = Unset
           \/ verifyPaymentDaemonCatalog(cfg.caps, Listed(host.daemon.caps))
    BY DEF IInv, CapsRead, CataloguesAgree, Serving, Started
  <2>2. \A row \in handleRegistryOfferings(cfg.caps) :
          resolveSessionBinding(cfg.caps, row.name, row.offering, Unset) = {row}
    BY <2>1, RowResolves
  <2>3. \A i \in DOMAIN host.daemon.caps : host.daemon.caps[i] \in ListedCapability
    BY <2>1, HostFacts
  <2>4. ASSUME cfg.paymentSocket # Unset, NEW name, NEW requested, NEW hint,
               NEW b \in resolveSessionBinding(cfg.caps, name, requested, hint)
        PROVE  \E k \in DOMAIN host.daemon.caps :
                 /\ host.daemon.caps[k].name = b.name
                 /\ host.daemon.caps[k].unit = b.unit
                 /\ b.offering \in IdsOf(host.daemon.caps[k])
    BY <2>1, <2>3, <2>4, BindingIsListed
  <2>5. QED BY <2>2, <2>4, Zenon DEF BindingsKnown
<1>2. QED BY <1>1, Inductive, PTL

(* A process that serves encodes its live sessions with encoders its GPU   *)
(* has, under a master playlist that names what the encoder writes, for    *)
(* every presets file and every GPU it may be started with.                *)
THEOREM LadderIsEncodable == Spec => []LadderEncodable
<1>1. IInv => LadderEncodable
  <2> SUFFICES ASSUME IInv, Serving PROVE LadderEncodable
    BY Zenon DEF LadderEncodable
  <2> DEFINE outputs == BuildLiveArgs(ladder)
  <2>1. /\ gpu.vendor \in Hard
        /\ \A k \in DOMAIN ladder : ValidPreset(ladder[k]) /\ Supported(ladder[k])
    BY DEF IInv, GPUFound, LadderMade, Serving, Started
  <2>2. /\ DOMAIN outputs = DOMAIN ladder
        /\ \A k \in DOMAIN ladder :
             outputs[k].encoder = codecFlag(ladder[k].codec, gpu.vendor)
    BY DEF BuildLiveArgs
  <2>3. \A k \in DOMAIN outputs : /\ outputs[k].encoder \in EncodersOf(gpu)
                                  /\ outputs[k].encoder[2] # "lib"
    <3> HIDE DEF outputs
    <3>1. QED BY <2>1, <2>2, RungIsHard
  <2>4. \A k \in DOMAIN ladder : ladder[k].codec \in Codecs
    BY <2>1, Zenon DEF ValidPreset
  <2>5. \A m \in BuildMaster(Renditions(ladder)) :
          /\ {m[k].uri : k \in DOMAIN m} = {outputs[k].out : k \in DOMAIN outputs}
          /\ \A k \in DOMAIN m : Cardinality(m[k].codecs) = 2
    BY <2>4, MasterNamesOutputs
  <2>6. QED BY <2>3, <2>5, Zenon DEF LadderEncodable
<1>2. QED BY <1>1, Inductive, PTL

------------------------------------------------------------------------------
(* The encoders: the progress channel of a batch encode, for any number of *)
(* publishes, chunks and faults.                                           *)
(*                                                                         *)
(* Closing the channel is safe because Run closes it last (Closed) and     *)
(* because nothing but the one encode of the batch is ever started beside  *)
(* it (Alone); that no reading runs ahead of what was fed (Chunks) is what *)
(* the types need.                                                         *)

(* A chunk that is on its way still counts. *)
Chunks ==
  /\ \A k \in Publishes : copier[k] = "writing" => fed[k] < setup.chunks
  /\ conn = "writing" =>
       /\ cur # 0
       /\ fed[cur] + (IF copier[cur] = "writing" THEN 1 ELSE 0) < setup.chunks

(* A batch encode has no connection and nothing that feeds it, and is the  *)
(* only one.                                                               *)
Alone ==
  kind = "batch" =>
    /\ conn = "none"
    /\ \A k \in Publishes : copier[k] = "eof"
    /\ \A k \in Publishes \ {1} : start[k] = "off"

Closed == progress => kind = "batch" /\ start[1] \in Returned /\ scan[1] = "done"

EncodeInv == EncodersTypeOK /\ Chunks /\ Alone /\ Closed

(* A scenario's bounds are numbers. *)
LEMMA SetupFacts ==
  ASSUME setup \in Scenarios
  PROVE  /\ setup.kind \in {"batch", "live", "listen"}
         /\ setup.publishes \in 0..MaxPublishes
         /\ setup.chunks \in Nat /\ setup.faults \in Nat
         /\ MaxPublishes \in Nat \ {0} /\ 1 \in Publishes
  BY EncodersAssumption DEF EncodersAssumption, Publishes

(* What a step of publish k may do to the encodes; the rest is the         *)
(* connection's and the listener's.                                        *)
EncodeStep(k) ==
  \/ SessionEnds(k) \/ SessionCloses(k) \/ CancelEncode(k)
  \/ Copier(k) \/ Child(k) \/ ChildEnds(k) \/ Stderr(k) \/ StartOrRun(k)

(* The types, apart from what is true or false. *)
Flags ==
  /\ wclosed \in [Publishes -> BOOLEAN] /\ rclosed \in [Publishes -> BOOLEAN]
  /\ cancelled \in [Publishes -> BOOLEAN]
  /\ progress \in BOOLEAN /\ server \in BOOLEAN /\ listener \in BOOLEAN
  /\ done \in BOOLEAN
Values ==
  /\ setup \in Scenarios /\ cur \in 0..MaxPublishes /\ onEnd \in 0..MaxPublishes
  /\ conn \in {"none", "idle", "accepting", "writing", "closing", "closed",
               "gone"}
  /\ session \in [Publishes -> {"none", "running", "closing", "over"}]
  /\ copier \in [Publishes -> {"off", "reading", "writing"} \cup CopierOver]
  /\ child \in [Publishes -> {"off", "ok", "bad"} \cup Alive]
  /\ line \in [Publishes -> 0..setup.chunks]
  /\ processed \in [Publishes -> 0..setup.chunks]
  /\ fed \in [Publishes -> 0..setup.chunks]
  /\ scan \in [Publishes -> {"off", "scanning", "sending", "done"}]
  /\ start \in [Publishes -> {"off", "called", "waiting", "term", "killed",
                              "reaped"} \cup Returned]
  /\ provider \in {"new", "bound", "selecting", "draining", "returned"}
  /\ serve \in {"off", "started", "closed", "accepting", "over"}
  /\ faults \in 0..setup.faults

(* The two halves of the types, put together. *)
LEMMA TwoHalves ==
  EncodersTypeOK <=> Flags /\ Values
  BY Zenon DEF EncodersTypeOK, Flags, Values

(* The invariant holds at the start. *)
LEMMA EncodeInit ==
  EncodersInit => EncodeInv
  <1> SUFFICES ASSUME EncodersInit PROVE EncodeInv
    OBVIOUS
  <1>s. setup \in Scenarios
    BY DEF EncodersInit
  <1>1. /\ setup.chunks \in Nat /\ setup.faults \in Nat
        /\ MaxPublishes \in Nat \ {0} /\ 1 \in Publishes
    BY <1>s, SetupFacts
  <1>a. Flags
    BY Zenon DEF EncodersInit, Flags, AllOf
  <1>b. Values
    BY <1>s, <1>1 DEF EncodersInit, Values, AllOf, CopierOver, Returned, Alive
  <1>2. EncodersTypeOK
    BY <1>a, <1>b, TwoHalves
  <1>3. Chunks /\ Alone /\ Closed
    BY <1>1 DEF EncodersInit, Chunks, Alone, Closed, AllOf
  <1> QED
    BY <1>2, <1>3 DEF EncodeInv

(* Every step keeps the flags. *)
LEMMA FlagsKept ==
  ASSUME Flags, [EncodersNext]_encodersVars
  PROVE  Flags'
  <1> USE DEF Flags, handler, pipe, process, reading, ingest
  <1>f. ASSUME NEW f \in [Publishes -> BOOLEAN]
        PROVE  \A k : Set(f, k, TRUE) \in [Publishes -> BOOLEAN]
    BY DEF Set
  <1>1. CASE Publisher
    BY <1>1, Zenon DEF Publisher, Connect, OnPublish, pipeData, HangUp
  <1>2. CASE Handler
    BY <1>2, <1>f, Zenon DEF Handler, Accepted, WriteFails, OnClose, Ended
  <1>3. CASE Provider \/ Serve \/ Stop \/ Cancel
    BY <1>3, Zenon DEF Provider, Listen, NewServer, Serve, ListenDone, ListenReturns,
       Stop, Cancel, StopProvider, ServerClose
  <1>4. ASSUME NEW k \in Publishes, EncodeStep(k)
        PROVE  Flags'
    <2>1. CASE SessionEnds(k) \/ SessionCloses(k) \/ CancelEncode(k)
      BY <2>1, <1>f, Zenon DEF SessionEnds, SessionCloses, CancelEncode, Close
    <2>2. CASE Copier(k)
      BY <2>2, Zenon DEF Copier, CopierReads, CopierWrites
    <2>3. CASE Child(k) \/ ChildEnds(k)
      BY <2>3, Zenon DEF Child, ChildReads, ChildPrints, ChildHangs, ChildFails,
         ChildEnds
    <2>4. CASE Stderr(k)
      BY <2>4, Zenon DEF Stderr, Scan, Drain, ScanEnds
    <2>5. CASE StartOrRun(k)
      BY <2>5, Zenon DEF StartOrRun, Spawn, Terminate, Kill, Wait, Return
    <2> QED
      BY <1>4, <2>1, <2>2, <2>3, <2>4, <2>5 DEF EncodeStep
  <1>5. CASE UNCHANGED encodersVars
    BY <1>5, Zenon DEF encodersVars
  <1> QED
    BY <1>1, <1>2, <1>3, <1>4, <1>5 DEF EncodersNext, EncodeStep

(* Every step keeps the other types. *)
LEMMA ValuesKept ==
  ASSUME Values, Chunks, [EncodersNext]_encodersVars
  PROVE  Values'
  <1>s. /\ setup.publishes \in 0..MaxPublishes
        /\ setup.chunks \in Nat /\ setup.faults \in Nat /\ setup \in Scenarios
        /\ MaxPublishes \in Nat \ {0}
    BY SetupFacts DEF Values
  <1> USE <1>s DEF Values, Set, Close, CopierOver, Returned, Alive, handler, pipe,
                   process, reading, ingest
  <1>1. CASE Publisher
    <2>1. CASE Connect \/ HangUp
      BY <2>1 DEF Connect, HangUp
    <2>2. CASE OnPublish
      BY <2>2 DEF OnPublish
    <2>3. CASE pipeData
      BY <2>3 DEF pipeData
    <2> QED
      BY <1>1, <2>1, <2>2, <2>3 DEF Publisher
  <1>2. CASE Handler
    BY <1>2 DEF Handler, Accepted, WriteFails, OnClose, Ended
  <1>3. CASE Provider \/ Serve \/ Stop \/ Cancel
    BY <1>3 DEF Provider, Listen, NewServer, Serve, ListenDone, ListenReturns,
       Stop, Cancel, StopProvider, ServerClose
  <1>4. ASSUME NEW k \in Publishes, EncodeStep(k)
        PROVE  Values'
    <2>1. CASE SessionEnds(k) \/ SessionCloses(k) \/ CancelEncode(k)
      BY <2>1 DEF SessionEnds, SessionCloses, CancelEncode
    <2>2. CASE Copier(k)
      BY <2>2 DEF Copier, CopierReads, CopierWrites, Chunks
    <2>3. CASE Child(k) \/ ChildEnds(k)
      BY <2>3 DEF Child, ChildReads, ChildPrints, ChildHangs, ChildFails,
         ChildEnds
    <2>4. CASE Stderr(k)
      BY <2>4 DEF Stderr, Scan, Drain, ScanEnds, parseLiveProgress
    <2>5. CASE StartOrRun(k)
      BY <2>5 DEF StartOrRun, Spawn, Terminate, Kill, Wait, Return, Result
    <2> QED
      BY <1>4, <2>1, <2>2, <2>3, <2>4, <2>5 DEF EncodeStep
  <1>5. CASE UNCHANGED encodersVars
    BY <1>5 DEF encodersVars
  <1> QED
    BY <1>1, <1>2, <1>3, <1>4, <1>5 DEF EncodersNext, EncodeStep

(* No more is on its way than the publisher has left to send. *)
LEMMA ChunksKept ==
  ASSUME EncodersTypeOK, Chunks, Alone, [EncodersNext]_encodersVars
  PROVE  Chunks'
  <1>s. /\ setup.chunks \in Nat /\ fed \in [Publishes -> 0..setup.chunks]
        /\ copier \in [Publishes -> {"off", "reading", "writing"} \cup CopierOver]
        /\ cur \in 0..MaxPublishes /\ MaxPublishes \in Nat
    BY SetupFacts DEF EncodersTypeOK
  <1> USE <1>s DEF Chunks, Set, handler, pipe, process, reading, ingest, CopierOver
  <1>1. CASE Publisher
    BY <1>1 DEF Publisher, Connect, OnPublish, pipeData, HangUp
  <1>2. CASE Handler
    BY <1>2 DEF Handler, Accepted, WriteFails, OnClose, Ended
  <1>3. CASE Provider \/ Serve \/ Stop \/ Cancel
    BY <1>3 DEF Provider, Listen, NewServer, Serve, ListenDone, ListenReturns,
       Stop, Cancel, StopProvider, ServerClose
  <1>4. ASSUME NEW k \in Publishes, EncodeStep(k)
        PROVE  Chunks'
    <2>1. CASE SessionEnds(k) \/ SessionCloses(k) \/ CancelEncode(k)
      BY <2>1 DEF SessionEnds, SessionCloses, CancelEncode
    <2>2. CASE CopierReads(k)
      <3>1. copier[k] = "reading" /\ UNCHANGED <<setup, fed, cur>>
        BY <2>2 DEF CopierReads
      <3>2. CASE /\ conn = "writing" /\ cur = k /\ conn' = "idle"
                 /\ copier' = Set(copier, k, "writing")
        <4>1. fed[k] < setup.chunks
          BY <3>1, <3>2
        <4> QED
          BY <3>1, <3>2, <4>1
      <3>3. CASE /\ conn' = conn
                 /\ \/ copier' = Set(copier, k, "broken")
                    \/ copier' = Set(copier, k, "eof")
        <4>1. \A m \in Publishes : copier'[m] = "writing" <=> copier[m] = "writing"
          BY <3>1, <3>3
        <4>2. conn = "writing" => cur \in Publishes
          BY DEF Publishes
        <4> QED
          BY <3>1, <3>3, <4>1, <4>2
      <3> QED
        BY <2>2, <3>2, <3>3 DEF CopierReads
    <2>3. CASE CopierWrites(k)
      <3>0. /\ copier[k] = "writing" /\ setup' = setup /\ conn' = conn /\ cur' = cur
            /\ fed[k] \in Nat
        BY <2>3 DEF CopierWrites
      <3>1. CASE /\ fed' = Set(fed, k, fed[k] + 1)
                 /\ copier' = Set(copier, k, "reading")
        <4>1. \A m \in Publishes : copier'[m] = "writing" => fed'[m] < setup'.chunks
          BY <3>0, <3>1
        <4>2. ASSUME conn' = "writing"
              PROVE  /\ cur' # 0
                     /\ fed'[cur] + (IF copier'[cur] = "writing" THEN 1 ELSE 0)
                          < setup.chunks
          <5>1. cur \in Publishes
            BY <4>2, <3>0 DEF Publishes
          <5>2. fed[cur] \in Nat
            BY <5>1
          <5>3. CASE cur = k
            BY <3>0, <3>1, <4>2, <5>1, <5>2, <5>3
          <5>4. CASE cur # k
            BY <3>0, <3>1, <4>2, <5>1, <5>2, <5>4
          <5> QED
            BY <5>3, <5>4
        <4> QED
          BY <3>0, <4>1, <4>2
      <3>2. CASE copier' = Set(copier, k, "epipe") /\ UNCHANGED fed
        BY <3>0, <3>2 DEF Publishes
      <3> QED
        BY <2>3, <3>1, <3>2 DEF CopierWrites
    <2>4. CASE ChildReads(k)
      BY <2>4 DEF ChildReads, Alone
    <2>5. CASE ChildPrints(k) \/ ChildHangs(k) \/ ChildFails(k) \/ ChildEnds(k)
      BY <2>5 DEF ChildPrints, ChildHangs, ChildFails,
         ChildEnds
    <2>6. CASE Stderr(k)
      BY <2>6 DEF Stderr, Scan, Drain, ScanEnds
    <2>7. CASE StartOrRun(k)
      BY <2>7 DEF StartOrRun, Spawn, Terminate, Kill, Wait, Return, Publishes
    <2> QED
      BY <1>4, <2>1, <2>2, <2>3, <2>4, <2>5, <2>6, <2>7 DEF EncodeStep, Copier, Child
  <1>5. CASE UNCHANGED encodersVars
    BY <1>5 DEF encodersVars
  <1> QED
    BY <1>1, <1>2, <1>3, <1>4, <1>5 DEF EncodersNext, EncodeStep

(* Nothing joins a batch encode: only Accept starts another, and a         *)
(* connection would have to be made first.                                 *)
LEMMA AloneKept ==
  ASSUME EncodersTypeOK, Alone, [EncodersNext]_encodersVars
  PROVE  Alone'
  <1>s. /\ copier \in [Publishes -> {"off", "reading", "writing"} \cup CopierOver]
        /\ start \in [Publishes -> {"off", "called", "waiting", "term", "killed",
                                    "reaped"} \cup Returned]
    BY DEF EncodersTypeOK
  <1> USE <1>s DEF Alone, kind, Set, handler, pipe, process, reading, ingest
  <1>1. CASE Publisher
    BY <1>1 DEF Publisher, Connect, OnPublish, pipeData, HangUp
  <1>2. CASE Handler
    BY <1>2 DEF Handler, Accepted, WriteFails, OnClose, Ended
  <1>3. CASE Provider \/ Serve \/ Stop \/ Cancel
    BY <1>3 DEF Provider, Listen, NewServer, Serve, ListenDone, ListenReturns,
       Stop, Cancel, StopProvider, ServerClose
  <1>4. ASSUME NEW k \in Publishes, EncodeStep(k)
        PROVE  Alone'
    <2>1. CASE SessionEnds(k) \/ SessionCloses(k) \/ CancelEncode(k)
      BY <2>1 DEF SessionEnds, SessionCloses, CancelEncode
    <2>2. CASE Copier(k)
      BY <2>2 DEF Copier, CopierReads, CopierWrites
    <2>3. CASE Child(k) \/ ChildEnds(k)
      BY <2>3 DEF Child, ChildReads, ChildPrints, ChildHangs, ChildFails,
         ChildEnds
    <2>4. CASE Stderr(k)
      BY <2>4 DEF Stderr, Scan, Drain, ScanEnds
    <2>5. CASE StartOrRun(k)
      BY <2>5 DEF StartOrRun, Spawn, Terminate, Kill, Wait, Return
    <2> QED
      BY <1>4, <2>1, <2>2, <2>3, <2>4, <2>5 DEF EncodeStep
  <1>5. CASE UNCHANGED encodersVars
    BY <1>5 DEF encodersVars
  <1> QED
    BY <1>1, <1>2, <1>3, <1>4, <1>5 DEF EncodersNext, EncodeStep

(* Only a batch encode closes its channel, in Return, where start[1] is    *)
(* then final and the reader of stderr is over; neither begins again.      *)
LEMMA ClosedKept ==
  ASSUME EncodersTypeOK, Alone, Closed, [EncodersNext]_encodersVars
  PROVE  Closed'
  <1>s. /\ scan \in [Publishes -> {"off", "scanning", "sending", "done"}]
        /\ start \in [Publishes -> {"off", "called", "waiting", "term", "killed",
                                    "reaped"} \cup Returned]
        /\ 1 \in Publishes
    BY SetupFacts DEF EncodersTypeOK
  <1> USE <1>s DEF Closed, kind, Set, handler, pipe, process, reading, ingest,
                   Returned
  <1>1. CASE Publisher
    BY <1>1 DEF Publisher, Connect, OnPublish, pipeData, HangUp
  <1>2. CASE Handler
    BY <1>2 DEF Handler, Accepted, WriteFails, OnClose, Ended, Alone
  <1>3. CASE Provider \/ Serve \/ Stop \/ Cancel
    BY <1>3 DEF Provider, Listen, NewServer, Serve, ListenDone, ListenReturns,
       Stop, Cancel, StopProvider, ServerClose
  <1>4. ASSUME NEW k \in Publishes, EncodeStep(k)
        PROVE  Closed'
    <2>1. CASE SessionEnds(k) \/ SessionCloses(k) \/ CancelEncode(k)
      BY <2>1 DEF SessionEnds, SessionCloses, CancelEncode
    <2>2. CASE Copier(k)
      BY <2>2 DEF Copier, CopierReads, CopierWrites
    <2>3. CASE Child(k) \/ ChildEnds(k)
      BY <2>3 DEF Child, ChildReads, ChildPrints, ChildHangs, ChildFails,
         ChildEnds
    <2>4. CASE Stderr(k)
      BY <2>4 DEF Stderr, Scan, Drain, ScanEnds
    <2>5. CASE Spawn(k) \/ Terminate(k) \/ Kill(k) \/ Wait(k)
      BY <2>5 DEF Spawn, Terminate, Kill, Wait
    <2>6. CASE Return(k)
      <3>1. /\ start[k] = "reaped" /\ scan[k] = "done"
            /\ start' = Set(start, k, Result(k))
            /\ progress' = (setup.kind = "batch") /\ setup' = setup /\ scan' = scan
        BY <2>6 DEF Return
      <3>2. Result(k) \in Returned
        BY DEF Result
      <3>3. ASSUME progress'
            PROVE  setup.kind = "batch" /\ k = 1
        BY <3>1, <3>3 DEF Alone
      <3> QED
        BY <3>1, <3>2, <3>3
    <2> QED
      BY <1>4, <2>1, <2>2, <2>3, <2>4, <2>5, <2>6 DEF EncodeStep, StartOrRun
  <1>5. CASE UNCHANGED encodersVars
    BY <1>5 DEF encodersVars
  <1> QED
    BY <1>1, <1>2, <1>3, <1>4, <1>5 DEF EncodersNext, EncodeStep

(* The invariant holds in every state: of a batch encode, a live one and   *)
(* the listener, however often the connection publishes.                   *)
THEOREM EncodeInductive == EncodersSpec => []EncodeInv
  <1>1. ASSUME EncodeInv, [EncodersNext]_encodersVars
        PROVE  EncodeInv'
    <2>1. Flags /\ Values
      BY <1>1, TwoHalves DEF EncodeInv
    <2>2. Flags' /\ Values'
      BY <1>1, <2>1, FlagsKept, ValuesKept DEF EncodeInv
    <2>3. EncodersTypeOK'
      <3>1. EncodersTypeOK' <=> Flags' /\ Values'
        BY Zenon DEF EncodersTypeOK, Flags, Values
      <3> QED
        BY <2>2, <3>1
    <2>4. Chunks' /\ Alone' /\ Closed'
      BY <1>1, ChunksKept, AloneKept, ClosedKept DEF EncodeInv
    <2> QED
      BY <2>3, <2>4 DEF EncodeInv
  <1> QED
    BY EncodeInit, <1>1, PTL DEF EncodersSpec

(* Every variable of the encoders keeps its type; in particular no reading *)
(* is ahead of the media that was sent.                                    *)
THEOREM EncodeTypes == EncodersSpec => []EncodersTypeOK
  <1>1. EncodeInv => EncodersTypeOK
    BY DEF EncodeInv
  <1> QED
    BY EncodeInductive, <1>1, PTL

(* SystemRunner.Run closes the progress channel only when its reader of    *)
(* stderr will send no more, for any number of chunks and faults.          *)
THEOREM SafeClose == EncodersSpec => []NoSendAfterClose
  <1>1. EncodeInv => NoSendAfterClose
    BY DEF EncodeInv, Closed, NoSendAfterClose
  <1> QED
    BY EncodeInductive, <1>1, PTL

=============================================================================
