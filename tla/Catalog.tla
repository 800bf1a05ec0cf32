------------------------------- MODULE Catalog ------------------------------
(***************************************************************************)
(* The catalogue of capabilities and offerings: how worker.yaml is checked *)
(* (internal/config), compared at startup with what the payment daemon     *)
(* lists (cmd/livepeer-video-worker-node/verify.go, paymentclient), and    *)
(* how a request's offering is found in it (internal/runtime/http).        *)
(*                                                                         *)
(* A name, an id or a preset is a string; Unset is a field left out.       *)
(***************************************************************************)
EXTENDS Integers, Sequences, FiniteSets

CONSTANT CapabilityNames   \* the names videoCapabilityNameRE matches

Unset == ""

WorkUnits == {"token", "character", "audio_second", "image_step_megapixel",
              "video_frame_megapixel"}

(* worker.yaml as it is decoded.  The documents, the sections and the       *)
(* formats a check looks for are flags.                                     *)
Offering == [id : STRING, price : Int, url : BOOLEAN, preset : STRING]
Capability == [name : STRING, unit : STRING, offerings : Seq(Offering)]
SharedConfig ==
  [readable : BOOLEAN, known : BOOLEAN, documents : Nat, publisher : BOOLEAN,
   protocol : Int, payee : BOOLEAN, eth : STRING, token : STRING,
   listen : STRING, socket : STRING, caps : Seq(Capability)]

CurrentProtocolVersion == 1

(* strings.TrimSpace on the model's texts: " " is a blank one. *)
TrimSpace(text) == IF text = " " THEN Unset ELSE text

IdsOf(c) == {c.offerings[k].id : k \in DOMAIN c.offerings}

(* An id, a positive price in wei, an absolute backend URL. *)
validateOffering(o) == TrimSpace(o.id) # Unset /\ o.price > 0 /\ o.url

Distinct(s, Key(_)) ==
  \A i, k \in DOMAIN s : Key(s[i]) = Key(s[k]) => i = k

validateCapability(c) ==
  /\ c.name \in CapabilityNames /\ c.unit \in WorkUnits
  /\ c.offerings # <<>>
  /\ \A k \in DOMAIN c.offerings : validateOffering(c.offerings[k])
  /\ Distinct(c.offerings, LAMBDA o : o.id)

validateSharedConfig(f) ==
  /\ ~f.publisher /\ f.protocol = CurrentProtocolVersion /\ f.payee
  /\ f.eth \in {Unset, "lowercase"}
  /\ TrimSpace(f.listen) # Unset /\ TrimSpace(f.socket) # Unset
  /\ f.caps # <<>>
  /\ \A i \in DOMAIN f.caps : validateCapability(f.caps[i])
  /\ Distinct(f.caps, LAMBDA c : c.name)

(* What run takes from a valid file. *)
projectSharedConfig(f) ==
  [authToken |-> TrimSpace(f.token), httpListen |-> TrimSpace(f.listen),
   paymentSocket |-> TrimSpace(f.socket), caps |-> f.caps]

(* parseFile and parseReader: one document of known fields only. *)
Parses(f) == f.readable /\ f.known /\ f.documents = 1

------------------------------------------------------------------------------
(* The daemon's prices are fractions of wei per unit. *)
PriceInfo == [absent : BOOLEAN, price : Int, pixels : Int]

priceInfoToWei(p) ==
  CASE p.absent -> 0
    [] ~p.absent /\ p.pixels <= 0 -> p.price
    [] OTHER -> p.price \div p.pixels

(* ListCapabilities, as the client hands it on. *)
Listed(caps) ==
  [i \in DOMAIN caps |-> [caps[i] EXCEPT !.offerings =
     [k \in DOMAIN @ |-> [id |-> @[k].id, price |-> priceInfoToWei(@[k].price)]]]]

(* Mutant of verifyPaymentDaemonCatalog: offerings are only counted. *)
VerifyCounts(want, got) ==
  /\ Len(got) = Len(want)
  /\ \A i \in DOMAIN want : \E k \in DOMAIN got :
       /\ got[k].name = want[i].name /\ got[k].unit = want[i].unit
       /\ Len(got[k].offerings) = Len(want[i].offerings)

(* Both sides are sorted by name and compared row by row, prices apart.    *)
(* The worker's names and ids are distinct, so equal lengths and equal     *)
(* rows leave the daemon no other ones.                                    *)
verifyPaymentDaemonCatalog(want, got) ==
  /\ Len(got) = Len(want)
  /\ \A i \in DOMAIN want : \E k \in DOMAIN got :
       /\ got[k].name = want[i].name /\ got[k].unit = want[i].unit
       /\ Len(got[k].offerings) = Len(want[i].offerings)
       /\ IdsOf(got[k]) = IdsOf(want[i])

------------------------------------------------------------------------------
(* The positions of s that satisfy P; the loops take the first. *)
Where(s, P(_)) == {k \in DOMAIN s : P(s[k])}
First(s, K) == s[CHOOSE k \in K : \A i \in K : k <= i]

(* What s holds at the positions K, in order: the loops that keep some. *)
Keep(s, K) ==
  LET kept[n \in 0..Len(s)] ==
        IF n = 0 THEN <<>>
        ELSE IF n \in K THEN Append(kept[n - 1], s[n]) ELSE kept[n - 1]
  IN kept[Len(s)]

(* The offering a request means: the one it names, else the first one that *)
(* is called like its preset or constrained to it, else the only one.      *)
resolveOffering(c, requested, hint) ==
  LET named == Where(c.offerings, LAMBDA o : o.id = requested)
      hinted == Where(c.offerings, LAMBDA o : hint \in {o.id, o.preset})
  IN
  IF requested # Unset
  THEN IF named = {} THEN {} ELSE {First(c.offerings, named)}
  ELSE IF hint # Unset /\ hinted # {} THEN {First(c.offerings, hinted)}
  ELSE IF Len(c.offerings) = 1 THEN {c.offerings[1]}
  ELSE {}

(* What OpenSession is called with, for a request on a capability. *)
resolveSessionBinding(caps, name, requested, hint) ==
  LET at == Where(caps, LAMBDA c : c.name = name) IN
  IF at = {} THEN {}
  ELSE LET c == First(caps, at) IN
       {[name |-> c.name, unit |-> c.unit, offering |-> o.id, price |-> o.price] :
          o \in resolveOffering(c, requested, hint)}

(* The rows /registry/offerings lists, for the coordinator to sell. *)
handleRegistryOfferings(caps) ==
  UNION {{[name |-> caps[i].name, unit |-> caps[i].unit,
           offering |-> caps[i].offerings[k].id,
           price |-> caps[i].offerings[k].price] :
            k \in DOMAIN caps[i].offerings} : i \in DOMAIN caps}

(* The preset an ABR submission asks for: only a ladder of one names it. *)
abrPresetHint(presets) == IF Len(presets) = 1 THEN presets[1] ELSE Unset
=============================================================================
