-------------------------- MODULE Detectors_proofs --------------------------
(***************************************************************************)
(* Theorems about the detectors, for any requests, rows of earlier days,   *)
(* limits and numbers of requests in flight.  A behaviour of Detectors is  *)
(* one of each service's own specification, since the services share no    *)
(* variable; each invariant is proved of its service alone.                *)
(***************************************************************************)
EXTENDS Detectors, FiniteSetTheorems, NaturalsInduction, WellFoundedInduction, TLAPS

(* A step of the detectors is, for each service, one of its own or none.   *)
LEMMA ServicesStep ==
  ASSUME [Next]_vars
  PROVE  /\ CB!Next \/ UNCHANGED cardVars
         /\ INS!Next \/ UNCHANGED staffVars
         /\ AML!Next \/ UNCHANGED amlVars
         /\ SIM!Next \/ UNCHANGED swapVars
         /\ WAL!Next \/ UNCHANGED walletVars
         /\ INV!Next \/ UNCHANGED schemeVars
         /\ ATO!Next \/ UNCHANGED loginVars
BY DEF Next, vars, OthersThanChargeback, OthersThanInsider, OthersThanAML, OthersThanSwap,
       OthersThanWallet, OthersThanInvestment, OthersThanTakeover

-----------------------------------------------------------------------------
(* What the services do to the sequence of their calls and to their tables.*)

LEMMA Appended ==
  ASSUME NEW S, NEW s \in Seq(S), NEW e \in S
  PROVE  /\ Append(s, e) \in Seq(S) /\ Len(Append(s, e)) = Len(s) + 1
         /\ DOMAIN Append(s, e) = DOMAIN s \cup {Len(s) + 1}
         /\ Len(s) + 1 \notin DOMAIN s
         /\ Append(s, e)[Len(s) + 1] = e
         /\ \A i \in DOMAIN s : Append(s, e)[i] = s[i]
OBVIOUS

LEMMA Replaced ==
  ASSUME NEW S, NEW s \in Seq(S), NEW c \in DOMAIN s, NEW e \in S
  PROVE  /\ [s EXCEPT ![c] = e] \in Seq(S) /\ Len([s EXCEPT ![c] = e]) = Len(s)
         /\ DOMAIN [s EXCEPT ![c] = e] = DOMAIN s
         /\ [s EXCEPT ![c] = e][c] = e
         /\ \A i \in DOMAIN s : i # c => [s EXCEPT ![c] = e][i] = s[i]
OBVIOUS

LEMMA Mapped ==
  ASSUME NEW S, NEW s \in Seq(S), NEW t, DOMAIN t = DOMAIN s, t = [i \in DOMAIN s |-> t[i]],
         \A i \in DOMAIN s : t[i] \in S
  PROVE  t \in Seq(S) /\ Len(t) = Len(s)
OBVIOUS

LEMMA Domain ==
  ASSUME NEW S, NEW s \in Seq(S)
  PROVE  /\ DOMAIN s = 1..Len(s) /\ Len(s) \in Nat /\ \A i \in DOMAIN s : s[i] \in S
         /\ IsFiniteSet(DOMAIN s) /\ Cardinality(DOMAIN s) = Len(s)
<1>1. DOMAIN s = 1..Len(s) /\ Len(s) \in Nat /\ \A i \in DOMAIN s : s[i] \in S
  OBVIOUS
<1> QED BY <1>1, FS_Interval

-----------------------------------------------------------------------------
(* Sums over finite sets.  A set of numbers has a least one; by the least  *)
(* counterexample, the function that the fold of the community modules     *)
(* recurs by exists, is determined by what it adds up, and may take the    *)
(* elements in any order.                                                  *)
BelowInNat == {ss \in Nat \X Nat : ss[1] < ss[2]}

LEMMA LeastNat ==
  ASSUME NEW S \in SUBSET Nat, S # {}
  PROVE  \E x \in S : \A y \in S : x <= y
<1>1. IsWellFoundedOn(BelowInNat, Nat)
  BY NatLessThanWellFounded DEF OpToRel, BelowInNat
<1>2. PICK x \in S : \A y \in S : <<y, x>> \notin BelowInNat
  BY <1>1, WFMin
<1>3. \A y \in S : ~ (y < x)
  BY <1>2 DEF BelowInNat
<1> QED BY <1>2, <1>3

OneOf(s) == CHOOSE x \in s : TRUE

(* g adds up f over each of the sets in T, as MapThenFoldSet does.         *)
SumsUp(f, T, g) ==
  g = [s \in T |-> IF s = {} THEN 0 ELSE f[OneOf(s)] + g[s \ {OneOf(s)}]]

LEMMA SumsExist ==
  ASSUME NEW S, IsFiniteSet(S), NEW f \in [S -> Nat]
  PROVE  \E g \in [SUBSET S -> Nat] : SumsUp(f, SUBSET S, g)
<1> DEFINE Small(n) == {s \in SUBSET S : Cardinality(s) < n}
           Bad == {n \in Nat : ~ \E g \in [Small(n) -> Nat] : SumsUp(f, Small(n), g)}
<1>1. \A s \in SUBSET S : IsFiniteSet(s) /\ Cardinality(s) \in Nat
  BY FS_Subset, FS_CardinalityType
<1>2. ASSUME NEW s \in SUBSET S, s # {}
      PROVE  /\ OneOf(s) \in s /\ s \ {OneOf(s)} \in SUBSET S
             /\ Cardinality(s \ {OneOf(s)}) = Cardinality(s) - 1
  <2>1. OneOf(s) \in s
    BY <1>2 DEF OneOf
  <2> QED BY <1>1, <2>1, FS_RemoveElement
<1>3. ASSUME Bad # {} PROVE FALSE
  <2>1. PICK n \in Bad : \A m \in Bad : n <= m
    BY <1>3, LeastNat
  <2>2. CASE n = 0
    <3>1. Small(0) = {}
      BY <1>1
    <3> DEFINE g == [s \in Small(0) |-> 0]
    <3>2. g \in [Small(0) -> Nat] /\ SumsUp(f, Small(0), g)
      BY <3>1 DEF SumsUp
    <3> QED BY <2>1, <2>2, <3>2
  <2>3. CASE n # 0
    <3>1. n - 1 \in Nat /\ n - 1 \notin Bad
      <4>1. n - 1 \in Nat /\ ~ (n <= n - 1)
        BY <2>3
      <4> HIDE DEF Bad
      <4> QED BY <2>1, <4>1
    <3>2. PICK g \in [Small(n - 1) -> Nat] : SumsUp(f, Small(n - 1), g)
      BY <3>1
    <3> DEFINE h == [s \in Small(n) |->
                      IF s = {} THEN 0 ELSE f[OneOf(s)] + g[s \ {OneOf(s)}]]
    <3>3. ASSUME NEW s \in Small(n), s # {}
          PROVE  s \ {OneOf(s)} \in Small(n - 1) /\ f[OneOf(s)] \in Nat
      BY <1>1, <1>2, <3>1, <3>3
    <3>4. h \in [Small(n) -> Nat]
      BY <3>2, <3>3
    <3>5. ASSUME NEW s \in Small(n - 1) PROVE s \in Small(n) /\ h[s] = g[s]
      <4>1. s \in Small(n)
        BY <1>1, <2>1
      <4>2. g[s] = IF s = {} THEN 0 ELSE f[OneOf(s)] + g[s \ {OneOf(s)}]
        BY <3>2 DEF SumsUp
      <4> QED BY <4>1, <4>2
    <3>6. SumsUp(f, Small(n), h)
      <4>1. \A s \in Small(n) : h[s] = IF s = {} THEN 0 ELSE f[OneOf(s)] + h[s \ {OneOf(s)}]
        BY <3>3, <3>5
      <4> QED BY <4>1 DEF SumsUp
    <3> HIDE DEF h
    <3> QED BY <2>1, <3>4, <3>6
  <2> QED BY <2>2, <2>3
<1>4. PICK n \in Nat : n = Cardinality(S) + 1
  BY <1>1
<1>5. Small(n) = SUBSET S
  <2>1. \A s \in SUBSET S : Cardinality(s) <= Cardinality(S)
    BY FS_Subset
  <2> QED BY <1>1, <1>4, <2>1
<1>6. n \notin Bad
  BY <1>3
<1> QED BY <1>5, <1>6

LEMMA SumOfOneMore ==
  ASSUME NEW S, IsFiniteSet(S), NEW f \in [S -> Nat], NEW g \in [SUBSET S -> Nat],
         SumsUp(f, SUBSET S, g), NEW s \in SUBSET S, NEW x \in s
  PROVE  g[s] = f[x] + g[s \ {x}]
<1> DEFINE Fails(t, y) == g[t] # f[y] + g[t \ {y}]
           Bad == {n \in Nat : \E t \in SUBSET S : Cardinality(t) = n /\ \E y \in t : Fails(t, y)}
<1>1. \A t \in SUBSET S : IsFiniteSet(t) /\ Cardinality(t) \in Nat
  BY FS_Subset, FS_CardinalityType
<1>2. ASSUME Bad # {} PROVE FALSE
  <2>1. PICK n \in Bad : \A m \in Bad : n <= m
    BY <1>2, LeastNat
  <2>a. PICK t \in SUBSET S : Cardinality(t) = n /\ \E y \in t : Fails(t, y)
    BY <2>1
  <2>2. PICK y \in t : Cardinality(t) = n /\ Fails(t, y)
    BY <2>a
  <2> DEFINE c == OneOf(t)
  <2>3. c \in t /\ g[t] = f[c] + g[t \ {c}]
    BY DEF SumsUp, OneOf
  <2>4. c # y
    BY <2>2, <2>3
  <2> HIDE DEF c
  <2>5. /\ Cardinality(t \ {c}) = n - 1 /\ Cardinality(t \ {y}) = n - 1 /\ n - 1 \in Nat
        /\ n - 1 \notin Bad
    <3>1. Cardinality(t \ {c}) = Cardinality(t) - 1 /\ Cardinality(t \ {y}) = Cardinality(t) - 1
      BY <1>1, <2>3, FS_RemoveElement
    <3>2. Cardinality(t \ {c}) \in Nat
      BY <1>1
    <3> QED BY <2>1, <2>2, <3>1, <3>2
  <2>6. ~ Fails(t \ {c}, y) /\ ~ Fails(t \ {y}, c)
    <3>1. t \ {c} \in SUBSET S /\ y \in t \ {c} /\ t \ {y} \in SUBSET S /\ c \in t \ {y}
      BY <2>3, <2>4
    <3> QED BY <2>5, <3>1
  <2>7. (t \ {c}) \ {y} = (t \ {y}) \ {c}
    OBVIOUS
  <2>8. /\ g[t \ {c}] = f[y] + g[(t \ {c}) \ {y}] /\ g[t \ {y}] = f[c] + g[(t \ {c}) \ {y}]
        /\ f[c] \in Nat /\ f[y] \in Nat /\ g[(t \ {c}) \ {y}] \in Nat
    BY <2>3, <2>6, <2>7
  <2>9. g[t] = f[c] + (f[y] + g[(t \ {c}) \ {y}])
    BY <2>3, <2>8
  <2> QED BY <2>2, <2>8, <2>9
<1> QED BY <1>1, <1>2

LEMMA SumsAgree ==
  ASSUME NEW S, NEW T, IsFiniteSet(S), NEW f, NEW h, NEW g, NEW k,
         SumsUp(f, SUBSET S, g), SumsUp(h, SUBSET T, k),
         NEW s \in SUBSET S, s \subseteq T, \A x \in s : f[x] = h[x]
  PROVE  g[s] = k[s]
<1> DEFINE Bad == {n \in Nat : \E t \in SUBSET s : Cardinality(t) = n /\ g[t] # k[t]}
<1>1. \A t \in SUBSET s : IsFiniteSet(t) /\ Cardinality(t) \in Nat
  BY FS_Subset, FS_CardinalityType
<1>2. ASSUME Bad # {} PROVE FALSE
  <2>1. PICK n \in Bad : \A m \in Bad : n <= m
    BY <1>2, LeastNat
  <2>2. PICK t \in SUBSET s : Cardinality(t) = n /\ g[t] # k[t]
    BY <2>1
  <2> DEFINE c == OneOf(t)
  <2>3. t # {}
    BY <2>2 DEF SumsUp
  <2>4. c \in t /\ g[t] = f[c] + g[t \ {c}] /\ k[t] = h[c] + k[t \ {c}]
    BY <2>3 DEF SumsUp, OneOf
  <2> HIDE DEF c
  <2>5. Cardinality(t \ {c}) = n - 1 /\ n - 1 \in Nat /\ ~ (n <= n - 1)
    <3>1. IsFiniteSet(t) /\ t \ {c} \in SUBSET s
      BY <1>1
    <3>2. Cardinality(t \ {c}) = Cardinality(t) - 1
      BY <2>4, <3>1, FS_RemoveElement
    <3>3. Cardinality(t \ {c}) \in Nat
      BY <1>1, <3>1
    <3> QED BY <2>2, <3>2, <3>3
  <2>6. n - 1 \notin Bad
    <3> HIDE DEF Bad
    <3> QED BY <2>1, <2>5
  <2>7. g[t \ {c}] = k[t \ {c}]
    BY <2>5, <2>6
  <2> QED BY <2>2, <2>4, <2>7
<1> QED BY <1>1, <1>2

SumOf(f, S) == (CHOOSE g : SumsUp(f, SUBSET S, g))[S]

LEMMA SumOfIs ==
  ASSUME NEW S, IsFiniteSet(S), NEW f \in [S -> Nat], NEW T, NEW h, NEW k,
         SumsUp(h, SUBSET T, k), S \subseteq T, \A x \in S : h[x] = f[x]
  PROVE  SumOf(f, S) \in Nat /\ k[S] = SumOf(f, S) /\ (S = {} => SumOf(f, S) = 0)
<1>1. PICK g \in [SUBSET S -> Nat] : SumsUp(f, SUBSET S, g)
  BY SumsExist
<1>2. PICK i : SumsUp(f, SUBSET S, i) /\ SumOf(f, S) = i[S]
  <2>1. SumsUp(f, SUBSET S, CHOOSE i : SumsUp(f, SUBSET S, i))
    BY <1>1
  <2> QED BY <2>1 DEF SumOf
<1>a. S \in SUBSET S /\ S \subseteq S /\ \A x \in S : f[x] = f[x]
  OBVIOUS
<1>4. i[S] = k[S]
  BY <1>2, <1>a, SumsAgree
<1>5. g[S] = k[S]
  BY <1>1, <1>a, SumsAgree
<1>6. S = {} => g[S] = 0
  BY <1>1 DEF SumsUp
<1> QED BY <1>1, <1>2, <1>4, <1>5, <1>6

LEMMA SumOfMore ==
  ASSUME NEW S, IsFiniteSet(S), NEW f \in [S -> Nat], NEW x \in S,
         NEW h \in [S \ {x} -> Nat], \A y \in S \ {x} : h[y] = f[y]
  PROVE  SumOf(f, S) = f[x] + SumOf(h, S \ {x})
<1>1. PICK g \in [SUBSET S -> Nat] : SumsUp(f, SUBSET S, g)
  BY SumsExist
<1>2. g[S] = SumOf(f, S)
  BY <1>1, SumOfIs
<1>3. g[S \ {x}] = SumOf(h, S \ {x})
  <2>1. IsFiniteSet(S \ {x})
    BY FS_Subset
  <2>2. \A y \in S \ {x} : f[y] = h[y]
    OBVIOUS
  <2> DEFINE R == S \ {x}
  <2>3. R \subseteq S
    OBVIOUS
  <2> HIDE DEF R
  <2>4. IsFiniteSet(R) /\ h \in [R -> Nat] /\ \A y \in R : f[y] = h[y]
    BY <2>1, <2>2 DEF R
  <2>5. g[R] = SumOf(h, R)
    BY <1>1, <2>3, <2>4, SumOfIs
  <2> QED BY <2>5 DEF R
<1>4. g[S] = f[x] + g[S \ {x}]
  BY <1>1, SumOfOneMore
<1> QED BY <1>2, <1>3, <1>4

LEMMA SumIsBounded ==
  ASSUME NEW S, IsFiniteSet(S), NEW f \in [S -> Nat], \A x \in S : f[x] <= 100,
         NEW g \in [SUBSET S -> Nat], SumsUp(f, SUBSET S, g)
  PROVE  g[S] <= 100 * Cardinality(S)
<1> DEFINE Bad == {n \in Nat : \E t \in SUBSET S : Cardinality(t) = n /\ g[t] > 100 * n}
<1>1. \A t \in SUBSET S : IsFiniteSet(t) /\ Cardinality(t) \in Nat
  BY FS_Subset, FS_CardinalityType
<1>2. ASSUME Bad # {} PROVE FALSE
  <2>1. PICK n \in Bad : \A m \in Bad : n <= m
    BY <1>2, LeastNat
  <2>2. PICK t \in SUBSET S : Cardinality(t) = n /\ g[t] > 100 * n
    BY <2>1
  <2> DEFINE c == OneOf(t)
  <2>3. t # {} /\ n \in Nat
    BY <2>1, <2>2 DEF SumsUp
  <2>4. c \in t /\ g[t] = f[c] + g[t \ {c}] /\ f[c] \in Nat /\ f[c] <= 100 /\ g[t \ {c}] \in Nat
    BY <2>3 DEF SumsUp, OneOf
  <2> HIDE DEF c
  <2>5. Cardinality(t \ {c}) = n - 1 /\ n - 1 \in Nat /\ ~ (n <= n - 1)
    <3>1. Cardinality(t \ {c}) = Cardinality(t) - 1 /\ Cardinality(t \ {c}) \in Nat
      BY <1>1, <2>4, FS_RemoveElement
    <3> QED BY <2>2, <2>3, <3>1
  <2>6. n - 1 \notin Bad
    <3> HIDE DEF Bad
    <3> QED BY <2>1, <2>5
  <2>7. ~ (g[t \ {c}] > 100 * (n - 1))
    BY <2>5, <2>6
  <2> HIDE DEF Bad
  <2> QED BY <2>2, <2>3, <2>4, <2>7
<1>3. Cardinality(S) \notin Bad /\ Cardinality(S) \in Nat /\ g[S] \in Nat
  BY <1>1, <1>2
<1> QED BY <1>3

-----------------------------------------------------------------------------
(* aml-monitor.                                                            *)

Filed(sar) == reports[sar].status = "filed"

(* What the model says of the name and the type that a request asks about. *)
IsSanctioned(req) == <<req.entity, req.type>> \in Sanctioned

AskedAbout(entity) ==
  {c \in DOMAIN amlCalls :
    amlCalls[c].req.kind = "sanctions" /\ amlCalls[c].req.entity = entity}

(* What holds of a call: only a filing posts, a filing that was answered   *)
(* is on record, one that began after an answer posts nothing, and an      *)
(* answer about a name is the model's for one of its types.                *)
AMLCallIsFine(call) ==
  /\ call.at = "post" => call.req.kind = "file"
  /\ call.req.kind = "file" /\ call.at = "done" => Filed(call.req.sar)
  /\ call.afterFiling => Filed(call.req.sar) /\ ~ call.posted /\ call.at # "post"
  /\ call.req.kind = "sanctions" /\ call.at = "store" => call.verdict = IsSanctioned(call.req)
  /\ call.req.kind = "sanctions" /\ call.at = "done" =>
       \/ call.verdict = IsSanctioned(call.req)
       \/ \E k \in AskedAbout(call.req.entity) : amlCalls[k].req.type # call.req.type

CacheIsTheModels ==
  \A key \in DOMAIN sanctions :
    \E k \in AskedAbout(key) : sanctions[key] = IsSanctioned(amlCalls[k].req)

(* The requests of a client that have been past the counter.               *)
PastCounter(client) ==
  {c \in DOMAIN amlCalls : amlCalls[c].req.client = client /\ amlCalls[c].at # "limit"}

AMLTables ==
  /\ counter \in [Clients -> Nat] /\ expiring \subseteq Clients
  /\ \A client \in expiring : counter[client] > 0
  /\ reports \in [SARs -> [status : {"none", "draft", "filed"}, reference : BOOLEAN]]
  /\ analyses \in [Transactions -> AML!Verdicts]
  /\ findings \subseteq DOMAIN amlCalls /\ accepted \subseteq SARs \X DOMAIN amlCalls

AMLInv ==
  /\ amlCalls \in Seq(AML!Call) /\ Len(amlCalls) <= MaxAMLCalls
  /\ AMLTables
  /\ CacheIsTheModels
  /\ \A client \in Clients : counter[client] <= Cardinality(PastCounter(client))
  /\ \A c \in DOMAIN amlCalls :
       AMLCallIsFine(amlCalls[c]) /\ amlCalls[c].req.txns # << >>

LEMMA AMLConstants ==
  /\ \A req \in AMLRequests : req \in AML!Request /\ req.txns # << >>
  /\ MaxAMLCalls \in Nat /\ MaxFailures \in Nat /\ Limit \in Nat \ {0}
BY AMLAssumption DEF AML!ConstantsAssumption

LEMMA AMLInit == Init => AMLInv
<1> SUFFICES ASSUME Init PROVE AMLInv
  OBVIOUS
<1>1. AML!Init
  BY DEF Init
<1>2. amlCalls = << >> /\ amlCalls \in Seq(AML!Call) /\ DOMAIN amlCalls = {} /\ Len(amlCalls) = 0
  BY <1>1 DEF AML!Init
<1>3. \A client \in Clients : PastCounter(client) = {}
  BY <1>2 DEF PastCounter
<1>4. \A client \in Clients : counter[client] <= Cardinality(PastCounter(client))
  <2>1. \A client \in Clients : counter[client] = 0
    BY <1>1 DEF AML!Init
  <2>2. Cardinality({}) = 0
    BY FS_EmptySet
  <2> QED BY <1>3, <2>1, <2>2
<1>5. AMLTables /\ CacheIsTheModels
  BY <1>1, <1>2 DEF AML!Init, AMLTables, CacheIsTheModels, AML!Verdicts
<1> QED BY <1>2, <1>4, <1>5, AMLConstants DEF AMLInv

(* The counter of a client is at most the requests that passed it.         *)
LEMMA PastCounterIsFinite ==
  ASSUME AMLInv, NEW client \in Clients
  PROVE  /\ IsFiniteSet(PastCounter(client)) /\ Cardinality(PastCounter(client)) \in Nat
         /\ Cardinality(PastCounter(client)) <= MaxAMLCalls
<1>1. amlCalls \in Seq(AML!Call) /\ Len(amlCalls) <= MaxAMLCalls
  BY DEF AMLInv
<1>2. IsFiniteSet(DOMAIN amlCalls) /\ Cardinality(DOMAIN amlCalls) = Len(amlCalls)
  BY <1>1, Domain
<1>3. PastCounter(client) \subseteq DOMAIN amlCalls
  BY DEF PastCounter
<1>4. /\ IsFiniteSet(PastCounter(client))
      /\ Cardinality(PastCounter(client)) <= Cardinality(DOMAIN amlCalls)
  BY <1>2, <1>3, FS_Subset
<1>5. Cardinality(PastCounter(client)) \in Nat
  BY <1>4, FS_CardinalityType
<1> QED BY <1>1, <1>2, <1>4, <1>5, AMLConstants

(* A call that goes on: the others keep what holds of them, as a report    *)
(* that is filed stays so and requests do not change.                      *)
LEMMA AMLCallGoesOn ==
  ASSUME AMLInv, NEW c \in DOMAIN amlCalls, NEW call \in AML!Call,
         amlCalls' = [amlCalls EXCEPT ![c] = call],
         call.req = amlCalls[c].req, call.at # "limit",
         AMLTables',
         \A sar \in SARs : Filed(sar) => Filed(sar)',
         \A key \in DOMAIN sanctions' :
           \/ key \in DOMAIN sanctions /\ sanctions'[key] = sanctions[key]
           \/ /\ call.req.kind = "sanctions" /\ call.req.entity = key
              /\ sanctions'[key] = IsSanctioned(call.req),
         \A client \in Clients :
           \/ counter'[client] <= counter[client]
           \/ /\ counter'[client] = counter[client] + 1
              /\ client = call.req.client /\ amlCalls[c].at = "limit",
         AMLCallIsFine(call)'
  PROVE  AMLInv'
<1>1. /\ amlCalls \in Seq(AML!Call) /\ Len(amlCalls) <= MaxAMLCalls
      /\ \A k \in DOMAIN amlCalls : amlCalls[k] \in AML!Call /\ AMLCallIsFine(amlCalls[k])
      /\ \A k \in DOMAIN amlCalls : amlCalls[k].req.txns # << >>
      /\ counter \in [Clients -> Nat] /\ counter' \in [Clients -> Nat]
  BY Domain DEF AMLInv, AMLTables
<1>2. /\ amlCalls' \in Seq(AML!Call) /\ Len(amlCalls') = Len(amlCalls)
      /\ DOMAIN amlCalls' = DOMAIN amlCalls
      /\ amlCalls'[c] = call /\ \A k \in DOMAIN amlCalls : k # c => amlCalls'[k] = amlCalls[k]
  BY <1>1, Replaced
<1>3. \A k \in DOMAIN amlCalls : amlCalls'[k].req = amlCalls[k].req
  BY <1>2
<1>4. \A entity : AskedAbout(entity)' = AskedAbout(entity)
  BY <1>2, <1>3 DEF AskedAbout
<1>5. CacheIsTheModels'
  <2> SUFFICES ASSUME NEW key \in DOMAIN sanctions'
      PROVE  \E k \in AskedAbout(key)' : sanctions'[key] = IsSanctioned(amlCalls'[k].req)
    BY DEF CacheIsTheModels, IsSanctioned
  <2>1. CASE key \in DOMAIN sanctions /\ sanctions'[key] = sanctions[key]
    <3>1. PICK k \in AskedAbout(key) : sanctions[key] = IsSanctioned(amlCalls[k].req)
      BY <2>1 DEF AMLInv, CacheIsTheModels
    <3>2. amlCalls'[k].req = amlCalls[k].req
      BY <1>3, <3>1 DEF AskedAbout
    <3> QED BY <1>4, <2>1, <3>1, <3>2
  <2>2. CASE /\ call.req.kind = "sanctions" /\ call.req.entity = key
             /\ sanctions'[key] = IsSanctioned(call.req)
    <3>1. c \in AskedAbout(key)
      BY <2>2 DEF AskedAbout
    <3> QED BY <1>2, <1>4, <2>2, <3>1
  <2> QED BY <2>1, <2>2
<1>6. ASSUME NEW client \in Clients
      PROVE  counter'[client] <= Cardinality(PastCounter(client)')
  <2>1. /\ PastCounter(client) \subseteq PastCounter(client)'
        /\ amlCalls[c].at = "limit" /\ client = call.req.client
             => c \notin PastCounter(client) /\ c \in PastCounter(client)'
    BY <1>2 DEF PastCounter
  <2>2. IsFiniteSet(PastCounter(client)')
    <3>1. PastCounter(client)' \subseteq DOMAIN amlCalls
      BY <1>2 DEF PastCounter
    <3> QED BY <1>1, <3>1, Domain, FS_Subset
  <2>3. /\ Cardinality(PastCounter(client)) <= Cardinality(PastCounter(client)')
        /\ Cardinality(PastCounter(client)) \in Nat /\ Cardinality(PastCounter(client)') \in Nat
    BY <2>1, <2>2, PastCounterIsFinite, FS_Subset, FS_CardinalityType
  <2>4. counter[client] <= Cardinality(PastCounter(client)) /\ counter[client] \in Nat
        /\ counter'[client] \in Nat
    BY <1>1 DEF AMLInv
  <2>5. CASE counter'[client] <= counter[client]
    BY <2>3, <2>4, <2>5
  <2>6. CASE /\ counter'[client] = counter[client] + 1
             /\ client = call.req.client /\ amlCalls[c].at = "limit"
    <3>1. PastCounter(client) \cup {c} \subseteq PastCounter(client)' /\ c \notin PastCounter(client)
      BY <2>1, <2>6
    <3>2. /\ IsFiniteSet(PastCounter(client) \cup {c})
          /\ Cardinality(PastCounter(client) \cup {c}) = Cardinality(PastCounter(client)) + 1
      BY <3>1, PastCounterIsFinite, FS_AddElement
    <3>3. Cardinality(PastCounter(client) \cup {c}) <= Cardinality(PastCounter(client)')
      BY <2>2, <3>1, FS_Subset
    <3> QED BY <2>3, <2>4, <2>6, <3>2, <3>3
  <2> QED BY <2>5, <2>6
<1>7. ASSUME NEW k \in DOMAIN amlCalls
      PROVE  (AMLCallIsFine(amlCalls[k]) /\ amlCalls[k].req.txns # << >>)'
  <2>1. CASE k = c
    <3>1. call.req.txns # << >>
      BY <1>1
    <3> QED BY <1>2, <2>1, <3>1
  <2>2. CASE k # c
    <3>1. PICK other \in AML!Call : other = amlCalls[k]
      BY <1>1
    <3>2. AMLCallIsFine(other) /\ amlCalls'[k] = other /\ other.req.txns # << >>
      BY <1>1, <1>2, <2>2, <3>1
    <3>3. other.req.sar \in SARs
      BY DEF AML!Call, AML!Request
    <3>4. AMLCallIsFine(other)'
      BY <1>3, <1>4, <3>2, <3>3 DEF AMLCallIsFine, AskedAbout
    <3> QED BY <3>2, <3>4
  <2> QED BY <2>1, <2>2
<1> QED BY <1>1, <1>2, <1>5, <1>6, <1>7 DEF AMLInv

(* The actions that take one call further.                                 *)
LEMMA AMLHandlersKeep ==
  ASSUME AMLInv, NEW c \in DOMAIN amlCalls,
         \/ AML!Increment(c) \/ AML!SetExpiry(c) \/ AML!ModelFails(c) \/ AML!Ask(c)
         \/ AML!StoreAnalysis(c) \/ AML!StoreFinding(c) \/ AML!GetTransactionRiskScore(c)
         \/ AML!LookForSanctions(c) \/ AML!CacheSanctions(c) \/ AML!StoreSAR(c)
         \/ AML!GetSAR(c) \/ AML!FileWithRegulator(c) \/ AML!UpdateSARStatus(c)
  PROVE  AMLInv'
<1>1. /\ amlCalls \in Seq(AML!Call) /\ amlCalls[c] \in AML!Call
      /\ AMLCallIsFine(amlCalls[c]) /\ amlCalls[c].req.txns # << >>
      /\ AMLTables /\ CacheIsTheModels
  BY Domain DEF AMLInv
<1>2. PICK old \in AML!Call : old = amlCalls[c]
  BY <1>1
<1>3. /\ old.req \in AML!Request /\ old.req.client \in Clients /\ old.req.sar \in SARs
      /\ old.req.txns \in Seq(Transactions) /\ old.req.txns # << >>
      /\ AMLCallIsFine(old) /\ old.next \in Nat
  BY <1>1, <1>2 DEF AML!Call, AML!Request
<1> DEFINE Goes(call) == /\ call \in AML!Call /\ amlCalls' = [amlCalls EXCEPT ![c] = call]
                         /\ call.req = old.req /\ call.at # "limit"
                         /\ call.afterFiling = old.afterFiling
<1>4. ASSUME NEW call, Goes(call),
             AMLTables',
             \A sar \in SARs : Filed(sar) => Filed(sar)',
             sanctions' = sanctions,
             \A client \in Clients :
               \/ counter'[client] <= counter[client]
               \/ /\ counter'[client] = counter[client] + 1
                  /\ client = old.req.client /\ old.at = "limit",
             call.at = "post" => old.req.kind = "file" /\ ~ old.afterFiling,
             call.posted = old.posted \/ old.at = "post",
             old.req.kind = "file" /\ call.at = "done" => Filed(old.req.sar)',
             old.req.kind = "sanctions" =>
               \/ call.at \notin {"store", "done"}
               \/ call.verdict = IsSanctioned(old.req)
               \/ /\ call.at = "done"
                  /\ \E k \in AskedAbout(old.req.entity) : amlCalls[k].req.type # old.req.type
      PROVE  AMLInv'
  <2>1. \A k \in DOMAIN amlCalls : amlCalls'[k].req = amlCalls[k].req
    BY <1>1, <1>2, <1>4, Replaced
  <2>2. DOMAIN amlCalls' = DOMAIN amlCalls
    BY <1>1, <1>4, Replaced
  <2>3. \A entity : AskedAbout(entity)' = AskedAbout(entity)
    BY <2>1, <2>2 DEF AskedAbout
  <2>4. (\E k \in AskedAbout(old.req.entity) : amlCalls[k].req.type # old.req.type)
          => (\E k \in AskedAbout(old.req.entity) : amlCalls[k].req.type # old.req.type)'
    BY <2>1, <2>3 DEF AskedAbout
  <2>5. old.afterFiling => Filed(old.req.sar)' /\ ~ call.posted /\ call.at # "post"
    BY <1>3, <1>4 DEF AMLCallIsFine
  <2>6. call.at = "post" => call.req.kind = "file"
    BY <1>4
  <2>7. /\ call.req.kind = "sanctions" /\ call.at = "store" => call.verdict = IsSanctioned(call.req)
        /\ call.req.kind = "sanctions" /\ call.at = "done" =>
             \/ call.verdict = IsSanctioned(call.req)
             \/ (\E k \in AskedAbout(old.req.entity) : amlCalls[k].req.type # old.req.type)'
    BY <1>4, <2>4
  <2>8. AMLCallIsFine(call)'
    BY <1>4, <2>5, <2>6, <2>7 DEF AMLCallIsFine, IsSanctioned
  <2> QED BY <1>2, <1>4, <2>8, AMLCallGoesOn
<1>5. ASSUME NEW call, Goes(call)
      PROVE  DOMAIN amlCalls' = DOMAIN amlCalls
  BY <1>1, <1>5, Replaced
<1>6. ASSUME NEW stage \in AML!Stages \cup AML!Ends, stage # "limit", AML!MoveTo(c, stage)
      PROVE  \E call : Goes(call) /\ call.at = stage /\ call.posted = old.posted
                       /\ call.verdict = old.verdict
  <2>1. PICK call : call = [old EXCEPT !.at = stage]
    OBVIOUS
  <2>2. call \in AML!Call /\ call.req = old.req /\ call.at = stage /\ call.posted = old.posted
        /\ call.afterFiling = old.afterFiling /\ call.verdict = old.verdict
    BY <2>1 DEF AML!Call
  <2>3. amlCalls' = [amlCalls EXCEPT ![c] = call]
    BY <1>2, <1>6, <2>1 DEF AML!MoveTo
  <2> QED BY <1>6, <2>2, <2>3
<1>7. ASSUME UNCHANGED counter
      PROVE  \A client \in Clients : counter'[client] <= counter[client]
  BY <1>1, <1>7 DEF AMLTables
<1>8. /\ \A kind \in AML!Kinds : AML!FirstStage(kind) \in {"look", "ask"}
      /\ {"look", "ask", "expire", "post", "store"} \subseteq AML!Stages
      /\ AML!Ends = {"done", "limited", "unauthorized", "refused", "missing", "error", "lost"}
  BY DEF AML!FirstStage, AML!Stages, AML!Ends
<1>9. ASSUME NEW call, Goes(call), call.posted = old.posted, call.at # "post",
             UNCHANGED <<counter, sanctions>>,
             UNCHANGED <<expiring, accepted, reports>>,
             analyses' \in [Transactions -> AML!Verdicts], findings' \subseteq DOMAIN amlCalls,
             old.req.kind = "file" => call.at # "done",
             old.req.kind = "sanctions" =>
               \/ call.at \notin {"store", "done"}
               \/ call.verdict = IsSanctioned(old.req)
               \/ /\ call.at = "done"
                  /\ \E k \in AskedAbout(old.req.entity) : amlCalls[k].req.type # old.req.type
      PROVE  AMLInv'
  <2>1. DOMAIN amlCalls' = DOMAIN amlCalls
    BY <1>5, <1>9
  <2>2. AMLTables'
    BY <1>1, <1>9, <2>1 DEF AMLTables
  <2>3. \A sar \in SARs : Filed(sar) => Filed(sar)'
    BY <1>9 DEF Filed
  <2>4. \A client \in Clients :
          \/ counter'[client] <= counter[client]
          \/ /\ counter'[client] = counter[client] + 1
             /\ client = old.req.client /\ old.at = "limit"
    BY <1>7, <1>9
  <2>5. sanctions' = sanctions
    BY <1>9
  <2> QED BY <1>4, <1>9, <2>2, <2>3, <2>4, <2>5
<1>10. CASE AML!Increment(c)
  <2>1. old.at = "limit" /\ UNCHANGED <<expiring, reports, analyses, findings, sanctions, accepted>>
    BY <1>2, <1>10 DEF AML!Increment, AML!tables, AML!limiter
  <2>2. PICK stage \in {"look", "ask", "expire", "limited"} : AML!MoveTo(c, stage)
    BY <1>2, <1>3, <1>8, <1>10 DEF AML!Increment, AML!Request
  <2>3. PICK call : Goes(call) /\ call.at = stage /\ call.posted = old.posted
    BY <1>6, <1>8, <2>2
  <2>4. counter' = counter \/ counter' = [counter EXCEPT ![old.req.client] = counter[old.req.client] + 1]
    BY <1>2, <1>10 DEF AML!Increment, AML!tables, AML!limiter
  <2>5. /\ counter' \in [Clients -> Nat]
        /\ \A client \in Clients : counter[client] > 0 => counter'[client] > 0
        /\ \A client \in Clients :
             \/ counter'[client] <= counter[client]
             \/ /\ counter'[client] = counter[client] + 1
                /\ client = old.req.client /\ old.at = "limit"
    <3>1. counter \in [Clients -> Nat] /\ old.req.client \in Clients
      BY <1>1, <1>3 DEF AMLTables
    <3> QED BY <2>1, <2>4, <3>1
  <2>6. AMLTables' /\ \A sar \in SARs : Filed(sar) => Filed(sar)'
    BY <1>1, <1>5, <2>1, <2>3, <2>5 DEF AMLTables, Filed
  <2> QED BY <1>4, <2>1, <2>2, <2>3, <2>5, <2>6
<1>11. CASE AML!SetExpiry(c)
  <2>1. UNCHANGED <<counter, reports, analyses, findings, sanctions, accepted>>
    BY <1>11 DEF AML!SetExpiry, AML!tables, AML!limiter
  <2>2. PICK stage \in {"look", "ask"} : AML!MoveTo(c, stage)
    BY <1>2, <1>3, <1>8, <1>11 DEF AML!SetExpiry, AML!Request
  <2>3. PICK call : Goes(call) /\ call.at = stage /\ call.posted = old.posted
    BY <1>6, <1>8, <2>2
  <2>4. /\ expiring' \subseteq Clients
        /\ \A client \in expiring' : counter[client] > 0
    BY <1>1, <1>2, <1>3, <1>11 DEF AML!SetExpiry, AML!tables, AML!limiter, AMLTables
  <2>5. AMLTables' /\ \A sar \in SARs : Filed(sar) => Filed(sar)'
    BY <1>1, <1>5, <2>1, <2>3, <2>4 DEF AMLTables, Filed
  <2>6. \A client \in Clients :
          \/ counter'[client] <= counter[client]
          \/ /\ counter'[client] = counter[client] + 1
             /\ client = old.req.client /\ old.at = "limit"
    BY <1>7, <2>1
  <2> QED BY <1>4, <2>1, <2>2, <2>3, <2>5, <2>6
<1>12. CASE AML!ModelFails(c)
  <2>1. /\ UNCHANGED <<counter, sanctions>>
        /\ UNCHANGED <<expiring, accepted, reports>> /\ UNCHANGED <<analyses, findings>>
    BY <1>12 DEF AML!ModelFails, AML!tables, AML!limiter
  <2>2. analyses' \in [Transactions -> AML!Verdicts] /\ findings' \subseteq DOMAIN amlCalls
    BY <1>1, <2>1 DEF AMLTables
  <2>3. CASE AML!MoveTo(c, "error")
    <3>1. PICK call : Goes(call) /\ call.at = "error" /\ call.posted = old.posted
      BY <1>6, <1>8, <2>3
    <3> QED BY <1>9, <2>1, <2>2, <3>1
  <2>4. CASE ~ AML!MoveTo(c, "error")
    <3>1. PICK stage \in {"done", "ask"} :
            amlCalls' = [amlCalls EXCEPT ![c].next = @ + 1, ![c].at = stage]
      BY <1>12, <2>4 DEF AML!ModelFails, AML!tables, AML!limiter
    <3>a. PICK n \in Nat : n = old.next + 1
      BY <1>3
    <3>2. PICK call : call = [old EXCEPT !.next = n, !.at = stage]
      OBVIOUS
    <3>3. call \in AML!Call /\ call.req = old.req /\ call.at = stage /\ call.posted = old.posted
          /\ call.afterFiling = old.afterFiling
      BY <1>3, <1>8, <3>2 DEF AML!Call
    <3>4. amlCalls' = [amlCalls EXCEPT ![c] = call]
      BY <1>1, <1>2, <3>1, <3>2, <3>a
    <3>5. old.req.kind = "batch"
      BY <1>2, <1>12, <2>4 DEF AML!ModelFails, AML!tables, AML!limiter
    <3>6. Goes(call)
      BY <3>3, <3>4
    <3> QED BY <1>9, <2>1, <2>2, <3>3, <3>5, <3>6
  <2> QED BY <2>3, <2>4
<1>13. CASE AML!Ask(c)
  <2>1. /\ UNCHANGED <<counter, sanctions>>
        /\ UNCHANGED <<expiring, accepted, reports>> /\ UNCHANGED <<analyses, findings>>
    BY <1>13 DEF AML!Ask, AML!tables, AML!limiter
  <2>2. analyses' \in [Transactions -> AML!Verdicts] /\ findings' \subseteq DOMAIN amlCalls
    BY <1>1, <2>1 DEF AMLTables
  <2>3. PICK verdict \in BOOLEAN :
          /\ old.req.kind = "sanctions" => verdict = IsSanctioned(old.req)
          /\ amlCalls' = [amlCalls EXCEPT ![c].verdict = verdict, ![c].at = "store"]
    BY <1>2, <1>13 DEF AML!Ask, IsSanctioned
  <2>4. PICK call : call = [old EXCEPT !.verdict = verdict, !.at = "store"]
    OBVIOUS
  <2>5. call \in AML!Call /\ call.req = old.req /\ call.at = "store" /\ call.posted = old.posted
        /\ call.afterFiling = old.afterFiling /\ call.verdict = verdict
    BY <1>3, <1>8, <2>4 DEF AML!Call
  <2>6. amlCalls' = [amlCalls EXCEPT ![c] = call]
    BY <1>1, <1>2, <2>3, <2>4
  <2>7. Goes(call)
    BY <2>5, <2>6
  <2> QED BY <1>9, <2>1, <2>2, <2>3, <2>5, <2>7
<1>14. CASE AML!StoreAnalysis(c)
  <2>1. /\ UNCHANGED <<counter, sanctions>> /\ UNCHANGED <<expiring, accepted, reports>>
        /\ UNCHANGED findings /\ old.req.kind \in {"analyze", "batch"}
    BY <1>2, <1>14 DEF AML!StoreAnalysis, AML!tables, AML!limiter
  <2>2. \/ analyses' = analyses
        \/ \E t : \/ analyses' = [analyses EXCEPT ![t] = "clear"]
                 \/ analyses' = [analyses EXCEPT ![t] = "flagged"]
    <3>1. \/ analyses' = analyses
          \/ analyses' = [analyses EXCEPT ![old.req.txns[old.next]] =
                            IF old.verdict THEN "flagged" ELSE "clear"]
      BY <1>2, <1>14 DEF AML!StoreAnalysis
    <3> QED BY <3>1
  <2>3. analyses' \in [Transactions -> AML!Verdicts] /\ findings' \subseteq DOMAIN amlCalls
    BY <1>1, <2>1, <2>2 DEF AMLTables, AML!Verdicts
  <2>4. PICK stage \in {"done", "ask"} :
          amlCalls' = [amlCalls EXCEPT ![c].next = @ + 1, ![c].at = stage]
    <3>1. PICK stage : /\ stage = IF old.req.kind = "analyze" \/ old.next = Len(old.req.txns) THEN "done" ELSE "ask"
                       /\ amlCalls' = [amlCalls EXCEPT ![c].next = @ + 1, ![c].at = stage]
      BY <1>2, <1>14 DEF AML!StoreAnalysis
    <3> QED BY <3>1
  <2>a. PICK n \in Nat : n = old.next + 1
    BY <1>3
  <2>5. PICK call : call = [old EXCEPT !.next = n, !.at = stage]
    OBVIOUS
  <2>6. call \in AML!Call /\ call.req = old.req /\ call.at = stage /\ call.posted = old.posted
        /\ call.afterFiling = old.afterFiling
    BY <1>3, <1>8, <2>5 DEF AML!Call
  <2>7. amlCalls' = [amlCalls EXCEPT ![c] = call]
    BY <1>1, <1>2, <2>4, <2>5, <2>a
  <2>8. Goes(call)
    BY <2>6, <2>7
  <2> QED BY <1>9, <2>1, <2>3, <2>6, <2>8
<1>15. CASE AML!StoreFinding(c)
  <2>1. /\ UNCHANGED <<counter, sanctions>> /\ UNCHANGED <<expiring, accepted, reports>>
        /\ UNCHANGED analyses /\ old.req.kind \in {"patterns", "funds"}
        /\ findings' \subseteq findings \cup {c} /\ AML!MoveTo(c, "done")
    BY <1>2, <1>15 DEF AML!StoreFinding, AML!tables, AML!limiter
  <2>2. analyses' \in [Transactions -> AML!Verdicts] /\ findings' \subseteq DOMAIN amlCalls
    BY <1>1, <2>1 DEF AMLTables
  <2>3. PICK call : Goes(call) /\ call.at = "done" /\ call.posted = old.posted
    BY <1>6, <1>8, <2>1
  <2> QED BY <1>9, <2>1, <2>2, <2>3
<1>16. CASE AML!GetTransactionRiskScore(c)
  <2>1. /\ UNCHANGED <<counter, sanctions>> /\ UNCHANGED <<expiring, accepted, reports>>
        /\ UNCHANGED <<analyses, findings>> /\ old.req.kind = "score"
    BY <1>2, <1>16 DEF AML!GetTransactionRiskScore, AML!tables, AML!limiter
  <2>2. analyses' \in [Transactions -> AML!Verdicts] /\ findings' \subseteq DOMAIN amlCalls
    BY <1>1, <2>1 DEF AMLTables
  <2>3. PICK stage \in {"missing", "done"} : AML!MoveTo(c, stage)
    BY <1>16 DEF AML!GetTransactionRiskScore, AML!tables, AML!limiter
  <2>4. PICK call : Goes(call) /\ call.at = stage /\ call.posted = old.posted
    BY <1>6, <1>8, <2>3
  <2> QED BY <1>9, <2>1, <2>2, <2>4
<1>17. CASE AML!LookForSanctions(c)
  <2>1. /\ UNCHANGED <<counter, sanctions>> /\ UNCHANGED <<expiring, accepted, reports>>
        /\ UNCHANGED <<analyses, findings>> /\ old.req.kind = "sanctions"
    BY <1>2, <1>17 DEF AML!LookForSanctions, AML!tables, AML!limiter
  <2>2. analyses' \in [Transactions -> AML!Verdicts] /\ findings' \subseteq DOMAIN amlCalls
    BY <1>1, <2>1 DEF AMLTables
  <2>3. CASE AML!MoveTo(c, "ask")
    <3>1. PICK call : Goes(call) /\ call.at = "ask" /\ call.posted = old.posted
      BY <1>6, <1>8, <2>3
    <3> QED BY <1>9, <2>1, <2>2, <3>1
  <2>4. CASE ~ AML!MoveTo(c, "ask")
    <3>1. /\ old.req.entity \in DOMAIN sanctions
          /\ amlCalls' = [amlCalls EXCEPT ![c].verdict = sanctions[old.req.entity], ![c].at = "done"]
      BY <1>2, <1>17, <2>4 DEF AML!LookForSanctions, AML!CacheKey
    <3>2. PICK k \in AskedAbout(old.req.entity) :
            sanctions[old.req.entity] = IsSanctioned(amlCalls[k].req)
      BY <1>1, <3>1 DEF CacheIsTheModels
    <3>a. PICK answer \in BOOLEAN : answer = IsSanctioned(amlCalls[k].req)
      <4>1. IsSanctioned(amlCalls[k].req) \in BOOLEAN
        BY DEF IsSanctioned
      <4> QED BY <4>1
    <3>3. PICK call : call = [old EXCEPT !.verdict = answer, !.at = "done"]
      OBVIOUS
    <3>4. call \in AML!Call /\ call.req = old.req /\ call.at = "done" /\ call.posted = old.posted
          /\ call.afterFiling = old.afterFiling /\ call.verdict = answer
      BY <1>3, <1>8, <3>3 DEF AML!Call
    <3>5. amlCalls' = [amlCalls EXCEPT ![c] = call]
      BY <1>1, <1>2, <3>1, <3>2, <3>3, <3>a
    <3>6. amlCalls[k].req.entity = old.req.entity
      BY <3>2 DEF AskedAbout
    <3>7. amlCalls[k].req.type = old.req.type => call.verdict = IsSanctioned(old.req)
      BY <3>4, <3>6, <3>a DEF IsSanctioned
    <3>8. Goes(call)
      BY <3>4, <3>5
    <3> QED BY <1>9, <2>1, <2>2, <3>2, <3>4, <3>7, <3>8
  <2> QED BY <2>3, <2>4
<1>18. CASE AML!CacheSanctions(c)
  <2>1. /\ UNCHANGED <<counter, expiring, accepted, reports, analyses, findings>>
        /\ old.req.kind = "sanctions" /\ old.at = "store" /\ AML!MoveTo(c, "done")
    BY <1>2, <1>18 DEF AML!CacheSanctions, AML!limiter
  <2>2. \/ sanctions' = sanctions
        \/ sanctions' = [k \in DOMAIN sanctions \cup {old.req.entity} |->
                           IF k = old.req.entity THEN old.verdict ELSE sanctions[k]]
    BY <1>2, <1>18 DEF AML!CacheSanctions, AML!CacheKey
  <2>3. PICK call : Goes(call) /\ call.at = "done" /\ call.posted = old.posted
                    /\ call.verdict = old.verdict
    BY <1>6, <1>8, <2>1
  <2>4. old.verdict = IsSanctioned(old.req)
    BY <1>3, <2>1 DEF AMLCallIsFine
  <2>5. \A key \in DOMAIN sanctions' :
          \/ key \in DOMAIN sanctions /\ sanctions'[key] = sanctions[key]
          \/ /\ call.req.kind = "sanctions" /\ call.req.entity = key
             /\ sanctions'[key] = IsSanctioned(call.req)
    BY <2>1, <2>2, <2>3, <2>4
  <2>6. AMLTables' /\ \A sar \in SARs : Filed(sar) => Filed(sar)'
    BY <1>1, <1>5, <2>1, <2>3 DEF AMLTables, Filed
  <2>7. AMLCallIsFine(call)'
    BY <1>3, <2>1, <2>3, <2>4, <2>6 DEF AMLCallIsFine, IsSanctioned
  <2>8. \A client \in Clients :
          \/ counter'[client] <= counter[client]
          \/ /\ counter'[client] = counter[client] + 1
             /\ client = call.req.client /\ amlCalls[c].at = "limit"
    BY <1>7, <2>1
  <2> QED BY <1>2, <2>3, <2>5, <2>6, <2>7, <2>8, AMLCallGoesOn
<1>19. CASE AML!StoreSAR(c)
  <2>1. /\ UNCHANGED <<counter, expiring, accepted, analyses, findings, sanctions>>
        /\ old.req.kind = "generate"
    BY <1>2, <1>19 DEF AML!StoreSAR, AML!limiter
  <2>2. \/ reports' = reports
        \/ /\ reports[old.req.sar].status = "none"
           /\ reports' = [reports EXCEPT ![old.req.sar].status = "draft"]
    BY <1>2, <1>19 DEF AML!StoreSAR
  <2>3. PICK stage \in {"done", "error"} : AML!MoveTo(c, stage)
    BY <1>19 DEF AML!StoreSAR
  <2>4. PICK call : Goes(call) /\ call.at = stage /\ call.posted = old.posted
    BY <1>6, <1>8, <2>3
  <2>5. /\ reports' \in [SARs -> [status : {"none", "draft", "filed"}, reference : BOOLEAN]]
        /\ \A sar \in SARs : Filed(sar) => Filed(sar)'
    BY <1>1, <1>3, <2>2 DEF AMLTables, Filed
  <2>6. AMLTables'
    BY <1>1, <1>5, <2>1, <2>4, <2>5 DEF AMLTables
  <2> QED BY <1>4, <1>7, <2>1, <2>3, <2>4, <2>5, <2>6
<1>20. CASE AML!GetSAR(c)
  <2>1. /\ UNCHANGED <<counter, expiring, accepted, reports, analyses, findings, sanctions>>
        /\ old.req.kind = "file"
    BY <1>2, <1>20 DEF AML!GetSAR, AML!limiter, AML!tables
  <2>2. PICK stage \in {"missing", "refused", "post"} :
          AML!MoveTo(c, stage) /\ (stage = "post" => ~ Filed(old.req.sar))
    BY <1>2, <1>20 DEF AML!GetSAR, AML!AlreadyFiled, Filed
  <2>3. PICK call : Goes(call) /\ call.at = stage /\ call.posted = old.posted
    BY <1>6, <1>8, <2>2
  <2>4. stage = "post" => ~ old.afterFiling
    BY <1>3, <2>2 DEF AMLCallIsFine
  <2>5. AMLTables' /\ \A sar \in SARs : Filed(sar) => Filed(sar)'
    BY <1>1, <1>5, <2>1, <2>3 DEF AMLTables, Filed
  <2> QED BY <1>4, <1>7, <2>1, <2>2, <2>3, <2>4, <2>5
<1>21. CASE AML!FileWithRegulator(c)
  <2>1. /\ UNCHANGED <<counter, expiring, reports, analyses, findings, sanctions>>
        /\ old.at = "post" /\ accepted' \subseteq accepted \cup {<<old.req.sar, c>>}
    BY <1>2, <1>21 DEF AML!FileWithRegulator, AML!limiter, AML!tables
  <2>2. PICK success \in BOOLEAN, reference \in BOOLEAN :
          amlCalls' = [amlCalls EXCEPT ![c].at = "store", ![c].posted = old.req.usable,
                                       ![c].success = success, ![c].reference = reference]
    BY <1>2, <1>21 DEF AML!FileWithRegulator
  <2>3. PICK posted \in BOOLEAN : posted = old.req.usable
    BY <1>3 DEF AML!Request
  <2>4. PICK call : call = [old EXCEPT !.at = "store", !.posted = posted,
                                       !.success = success, !.reference = reference]
    OBVIOUS
  <2>5. call \in AML!Call /\ call.req = old.req /\ call.at = "store"
        /\ call.afterFiling = old.afterFiling
    BY <1>3, <1>8, <2>4 DEF AML!Call
  <2>6. amlCalls' = [amlCalls EXCEPT ![c] = call]
    BY <1>1, <1>2, <2>2, <2>3, <2>4
  <2>7. Goes(call)
    BY <2>5, <2>6
  <2>8. old.req.kind = "file"
    BY <1>3, <2>1 DEF AMLCallIsFine
  <2>9. AMLTables' /\ \A sar \in SARs : Filed(sar) => Filed(sar)'
    BY <1>1, <1>3, <1>5, <2>1, <2>7 DEF AMLTables, Filed
  <2> QED BY <1>4, <1>7, <2>1, <2>5, <2>7, <2>8, <2>9
<1>22. CASE AML!UpdateSARStatus(c)
  <2>1. /\ UNCHANGED <<counter, expiring, accepted, analyses, findings, sanctions>>
        /\ old.req.kind = "file"
    BY <1>2, <1>22 DEF AML!UpdateSARStatus, AML!limiter
  <2>2. PICK stage \in {"done", "error"} :
          /\ AML!MoveTo(c, stage)
          /\ \/ stage = "error" /\ reports' = reports
             \/ reports' = [reports EXCEPT ![old.req.sar] =
                              [status |-> "filed", reference |-> old.reference]]
    BY <1>2, <1>22 DEF AML!UpdateSARStatus
  <2>3. PICK call : Goes(call) /\ call.at = stage /\ call.posted = old.posted
    BY <1>6, <1>8, <2>2
  <2>4. old.reference \in BOOLEAN
    BY <1>3 DEF AML!Call
  <2>5. /\ reports' \in [SARs -> [status : {"none", "draft", "filed"}, reference : BOOLEAN]]
        /\ \A sar \in SARs : Filed(sar) => Filed(sar)'
        /\ stage = "done" => Filed(old.req.sar)'
    <3>1. reports \in [SARs -> [status : {"none", "draft", "filed"}, reference : BOOLEAN]]
      BY <1>1 DEF AMLTables
    <3>2. PICK row \in [status : {"none", "draft", "filed"}, reference : BOOLEAN] :
            row = [status |-> "filed", reference |-> old.reference] /\ row.status = "filed"
      <4>1. [status |-> "filed", reference |-> old.reference]
              \in [status : {"none", "draft", "filed"}, reference : BOOLEAN]
        BY <2>4
      <4> QED BY <4>1
    <3>3. \/ stage = "error" /\ reports' = reports
          \/ reports' = [reports EXCEPT ![old.req.sar] = row]
      BY <2>2, <3>2
    <3> QED BY <1>3, <3>1, <3>2, <3>3 DEF Filed
  <2>6. AMLTables'
    BY <1>1, <1>5, <2>1, <2>3, <2>5 DEF AMLTables
  <2> QED BY <1>4, <1>7, <2>1, <2>2, <2>3, <2>5, <2>6
<1> QED BY <1>10, <1>11, <1>12, <1>13, <1>14, <1>15, <1>16, <1>17, <1>18, <1>19, <1>20, <1>21, <1>22

(* A request that arrives: nothing else has changed, and a filing it may   *)
(* see answered is on record.                                              *)
LEMMA AMLReceiveKeeps ==
  ASSUME AMLInv, NEW req \in AMLRequests, AML!Receive(req)
  PROVE  AMLInv'
<1>1. /\ amlCalls \in Seq(AML!Call) /\ Len(amlCalls) \in Nat /\ Len(amlCalls) <= MaxAMLCalls
      /\ \A k \in DOMAIN amlCalls : amlCalls[k] \in AML!Call /\ AMLCallIsFine(amlCalls[k])
      /\ \A k \in DOMAIN amlCalls : amlCalls[k].req.txns # << >>
      /\ AMLTables /\ CacheIsTheModels
  BY Domain DEF AMLInv
<1>2. /\ req \in AML!Request /\ req.txns # << >> /\ req.sar \in SARs
      /\ Len(amlCalls) < MaxAMLCalls /\ MaxAMLCalls \in Nat
      /\ UNCHANGED <<counter, expiring, reports, analyses, findings, sanctions, accepted>>
  BY AMLConstants DEF AML!Receive, AML!Request, AML!limiter, AML!tables
<1>3. PICK answered \in BOOLEAN : answered = AML!FilingAnswered(req.sar)
  <2>1. AML!FilingAnswered(req.sar) \in BOOLEAN
    BY DEF AML!FilingAnswered
  <2> QED BY <2>1
<1>4. answered => Filed(req.sar)
  BY <1>1, <1>3 DEF AML!FilingAnswered, AMLCallIsFine
<1>5. PICK call : /\ call = [req |-> req, at |-> IF req.token THEN "limit" ELSE "unauthorized",
                             next |-> 1, verdict |-> FALSE, success |-> FALSE,
                             reference |-> FALSE, posted |-> FALSE, afterFiling |-> answered]
                  /\ amlCalls' = Append(amlCalls, call)
  BY <1>3 DEF AML!Receive
<1>6. /\ call \in AML!Call /\ call.req = req /\ ~ call.posted /\ call.afterFiling = answered
      /\ call.at \in {"limit", "unauthorized"}
  BY <1>2, <1>5 DEF AML!Call, AML!Stages, AML!Ends
<1> DEFINE n == Len(amlCalls) + 1
<1>7. /\ amlCalls' \in Seq(AML!Call) /\ Len(amlCalls') = n
      /\ DOMAIN amlCalls' = DOMAIN amlCalls \cup {n} /\ n \notin DOMAIN amlCalls
      /\ amlCalls'[n] = call /\ \A k \in DOMAIN amlCalls : amlCalls'[k] = amlCalls[k]
  BY <1>1, <1>5, <1>6, Appended
<1> HIDE DEF n
<1>8. \A entity : AskedAbout(entity) \subseteq AskedAbout(entity)'
  BY <1>7 DEF AskedAbout
<1>9. CacheIsTheModels'
  <2>1. \A entity : \A k \in AskedAbout(entity) : amlCalls'[k] = amlCalls[k]
    BY <1>7 DEF AskedAbout
  <2> QED BY <1>1, <1>2, <1>8, <2>1 DEF CacheIsTheModels, IsSanctioned
<1>10. AMLTables'
  BY <1>1, <1>2, <1>7 DEF AMLTables
<1>11. ASSUME NEW client \in Clients
       PROVE  counter'[client] <= Cardinality(PastCounter(client)')
  <2>1. PastCounter(client) \subseteq PastCounter(client)'
    BY <1>7 DEF PastCounter
  <2>2. IsFiniteSet(PastCounter(client)')
    <3>1. PastCounter(client)' \subseteq DOMAIN amlCalls'
      BY DEF PastCounter
    <3> QED BY <1>7, <3>1, Domain, FS_Subset
  <2>3. /\ Cardinality(PastCounter(client)) <= Cardinality(PastCounter(client)')
        /\ Cardinality(PastCounter(client)) \in Nat /\ Cardinality(PastCounter(client)') \in Nat
    BY <2>1, <2>2, PastCounterIsFinite, FS_Subset, FS_CardinalityType
  <2>4. counter[client] <= Cardinality(PastCounter(client)) /\ counter[client] \in Nat
    BY <1>1 DEF AMLInv, AMLTables
  <2> QED BY <1>2, <2>3, <2>4
<1>12. ASSUME NEW k \in DOMAIN amlCalls'
       PROVE  (AMLCallIsFine(amlCalls[k]) /\ amlCalls[k].req.txns # << >>)'
  <2>1. CASE k = n
    <3>1. AMLCallIsFine(call)'
      BY <1>2, <1>4, <1>6 DEF AMLCallIsFine, Filed
    <3> QED BY <1>2, <1>6, <1>7, <2>1, <3>1
  <2>2. CASE k # n
    <3>1. PICK other \in AML!Call : other = amlCalls[k]
      BY <1>1, <1>7, <2>2
    <3>2. AMLCallIsFine(other) /\ amlCalls'[k] = other /\ other.req.txns # << >>
      BY <1>1, <1>7, <2>2, <3>1
    <3>3. \A entity : \A j \in AskedAbout(entity) : amlCalls'[j].req = amlCalls[j].req
      BY <1>7 DEF AskedAbout
    <3>4. AMLCallIsFine(other)'
      BY <1>2, <1>8, <3>2, <3>3 DEF AMLCallIsFine, Filed, IsSanctioned
    <3> QED BY <3>2, <3>4
  <2> QED BY <2>1, <2>2
<1>13. Len(amlCalls') <= MaxAMLCalls
  BY <1>1, <1>2, <1>7 DEF n
<1> QED BY <1>7, <1>9, <1>10, <1>11, <1>12, <1>13 DEF AMLInv

LEMMA AMLWindowEndKeeps ==
  ASSUME AMLInv, NEW client \in Clients, AML!WindowEnds(client)
  PROVE  AMLInv'
<1>1. /\ UNCHANGED <<reports, analyses, findings, sanctions, accepted, amlCalls>>
      /\ expiring' = expiring \ {client} /\ counter' = [counter EXCEPT ![client] = 0]
  BY DEF AML!WindowEnds, AML!tables
<1>2. AMLTables'
  BY <1>1 DEF AMLInv, AMLTables
<1>3. \A c \in Clients : counter'[c] <= Cardinality(PastCounter(c)')
  <2> SUFFICES ASSUME NEW c \in Clients PROVE counter'[c] <= Cardinality(PastCounter(c)')
    OBVIOUS
  <2>1. PastCounter(c)' = PastCounter(c)
    BY <1>1 DEF PastCounter
  <2>2. counter[c] <= Cardinality(PastCounter(c)) /\ Cardinality(PastCounter(c)) \in Nat
    BY PastCounterIsFinite DEF AMLInv
  <2>3. counter'[c] = counter[c] \/ counter'[c] = 0
    BY <1>1 DEF AMLInv, AMLTables
  <2> QED BY <2>1, <2>2, <2>3
<1>4. CacheIsTheModels'
  BY <1>1 DEF AMLInv, CacheIsTheModels, AskedAbout
<1>5. \A c \in DOMAIN amlCalls : AMLCallIsFine(amlCalls[c])'
  BY <1>1 DEF AMLInv, AMLCallIsFine, AskedAbout, Filed
<1> QED BY <1>1, <1>2, <1>3, <1>4, <1>5 DEF AMLInv

(* A crash: the requests in flight are lost, what they asked is not        *)
(* forgotten.                                                              *)
LEMMA AMLCrashKeeps ==
  ASSUME AMLInv, AML!Crash
  PROVE  AMLInv'
<1>1. /\ amlCalls \in Seq(AML!Call) /\ Len(amlCalls) <= MaxAMLCalls
      /\ \A k \in DOMAIN amlCalls : amlCalls[k] \in AML!Call /\ AMLCallIsFine(amlCalls[k])
      /\ \A k \in DOMAIN amlCalls : amlCalls[k].req.txns # << >>
      /\ AMLTables /\ CacheIsTheModels
  BY Domain DEF AMLInv
<1>2. /\ UNCHANGED <<counter, expiring, reports, analyses, findings, sanctions, accepted>>
      /\ amlCalls' = [c \in DOMAIN amlCalls |->
           IF c \in AML!InFlight THEN [amlCalls[c] EXCEPT !.at = "lost"] ELSE amlCalls[c]]
  BY DEF AML!Crash, AML!limiter, AML!tables
<1>3. DOMAIN amlCalls' = DOMAIN amlCalls /\ amlCalls' = [c \in DOMAIN amlCalls |-> amlCalls'[c]]
  BY <1>2
<1>4. ASSUME NEW k \in DOMAIN amlCalls
      PROVE  /\ amlCalls'[k] \in AML!Call /\ amlCalls'[k].req = amlCalls[k].req
             /\ \/ amlCalls'[k] = amlCalls[k]
                \/ /\ amlCalls'[k].at = "lost"
                   /\ amlCalls'[k].posted = amlCalls[k].posted
                   /\ amlCalls'[k].afterFiling = amlCalls[k].afterFiling
  <2>1. PICK old \in AML!Call : old = amlCalls[k]
    BY <1>1
  <2>2. PICK call : call = [old EXCEPT !.at = "lost"]
    OBVIOUS
  <2>3. /\ call \in AML!Call /\ call.req = old.req /\ call.at = "lost"
        /\ call.posted = old.posted /\ call.afterFiling = old.afterFiling
    BY <2>2 DEF AML!Call, AML!Ends
  <2>4. amlCalls'[k] = call \/ amlCalls'[k] = old
    BY <1>2, <2>1, <2>2
  <2> QED BY <2>1, <2>3, <2>4
<1>5. amlCalls' \in Seq(AML!Call) /\ Len(amlCalls') = Len(amlCalls)
  BY <1>1, <1>3, <1>4, Mapped
<1>6. \A entity : AskedAbout(entity)' = AskedAbout(entity)
  BY <1>3, <1>4 DEF AskedAbout
<1>7. CacheIsTheModels'
  <2>1. \A entity : \A k \in AskedAbout(entity) : amlCalls'[k].req = amlCalls[k].req
    BY <1>4 DEF AskedAbout
  <2> SUFFICES ASSUME NEW key \in DOMAIN sanctions
      PROVE  \E k \in AskedAbout(key)' : sanctions'[key] = IsSanctioned(amlCalls'[k].req)
    BY <1>2 DEF CacheIsTheModels, IsSanctioned
  <2>2. PICK k \in AskedAbout(key) : sanctions[key] = IsSanctioned(amlCalls[k].req)
    BY <1>1 DEF CacheIsTheModels
  <2>3. amlCalls'[k].req = amlCalls[k].req
    BY <2>1
  <2> QED BY <1>2, <1>6, <2>2, <2>3
<1>8. AMLTables'
  BY <1>1, <1>2, <1>3 DEF AMLTables
<1>9. ASSUME NEW client \in Clients
      PROVE  counter'[client] <= Cardinality(PastCounter(client)')
  <2>1. PastCounter(client) \subseteq PastCounter(client)'
    BY <1>3, <1>4 DEF PastCounter
  <2>2. IsFiniteSet(PastCounter(client)')
    <3>1. PastCounter(client)' \subseteq DOMAIN amlCalls
      BY <1>3 DEF PastCounter
    <3> QED BY <1>1, <3>1, Domain, FS_Subset
  <2>3. /\ Cardinality(PastCounter(client)) <= Cardinality(PastCounter(client)')
        /\ Cardinality(PastCounter(client)) \in Nat /\ Cardinality(PastCounter(client)') \in Nat
    BY <2>1, <2>2, PastCounterIsFinite, FS_Subset, FS_CardinalityType
  <2>4. counter[client] <= Cardinality(PastCounter(client)) /\ counter[client] \in Nat
    BY <1>1 DEF AMLInv, AMLTables
  <2> QED BY <1>2, <2>3, <2>4
<1>10. ASSUME NEW k \in DOMAIN amlCalls
       PROVE  (AMLCallIsFine(amlCalls[k]) /\ amlCalls[k].req.txns # << >>)'
  <2>1. PICK old \in AML!Call, call \in AML!Call : old = amlCalls[k] /\ call = amlCalls'[k]
    BY <1>1, <1>4
  <2>2. /\ AMLCallIsFine(old) /\ call.req = old.req /\ call.req.txns # << >>
        /\ \/ call = old
           \/ call.at = "lost" /\ call.posted = old.posted /\ call.afterFiling = old.afterFiling
    BY <1>1, <1>4, <2>1
  <2>3. \A entity : \A j \in AskedAbout(entity) : amlCalls'[j].req = amlCalls[j].req
    BY <1>4 DEF AskedAbout
  <2>4. AMLCallIsFine(call)'
    BY <1>2, <1>6, <2>2, <2>3 DEF AMLCallIsFine, Filed, IsSanctioned
  <2> QED BY <2>1, <2>2, <2>4
<1> QED BY <1>3, <1>5, <1>7, <1>8, <1>9, <1>10, <1>1 DEF AMLInv

LEMMA AMLInvHolds == Spec => []AMLInv
<1>1. AMLInv /\ [Next]_vars => AMLInv'
  <2> SUFFICES ASSUME AMLInv, [Next]_vars PROVE AMLInv'
    OBVIOUS
  <2>1. CASE AML!Next
    BY <2>1, AMLReceiveKeeps, AMLHandlersKeep, AMLWindowEndKeeps, AMLCrashKeeps DEF AML!Next
  <2>2. CASE UNCHANGED amlVars
    <3>1. UNCHANGED <<counter, expiring, reports, analyses, findings, sanctions, accepted, amlCalls>>
      BY <2>2 DEF amlVars
    <3>2. AMLTables' /\ CacheIsTheModels'
      BY <3>1 DEF AMLInv, AMLTables, CacheIsTheModels, AskedAbout
    <3>3. \A client \in Clients : PastCounter(client)' = PastCounter(client)
      BY <3>1 DEF PastCounter
    <3>4. \A c \in DOMAIN amlCalls : AMLCallIsFine(amlCalls[c])'
      BY <3>1 DEF AMLInv, AMLCallIsFine, AskedAbout, Filed
    <3> QED BY <3>1, <3>2, <3>3, <3>4 DEF AMLInv
  <2> QED BY <2>1, <2>2, ServicesStep
<1> QED BY <1>1, AMLInit, PTL DEF Spec

(* The answers of aml-monitor stand: once a filing was answered as done no *)
(* request that begins after it posts the report to the regulator again,   *)
(* and a sanctions answer that is not the model's is the one it gave for   *)
(* the same name under another type.                                       *)
THEOREM AMLAnswersStand == Spec => []AnswersStand
<1>1. AMLInv => AnswersStand
  <2> SUFFICES ASSUME AMLInv PROVE AnswersStand
    OBVIOUS
  <2>1. AML!NoFilingAfterFiled
    BY DEF AMLInv, AMLCallIsFine, AML!NoFilingAfterFiled
  <2>2. AML!SanctionsAnswersHaveASource
    BY DEF AMLInv, AMLCallIsFine, AML!SanctionsAnswersHaveASource, AskedAbout, IsSanctioned
  <2> QED BY <2>1, <2>2 DEF AnswersStand, AML!AnswersStand
<1> QED BY <1>1, AMLInvHolds, PTL

LEMMA AMLTypes == AMLInv => AML!TypeOK
<1> SUFFICES ASSUME AMLInv PROVE AML!TypeOK
  OBVIOUS
<1>1. \A client \in Clients : counter[client] \in 0..MaxAMLCalls
  <2> SUFFICES ASSUME NEW client \in Clients PROVE counter[client] \in 0..MaxAMLCalls
    OBVIOUS
  <2>1. counter[client] \in Nat /\ counter[client] <= Cardinality(PastCounter(client))
    BY DEF AMLInv, AMLTables
  <2> QED BY <2>1, PastCounterIsFinite, AMLConstants
<1>2. \A c \in DOMAIN amlCalls : amlCalls[c] \in AML!Call
  BY Domain DEF AMLInv
<1> QED BY <1>1, <1>2 DEF AMLInv, AMLTables, AML!TypeOK

-----------------------------------------------------------------------------
(* sim-swap-detector.                                                      *)

(* The look-ups a call still has to make.                                  *)
Pending(stage) ==
  CASE stage = "login" ->
         {"login", "device", "location", "otp", "settings", "transfer", "history"}
    [] stage = "device" -> {"device", "location", "otp", "settings", "transfer", "history"}
    [] stage = "location" -> {"location", "otp", "settings", "transfer", "history"}
    [] stage = "otp" -> {"otp", "settings", "transfer", "history"}
    [] stage = "settings" -> {"settings", "transfer", "history"}
    [] stage = "transfer" -> {"transfer", "history"}
    [] stage = "history" -> {"history"}
    [] OTHER -> {}

(* What holds of a call: its lasting flags are on record, and so is what   *)
(* was known when it began; what was known is flagged or still to be asked *)
(* for; it has asked the telco before it stores, alerts, blocks or ends.   *)
SIMCallIsFine(c, call) ==
  /\ call.flags \cap SIM!Lasting \subseteq SIM!OnRecord(call.swap)
  /\ call.known \subseteq SIM!OnRecord(call.swap)
  /\ ~ call.missed /\ call.at # "lost" =>
       call.known \subseteq call.flags \cup Pending(call.at)
  /\ call.at \in Pending("login") \cup {"telco"} => call.answer = "none"
  /\ call.at \in {"store", "alert", "block", "done"} => call.answer \in {"verified", "rejected"}
  /\ call.at = "block" => SIM!ShouldBlock(call.flags)
  /\ call.at = "done" /\ ~ call.missed /\ SIM!ShouldBlock(call.flags) =>
       [user |-> call.swap.user, by |-> c] \in blocks

SIMTables ==
  /\ accountAccesses \in Seq(SIM!Access)
  /\ swaps \subseteq DOMAIN swapCalls /\ swapAlerts \subseteq DOMAIN swapCalls
  /\ blocks \subseteq [user : Users, by : 0..MaxSwapCalls]

BlocksAreDue ==
  \A b \in blocks :
    b.by # 0 => /\ b.by \in DOMAIN swapCalls /\ swapCalls[b.by].at = "done"
                /\ SIM!ShouldBlock(swapCalls[b.by].flags)

SIMInv ==
  /\ swapCalls \in Seq(SIM!Call) /\ Len(swapCalls) <= MaxSwapCalls
  /\ SIMTables
  /\ BlocksAreDue
  /\ \A c \in swaps \cup swapAlerts : swapCalls[c].answer \in {"verified", "rejected"}
  /\ \A c \in DOMAIN swapCalls : SIMCallIsFine(c, swapCalls[c])

LEMMA SIMConstants ==
  /\ \A s \in Swaps : s \in SIM!Swap
  /\ \A a \in Accesses : a \in SIM!Access
  /\ AccessLog \in Seq(SIM!Access) /\ MaxSwapCalls \in Nat
BY SwapAssumption DEF SIM!ConstantsAssumption

(* The seven stages of the look-ups, and what NextStage makes of them.     *)
LEMMA LookUpStages ==
  /\ {SIM!LookUps[i] : i \in DOMAIN SIM!LookUps} = Pending("login")
  /\ SIM!Stages = Pending("login") \cup {"telco", "store", "alert", "block"}
  /\ SIM!LookUps[1] = "login"
<1>1. DOMAIN SIM!LookUps = 1..7
  BY DEF SIM!LookUps
<1>2. /\ SIM!LookUps[1] = "login" /\ SIM!LookUps[2] = "device" /\ SIM!LookUps[3] = "location"
      /\ SIM!LookUps[4] = "otp" /\ SIM!LookUps[5] = "settings" /\ SIM!LookUps[6] = "transfer"
      /\ SIM!LookUps[7] = "history"
  BY DEF SIM!LookUps
<1>3. \A i \in 1..7 : i = 1 \/ i = 2 \/ i = 3 \/ i = 4 \/ i = 5 \/ i = 6 \/ i = 7
  OBVIOUS
<1>4. /\ \A i \in 1..7 : SIM!LookUps[i] \in Pending("login")
      /\ \A flag \in Pending("login") : \E i \in 1..7 : SIM!LookUps[i] = flag
  BY <1>2, <1>3 DEF Pending
<1>5. {SIM!LookUps[i] : i \in DOMAIN SIM!LookUps} = Pending("login")
  BY <1>1, <1>4
<1> QED BY <1>2, <1>5 DEF SIM!Stages

LEMMA NextStageIsNext ==
  ASSUME NEW flag \in Pending("login")
  PROVE  /\ SIM!NextStage(flag) \in SIM!Stages \ {"store", "alert", "block"}
         /\ Pending(flag) \subseteq {flag} \cup Pending(SIM!NextStage(flag))
<1>1. DOMAIN SIM!LookUps = 1..7 /\ Len(SIM!LookUps) = 7
  BY DEF SIM!LookUps
<1>2. /\ SIM!LookUps[1] = "login" /\ SIM!LookUps[2] = "device" /\ SIM!LookUps[3] = "location"
      /\ SIM!LookUps[4] = "otp" /\ SIM!LookUps[5] = "settings" /\ SIM!LookUps[6] = "transfer"
      /\ SIM!LookUps[7] = "history"
  BY DEF SIM!LookUps
<1>3. \A i \in 1..7 : i = 1 \/ i = 2 \/ i = 3 \/ i = 4 \/ i = 5 \/ i = 6 \/ i = 7
  OBVIOUS
<1> DEFINE place == CHOOSE i \in DOMAIN SIM!LookUps : SIM!LookUps[i] = flag
<1>4. \E i \in 1..7 : SIM!LookUps[i] = flag
  BY <1>2 DEF Pending
<1>5. place \in 1..7 /\ SIM!LookUps[place] = flag
  BY <1>1, <1>4
<1>6. SIM!NextStage(flag) = IF place = 7 THEN "telco" ELSE SIM!LookUps[place + 1]
  BY <1>1 DEF SIM!NextStage
<1> HIDE DEF place
<1>7. \/ flag = "login" /\ SIM!NextStage(flag) = "device"
      \/ flag = "device" /\ SIM!NextStage(flag) = "location"
      \/ flag = "location" /\ SIM!NextStage(flag) = "otp"
      \/ flag = "otp" /\ SIM!NextStage(flag) = "settings"
      \/ flag = "settings" /\ SIM!NextStage(flag) = "transfer"
      \/ flag = "transfer" /\ SIM!NextStage(flag) = "history"
      \/ flag = "history" /\ SIM!NextStage(flag) = "telco"
  <2>1. CASE place = 1
    BY <2>1, <1>2, <1>5, <1>6
  <2>2. CASE place = 2
    BY <2>2, <1>2, <1>5, <1>6
  <2>3. CASE place = 3
    BY <2>3, <1>2, <1>5, <1>6
  <2>4. CASE place = 4
    BY <2>4, <1>2, <1>5, <1>6
  <2>5. CASE place = 5
    BY <2>5, <1>2, <1>5, <1>6
  <2>6. CASE place = 6
    BY <2>6, <1>2, <1>5, <1>6
  <2>7. CASE place = 7
    BY <2>7, <1>2, <1>5, <1>6
  <2> QED BY <1>3, <1>5, <2>1, <2>2, <2>3, <2>4, <2>5, <2>6, <2>7
<1>8. SIM!NextStage(flag) \in SIM!Stages \ {"store", "alert", "block"}
  <2>1. SIM!NextStage(flag) \in Pending("login") \cup {"telco"}
    BY <1>7 DEF Pending
  <2>2. "store" \notin Pending("login") \cup {"telco"} /\ "alert" \notin Pending("login") \cup {"telco"}
        /\ "block" \notin Pending("login") \cup {"telco"}
    BY DEF Pending
  <2> QED BY <2>1, <2>2, LookUpStages
<1>9. Pending(flag) \subseteq {flag} \cup Pending(SIM!NextStage(flag))
  BY <1>7 DEF Pending
<1> QED BY <1>8, <1>9

(* The score: more flags, more points; 80 points take two of them.         *)
LEMMA ScoreGrows ==
  ASSUME NEW few, NEW many, few \subseteq many
  PROVE  SIM!ShouldBlock(few) => SIM!ShouldBlock(many)
BY DEF SIM!ShouldBlock, SIM!RiskScore, SIM!Signals, SIM!Weight

LEMMA FourAreFinite ==
  ASSUME NEW a, NEW b, NEW c, NEW d
  PROVE  IsFiniteSet({a, b, c, d})
<1>1. IsFiniteSet({a}) /\ IsFiniteSet({b}) /\ IsFiniteSet({c}) /\ IsFiniteSet({d})
  BY FS_Singleton
<1>2. IsFiniteSet({a} \cup {b}) /\ IsFiniteSet({c} \cup {d})
  BY <1>1, FS_Union
<1>3. IsFiniteSet(({a} \cup {b}) \cup ({c} \cup {d}))
  BY <1>2, FS_Union
<1>4. ({a} \cup {b}) \cup ({c} \cup {d}) = {a, b, c, d}
  OBVIOUS
<1> QED BY <1>3, <1>4

LEMMA BlockTakesTwoFlags ==
  ASSUME NEW flags \in SUBSET SIM!Flags, SIM!ShouldBlock(flags)
  PROVE  Cardinality(flags) >= 2
<1>1. \E f, g \in flags : f # g
  BY DEF SIM!ShouldBlock, SIM!RiskScore, SIM!Signals, SIM!Weight
<1>2. PICK f \in flags, g \in flags : f # g
  BY <1>1
<1>3. IsFiniteSet(flags)
  <2>1. IsFiniteSet({"login", "device", "location", "otp"})
    BY FourAreFinite
  <2>2. IsFiniteSet({"settings", "transfer", "history", "rejected"})
    BY FourAreFinite
  <2>3. IsFiniteSet({"login", "device", "location", "otp"}
                    \cup {"settings", "transfer", "history", "rejected"})
    BY <2>1, <2>2, FS_Union
  <2>4. flags \subseteq {"login", "device", "location", "otp"}
                        \cup {"settings", "transfer", "history", "rejected"}
    BY DEF SIM!Flags
  <2> QED BY <2>3, <2>4, FS_Subset
<1>4. Cardinality({f, g}) = 2 /\ {f, g} \subseteq flags
  <2>1. IsFiniteSet({f}) /\ Cardinality({f}) = 1
    BY FS_Singleton
  <2>2. {f} \cup {g} = {f, g} /\ g \notin {f}
    BY <1>2
  <2> QED BY <2>1, <2>2, FS_AddElement
<1> QED BY <1>3, <1>4, FS_Subset, FS_CardinalityType

(* What a look-up may answer: about lasting evidence, whether it is on     *)
(* record.                                                                 *)
LEMMA LookUpsTellTheRecord ==
  ASSUME NEW s, NEW flag \in SIM!Lasting
  PROVE  \E holds \in BOOLEAN : SIM!Holds(flag, s) = {holds} /\ (holds <=> flag \in SIM!OnRecord(s))
<1>1. flag \in {"login", "device", "otp", "settings", "transfer", "history"}
  BY DEF SIM!Lasting, SIM!Flags
<1>2. ASSUME NEW P \in BOOLEAN, SIM!Holds(flag, s) = {P}
      PROVE  \E holds \in BOOLEAN : SIM!Holds(flag, s) = {holds} /\ (holds <=> flag \in SIM!OnRecord(s))
  <2>1. flag \in SIM!OnRecord(s) <=> {P} = {TRUE}
    BY <1>2 DEF SIM!OnRecord
  <2>2. CASE P
    BY <1>2, <2>1, <2>2
  <2>3. CASE ~ P
    <3>1. {P} # {TRUE}
      BY <2>3
    <3> QED BY <1>2, <2>1, <2>3, <3>1
  <2> QED BY <2>2, <2>3
<1>3. CASE flag = "login"
  <2>1. PICK P \in BOOLEAN : P = SIM!hasImmediateLoginAfterSwap(s)
    <3>1. SIM!hasImmediateLoginAfterSwap(s) \in BOOLEAN
      BY DEF SIM!hasImmediateLoginAfterSwap
    <3> QED BY <3>1
  <2>2. SIM!Holds(flag, s) = {P}
    BY <1>3, <2>1 DEF SIM!Holds
  <2> QED BY <1>2, <2>2
<1>4. CASE flag = "device"
  <2>1. PICK P \in BOOLEAN : P = SIM!hasNewDeviceAfterSwap(s)
    <3>1. SIM!hasNewDeviceAfterSwap(s) \in BOOLEAN
      BY DEF SIM!hasNewDeviceAfterSwap
    <3> QED BY <3>1
  <2>2. SIM!Holds(flag, s) = {P}
    BY <1>4, <2>1 DEF SIM!Holds
  <2> QED BY <1>2, <2>2
<1>5. CASE flag = "otp"
  <2>1. PICK P \in BOOLEAN : P = SIM!hasMultipleFailedOTP(s)
    <3>1. SIM!hasMultipleFailedOTP(s) \in BOOLEAN
      BY DEF SIM!hasMultipleFailedOTP
    <3> QED BY <3>1
  <2>2. SIM!Holds(flag, s) = {P}
    BY <1>5, <2>1 DEF SIM!Holds
  <2> QED BY <1>2, <2>2
<1>6. CASE flag = "settings"
  <2>1. PICK P \in BOOLEAN : P = SIM!hasSettingsChangesAfterSwap(s)
    <3>1. SIM!hasSettingsChangesAfterSwap(s) \in BOOLEAN
      BY DEF SIM!hasSettingsChangesAfterSwap
    <3> QED BY <3>1
  <2>2. SIM!Holds(flag, s) = {P}
    BY <1>6, <2>1 DEF SIM!Holds
  <2> QED BY <1>2, <2>2
<1>7. CASE flag = "transfer"
  <2>1. PICK P \in BOOLEAN : P = SIM!hasTransferAttemptsAfterSwap(s)
    <3>1. SIM!hasTransferAttemptsAfterSwap(s) \in BOOLEAN
      BY DEF SIM!hasTransferAttemptsAfterSwap
    <3> QED BY <3>1
  <2>2. SIM!Holds(flag, s) = {P}
    BY <1>7, <2>1 DEF SIM!Holds
  <2> QED BY <1>2, <2>2
<1>8. CASE flag = "history"
  <2>1. PICK P \in BOOLEAN : P = SIM!hasFrequentSIMSwaps(s)
    <3>1. SIM!hasFrequentSIMSwaps(s) \in BOOLEAN
      BY DEF SIM!hasFrequentSIMSwaps
    <3> QED BY <3>1
  <2>2. SIM!Holds(flag, s) = {P}
    BY <1>8, <2>1 DEF SIM!Holds
  <2> QED BY <1>2, <2>2
<1> QED BY <1>1, <1>3, <1>4, <1>5, <1>6, <1>7, <1>8

(* A location is answered yes or no.                                       *)
LEMMA LookUpsAnswer ==
  ASSUME NEW s, NEW flag \in Pending("login"), NEW holds \in SIM!Holds(flag, s)
  PROVE  /\ holds \in BOOLEAN
         /\ flag \in SIM!Lasting => (holds <=> flag \in SIM!OnRecord(s))
<1>1. CASE flag \in SIM!Lasting
  BY <1>1, LookUpsTellTheRecord
<1>2. CASE flag \notin SIM!Lasting
  <2>1. flag = "location"
    BY <1>2 DEF SIM!Lasting, SIM!Flags, Pending
  <2> QED BY <1>2, <2>1 DEF SIM!Holds
<1> QED BY <1>1, <1>2

(* What is on record of a swap stays there: accesses are added behind the  *)
(* others, swaps beside the others.                                        *)
LEMMA RecordStays ==
  ASSUME NEW s, accountAccesses \in Seq(SIM!Access), accountAccesses' \in Seq(SIM!Access),
         DOMAIN accountAccesses \subseteq DOMAIN accountAccesses',
         \A i \in DOMAIN accountAccesses : accountAccesses'[i] = accountAccesses[i],
         IsFiniteSet(swaps'), swaps \subseteq swaps',
         \A c \in swaps : swapCalls'[c].swap = swapCalls[c].swap
  PROVE  SIM!OnRecord(s) \subseteq SIM!OnRecord(s)'
<1>1. \A user, type, from, to : SIM!Of(user, type, from, to) \subseteq SIM!Of(user, type, from, to)'
  BY DEF SIM!Of
<1>2. \A user, type, from, to : IsFiniteSet(SIM!Of(user, type, from, to)')
  <2> SUFFICES ASSUME NEW user, NEW type, NEW from, NEW to
      PROVE  IsFiniteSet(SIM!Of(user, type, from, to)')
    OBVIOUS
  <2>1. SIM!Of(user, type, from, to)' \subseteq DOMAIN accountAccesses'
    BY DEF SIM!Of
  <2>2. IsFiniteSet(DOMAIN accountAccesses')
    BY Domain
  <2> QED BY <2>1, <2>2, FS_Subset
<1>3. SIM!hasMultipleFailedOTP(s) => SIM!hasMultipleFailedOTP(s)'
  <2> DEFINE tried == SIM!Of(s.user, "otp_request", s.when - 60, s.when)
             failed == {i \in tried : ~ accountAccesses[i].success}
  <2>1. failed \subseteq failed'
    <3>1. tried \subseteq tried' /\ tried \subseteq DOMAIN accountAccesses
      BY <1>1 DEF SIM!Of
    <3> QED BY <3>1
  <2>2. IsFiniteSet(failed')
    BY <1>2, FS_Subset
  <2>3. Cardinality(failed) <= Cardinality(failed') /\ Cardinality(failed) \in Nat
        /\ Cardinality(failed') \in Nat
    BY <2>1, <2>2, FS_Subset, FS_CardinalityType
  <2> HIDE DEF tried, failed
  <2>4. /\ SIM!hasMultipleFailedOTP(s) <=> Cardinality(failed) >= 3
        /\ SIM!hasMultipleFailedOTP(s)' <=> Cardinality(failed') >= 3
    BY DEF SIM!hasMultipleFailedOTP, tried, failed, Cardinality, SIM!Cardinality
  <2> QED BY <2>3, <2>4
<1>4. SIM!hasFrequentSIMSwaps(s) => SIM!hasFrequentSIMSwaps(s)'
  <2> DEFINE own == {c \in swaps : /\ swapCalls[c].swap.user = s.user
                                   /\ swapCalls[c].swap.when > Today - 90 * 1440}
  <2>1. own \subseteq own' /\ IsFiniteSet(own')
    BY FS_Subset
  <2>2. Cardinality(own) <= Cardinality(own') /\ Cardinality(own) \in Nat
        /\ Cardinality(own') \in Nat
    BY <2>1, FS_Subset, FS_CardinalityType
  <2> HIDE DEF own
  <2>3. /\ SIM!hasFrequentSIMSwaps(s) <=> Cardinality(own) >= FrequentSwaps
        /\ SIM!hasFrequentSIMSwaps(s)' <=> Cardinality(own') >= FrequentSwaps
    BY DEF SIM!hasFrequentSIMSwaps, own, Cardinality, SIM!Cardinality
  <2>4. FrequentSwaps \in Nat
    BY SwapAssumption DEF SIM!ConstantsAssumption
  <2> QED BY <2>2, <2>3, <2>4
<1>5. ASSUME NEW flag \in SIM!OnRecord(s)
      PROVE  flag \in SIM!OnRecord(s)'
  <2>1. flag \in SIM!Lasting /\ SIM!Holds(flag, s) = {TRUE}
    BY <1>5 DEF SIM!OnRecord
  <2>2. flag \in {"login", "device", "otp", "settings", "transfer", "history"}
    BY <2>1 DEF SIM!Lasting, SIM!Flags
  <2>3. SUFFICES SIM!Holds(flag, s)' = {TRUE}
    BY <2>1 DEF SIM!OnRecord
  <2>4. CASE flag = "login"
    BY <1>1, <2>1, <2>4 DEF SIM!Holds, SIM!hasImmediateLoginAfterSwap
  <2>5. CASE flag = "device"
    BY <2>1, <2>5 DEF SIM!Holds, SIM!hasNewDeviceAfterSwap
  <2>6. CASE flag = "otp"
    BY <1>3, <2>1, <2>6 DEF SIM!Holds
  <2>7. CASE flag = "settings"
    BY <1>1, <2>1, <2>7 DEF SIM!Holds, SIM!hasSettingsChangesAfterSwap
  <2>8. CASE flag = "transfer"
    BY <1>1, <2>1, <2>8 DEF SIM!Holds, SIM!hasTransferAttemptsAfterSwap
  <2>9. CASE flag = "history"
    BY <1>4, <2>1, <2>9 DEF SIM!Holds
  <2> QED BY <2>2, <2>4, <2>5, <2>6, <2>7, <2>8, <2>9
<1> QED BY <1>5

LEMMA SIMInit == Init => SIMInv
<1> SUFFICES ASSUME Init PROVE SIMInv
  OBVIOUS
<1>1. SIM!Init
  BY DEF Init
<1>2. swapCalls = << >> /\ swapCalls \in Seq(SIM!Call) /\ DOMAIN swapCalls = {} /\ Len(swapCalls) = 0
  BY <1>1 DEF SIM!Init
<1>3. SIMTables /\ BlocksAreDue
  BY <1>1, <1>2, SIMConstants DEF SIM!Init, SIMTables, BlocksAreDue
<1>4. swaps = {} /\ swapAlerts = {}
  BY <1>1 DEF SIM!Init
<1> QED BY <1>2, <1>3, <1>4, SIMConstants DEF SIMInv

LEMMA SIMFacts ==
  ASSUME SIMInv
  PROVE  /\ swapCalls \in Seq(SIM!Call) /\ Len(swapCalls) \in Nat /\ Len(swapCalls) <= MaxSwapCalls
         /\ \A k \in DOMAIN swapCalls : swapCalls[k] \in SIM!Call /\ SIMCallIsFine(k, swapCalls[k])
         /\ DOMAIN swapCalls = 1..Len(swapCalls)
         /\ SIMTables /\ BlocksAreDue
         /\ IsFiniteSet(DOMAIN swapCalls) /\ IsFiniteSet(swaps)
         /\ \A k \in swaps \cup swapAlerts : swapCalls[k].answer \in {"verified", "rejected"}
         /\ accountAccesses \in Seq(SIM!Access)
<1>1. swapCalls \in Seq(SIM!Call) /\ SIMTables /\ BlocksAreDue
  BY DEF SIMInv
<1>2. swaps \subseteq DOMAIN swapCalls
  BY <1>1 DEF SIMTables
<1> QED BY <1>1, <1>2, Domain, FS_Subset DEF SIMInv, SIMTables

(* Whatever a step adds, other calls keep what holds of them.              *)
LEMMA SIMOthersKeep ==
  ASSUME NEW k, NEW call, SIMCallIsFine(k, call), blocks \subseteq blocks',
         SIM!OnRecord(call.swap) \subseteq SIM!OnRecord(call.swap)'
  PROVE  SIMCallIsFine(k, call)'
BY DEF SIMCallIsFine, SIM!ShouldBlock, SIM!RiskScore, SIM!Signals, Pending, SIM!Lasting

(* A call that goes on and may store its swap, its alert or its block.     *)
LEMMA SIMCallGoesOn ==
  ASSUME SIMInv, NEW c \in DOMAIN swapCalls, NEW call \in SIM!Call,
         swapCalls' = [swapCalls EXCEPT ![c] = call], call.swap = swapCalls[c].swap,
         swapCalls[c].at # "done",
         accountAccesses' = accountAccesses,
         swaps' = swaps \/ swaps' = swaps \cup {c},
         swapAlerts' = swapAlerts \/ swapAlerts' = swapAlerts \cup {c},
         \/ blocks' = blocks
         \/ /\ blocks' = blocks \cup {[user |-> call.swap.user, by |-> c]}
            /\ call.at = "done" /\ SIM!ShouldBlock(call.flags),
         c \in swaps' \cup swapAlerts' => call.answer \in {"verified", "rejected"},
         SIM!OnRecord(call.swap) \subseteq SIM!OnRecord(call.swap)' => SIMCallIsFine(c, call)'
  PROVE  SIMInv'
<1>1. /\ swapCalls' \in Seq(SIM!Call) /\ Len(swapCalls') = Len(swapCalls)
      /\ DOMAIN swapCalls' = DOMAIN swapCalls
      /\ swapCalls'[c] = call /\ \A k \in DOMAIN swapCalls : k # c => swapCalls'[k] = swapCalls[k]
  BY SIMFacts, Replaced
<1>2. c \in 1..MaxSwapCalls /\ call.swap.user \in Users
  BY SIMFacts, SIMConstants DEF SIM!Call, SIM!Swap
<1>3. IsFiniteSet(swaps')
  BY SIMFacts, FS_AddElement
<1>4. \A s : SIM!OnRecord(s) \subseteq SIM!OnRecord(s)'
  <2> TAKE s
  <2>1. \A k \in swaps : swapCalls'[k].swap = swapCalls[k].swap
    BY <1>1, SIMFacts DEF SIMTables
  <2> QED BY <1>3, <2>1, SIMFacts, RecordStays
<1>5. SIMTables'
  <2>1. [user |-> call.swap.user, by |-> c] \in [user : Users, by : 0..MaxSwapCalls]
    BY <1>2, SIMConstants
  <2> QED BY <1>1, <2>1, SIMFacts DEF SIMTables
<1>6. BlocksAreDue'
  <2> SUFFICES ASSUME NEW b \in blocks', b.by # 0
      PROVE  /\ b.by \in DOMAIN swapCalls' /\ swapCalls'[b.by].at = "done"
             /\ SIM!ShouldBlock(swapCalls'[b.by].flags)
    BY DEF BlocksAreDue, SIM!ShouldBlock, SIM!RiskScore, SIM!Signals
  <2>1. CASE b \in blocks
    <3>1. b.by \in DOMAIN swapCalls /\ swapCalls[b.by].at = "done"
          /\ SIM!ShouldBlock(swapCalls[b.by].flags)
      BY <2>1, SIMFacts DEF BlocksAreDue
    <3>2. swapCalls'[b.by] = swapCalls[b.by]
      BY <1>1, <3>1
    <3> QED BY <1>1, <3>1, <3>2
  <2>2. CASE b \notin blocks
    <3>1. b.by = c /\ call.at = "done" /\ SIM!ShouldBlock(call.flags)
      BY <2>2
    <3> QED BY <1>1, <3>1
  <2> QED BY <2>1, <2>2
<1>7. \A k \in swaps' \cup swapAlerts' : swapCalls'[k].answer \in {"verified", "rejected"}
  <2> SUFFICES ASSUME NEW k \in swaps' \cup swapAlerts'
      PROVE  swapCalls'[k].answer \in {"verified", "rejected"}
    OBVIOUS
  <2>1. CASE k = c
    BY <1>1, <2>1
  <2>2. CASE k # c
    <3>1. k \in swaps \cup swapAlerts /\ k \in DOMAIN swapCalls
      BY <2>2, SIMFacts DEF SIMTables
    <3> QED BY <1>1, <2>2, <3>1, SIMFacts
  <2> QED BY <2>1, <2>2
<1>8. ASSUME NEW k \in DOMAIN swapCalls
      PROVE  SIMCallIsFine(k, swapCalls[k])'
  <2>1. CASE k = c
    <3>1. SIMCallIsFine(c, call)'
      BY <1>4
    <3> QED BY <1>1, <2>1, <3>1
  <2>2. CASE k # c
    <3>1. PICK other \in SIM!Call : other = swapCalls[k] /\ swapCalls'[k] = other
      BY <1>1, <2>2, SIMFacts
    <3>2. SIMCallIsFine(k, other)
      BY <3>1, SIMFacts
    <3>3. SIMCallIsFine(k, other)'
      BY <1>4, <3>2, SIMOthersKeep
    <3> QED BY <3>1, <3>3
  <2> QED BY <2>1, <2>2
<1> QED BY <1>1, <1>5, <1>6, <1>7, <1>8, SIMFacts DEF SIMInv

(* The actions that take one call further.                                 *)
LEMMA SIMHandlersKeep ==
  ASSUME SIMInv, NEW c \in DOMAIN swapCalls,
         \/ SIM!LookUp(c) \/ SIM!verifyWithTelco(c) \/ SIM!storeSIMSwapEvent(c)
         \/ SIM!createAlert(c) \/ SIM!blockUserAccount(c)
  PROVE  SIMInv'
<1>1. PICK old \in SIM!Call : old = swapCalls[c]
  BY SIMFacts
<1>2. SIMCallIsFine(c, old)
  BY <1>1, SIMFacts
<1>3. /\ old.flags \subseteq SIM!Flags /\ old.known \subseteq SIM!OnRecord(old.swap)
      /\ SIM!OnRecord(old.swap) \subseteq SIM!Lasting
      /\ c \in swaps \cup swapAlerts => old.answer \in {"verified", "rejected"}
  BY <1>1, <1>2, SIMFacts DEF SIMCallIsFine, SIM!Call, SIM!OnRecord
<1> DEFINE Goes(call) == /\ call \in SIM!Call /\ swapCalls' = [swapCalls EXCEPT ![c] = call]
                         /\ call.swap = old.swap /\ call.known = old.known
           Stays == SIM!OnRecord(old.swap) \subseteq SIM!OnRecord(old.swap)'
<1>4. CASE SIM!LookUp(c)
  <2>1. /\ UNCHANGED <<accountAccesses, swaps, swapAlerts, blocks>>
        /\ old.at \in Pending("login")
    BY <1>1, <1>4, LookUpStages DEF SIM!LookUp
  <2>2. PICK next : next = SIM!NextStage(old.at)
    OBVIOUS
  <2>3. next \in SIM!Stages /\ next \notin {"store", "alert", "block", "done", "lost"}
        /\ next \in Pending("login") \cup {"telco"}
        /\ Pending(old.at) \subseteq {old.at} \cup Pending(next)
    <3>1. next \in SIM!Stages \ {"store", "alert", "block"}
          /\ Pending(old.at) \subseteq {old.at} \cup Pending(next)
      BY <2>1, <2>2, NextStageIsNext
    <3>2. next \in Pending("login") \cup {"telco"}
      BY <3>1, LookUpStages
    <3> QED BY <3>1, <3>2 DEF Pending
  <2>4. old.answer = "none" /\ old.at \in SIM!Flags /\ old.at \notin {"done", "lost"}
    BY <1>2, <2>1 DEF SIMCallIsFine, Pending, SIM!Flags
  <2>5. CASE \E holds \in SIM!Holds(old.at, old.swap) :
               swapCalls' = [swapCalls EXCEPT ![c].at = next,
                                              ![c].flags = IF holds THEN @ \cup {old.at} ELSE @]
    <3>1. PICK holds \in SIM!Holds(old.at, old.swap) :
               swapCalls' = [swapCalls EXCEPT ![c].at = next,
                                              ![c].flags = IF holds THEN @ \cup {old.at} ELSE @]
      BY <2>5
    <3>2. /\ holds \in BOOLEAN
          /\ old.at \in SIM!Lasting => (holds <=> old.at \in SIM!OnRecord(old.swap))
      BY <2>1, LookUpsAnswer
    <3>3. PICK flags \in SUBSET SIM!Flags :
            flags = IF holds THEN old.flags \cup {old.at} ELSE old.flags
      BY <1>3, <2>4
    <3>4. PICK call : call = [old EXCEPT !.at = next, !.flags = flags]
      OBVIOUS
    <3>5. /\ call \in SIM!Call /\ call.swap = old.swap /\ call.at = next /\ call.flags = flags
          /\ call.answer = old.answer /\ call.known = old.known /\ call.missed = old.missed
      BY <2>3, <3>3, <3>4 DEF SIM!Call
    <3>6. swapCalls' = [swapCalls EXCEPT ![c] = call]
      BY <1>1, <3>1, <3>3, <3>4, SIMFacts
    <3>7. flags \cap SIM!Lasting \subseteq SIM!OnRecord(old.swap)
      BY <1>2, <3>2, <3>3 DEF SIMCallIsFine
    <3>8. ~ old.missed => old.known \subseteq flags \cup Pending(next)
      BY <1>2, <1>3, <2>3, <2>4, <3>2, <3>3 DEF SIMCallIsFine
    <3>9. Stays => SIMCallIsFine(c, call)'
      BY <1>3, <2>3, <2>4, <3>5, <3>7, <3>8 DEF SIMCallIsFine, Pending, SIM!Lasting
    <3>10. c \in swaps' \cup swapAlerts' => call.answer \in {"verified", "rejected"}
      BY <1>3, <2>1, <3>5
    <3> HIDE DEF Goes
    <3> QED BY <1>1, <2>1, <2>4, <3>5, <3>6, <3>9, <3>10, SIMCallGoesOn
  <2>6. CASE swapCalls' = [swapCalls EXCEPT ![c].at = next, ![c].missed = TRUE]
    <3>1. PICK call : call = [old EXCEPT !.at = next, !.missed = TRUE]
      OBVIOUS
    <3>2. /\ call \in SIM!Call /\ call.swap = old.swap /\ call.at = next /\ call.missed
          /\ call.flags = old.flags /\ call.answer = old.answer /\ call.known = old.known
      BY <2>3, <3>1 DEF SIM!Call
    <3>3. swapCalls' = [swapCalls EXCEPT ![c] = call]
      BY <1>1, <2>6, <3>1, SIMFacts
    <3>4. Stays => SIMCallIsFine(c, call)'
      BY <1>2, <1>3, <2>3, <2>4, <3>2 DEF SIMCallIsFine, Pending, SIM!Lasting
    <3>5. c \in swaps' \cup swapAlerts' => call.answer \in {"verified", "rejected"}
      BY <1>3, <2>1, <3>2
    <3> QED BY <1>1, <2>1, <2>4, <3>2, <3>3, <3>4, <3>5, SIMCallGoesOn
  <2> QED BY <1>1, <1>4, <2>2, <2>5, <2>6 DEF SIM!LookUp
<1>5. CASE SIM!verifyWithTelco(c)
  <2>1. /\ UNCHANGED <<accountAccesses, swaps, swapAlerts, blocks>> /\ old.at = "telco"
    BY <1>1, <1>5 DEF SIM!verifyWithTelco
  <2>2. old.answer = "none" /\ c \notin swaps' \cup swapAlerts' /\ old.at # "done"
    BY <1>2, <1>3, <2>1 DEF SIMCallIsFine
  <2>3. PICK call : /\ swapCalls' = [swapCalls EXCEPT ![c] = call]
                    /\ \/ call = [old EXCEPT !.at = "store", !.answer = "verified"]
                       \/ call = [old EXCEPT !.at = "store", !.answer = "rejected",
                                             !.flags = @ \cup {"rejected"}]
                       \/ call = [old EXCEPT !.at = "unavailable", !.answer = "failed"]
    BY <1>1, <1>5 DEF SIM!verifyWithTelco, SIM!TelcoFails
  <2>4. /\ call \in SIM!Call /\ call.swap = old.swap
        /\ call.known = old.known /\ call.missed = old.missed
        /\ call.flags = old.flags \/ call.flags = old.flags \cup {"rejected"}
        /\ \/ call.at = "store" /\ call.answer \in {"verified", "rejected"}
           \/ call.at = "unavailable"
    <3>1. {"store", "unavailable"} \subseteq SIM!Stages \cup SIM!Ends
      BY DEF SIM!Stages, SIM!Ends
    <3>2. old.flags \cup {"rejected"} \subseteq SIM!Flags
      BY <1>3 DEF SIM!Flags
    <3> QED BY <2>3, <3>1, <3>2 DEF SIM!Call
  <2>5. "rejected" \notin SIM!Lasting /\ Pending(old.at) = {}
    BY <2>1 DEF SIM!Lasting, Pending
  <2>6. /\ call.flags \cap SIM!Lasting \subseteq SIM!OnRecord(old.swap)
        /\ ~ old.missed => old.known \subseteq call.flags
    BY <1>2, <2>1, <2>4, <2>5 DEF SIMCallIsFine
  <2>7. Stays => SIMCallIsFine(c, call)'
    BY <1>3, <2>4, <2>6 DEF SIMCallIsFine, Pending, SIM!Lasting
  <2> QED BY <1>1, <2>1, <2>2, <2>3, <2>4, <2>7, SIMCallGoesOn
(* The event, the alert and the block: a stage and what it may store.      *)
<1>6. ASSUME NEW call, Goes(call), call.flags = old.flags, call.answer = old.answer,
             old.at \in {"store", "alert", "block"},
             call.missed = old.missed \/ call.missed,
             \/ call.at = "alert"
             \/ call.at = "block" /\ SIM!ShouldBlock(old.flags)
             \/ /\ call.at = "done"
                /\ ~ call.missed /\ SIM!ShouldBlock(old.flags) =>
                     [user |-> old.swap.user, by |-> c] \in blocks',
             accountAccesses' = accountAccesses,
             swaps' = swaps \/ swaps' = swaps \cup {c},
             swapAlerts' = swapAlerts \/ swapAlerts' = swapAlerts \cup {c},
             \/ blocks' = blocks
             \/ /\ blocks' = blocks \cup {[user |-> old.swap.user, by |-> c]}
                /\ call.at = "done" /\ SIM!ShouldBlock(old.flags)
      PROVE  SIMInv'
  <2>1. old.answer \in {"verified", "rejected"} /\ old.at # "done" /\ old.at # "lost"
    BY <1>2, <1>6 DEF SIMCallIsFine
  <2>2. ~ old.missed => old.known \subseteq old.flags
    BY <1>2, <1>6, <2>1 DEF SIMCallIsFine, Pending
  <2>3. Stays => SIMCallIsFine(c, call)'
    <3>1. SUFFICES ASSUME Stays PROVE SIMCallIsFine(c, call)'
      OBVIOUS
    <3>2. (call.flags \cap SIM!Lasting \subseteq SIM!OnRecord(call.swap))'
      BY <1>2, <1>6, <3>1 DEF SIMCallIsFine, SIM!Lasting
    <3>3. (call.known \subseteq SIM!OnRecord(call.swap))'
      BY <1>3, <1>6, <3>1
    <3>4. ~ call.missed => call.known \subseteq call.flags \cup Pending(call.at)
      BY <1>6, <2>2
    <3>5. call.at \notin Pending("login") \cup {"telco"}
      BY <1>6 DEF Pending
    <3>6. /\ call.at = "block" => SIM!ShouldBlock(call.flags)
          /\ call.at = "done" /\ ~ call.missed /\ SIM!ShouldBlock(call.flags) =>
               [user |-> call.swap.user, by |-> c] \in blocks'
      BY <1>6
    <3>7. call.answer \in {"verified", "rejected"}
      BY <1>6, <2>1
    <3> QED BY <3>2, <3>3, <3>4, <3>5, <3>6, <3>7
            DEF SIMCallIsFine, Pending, SIM!ShouldBlock, SIM!RiskScore, SIM!Signals
  <2>4. c \in swaps' \cup swapAlerts' => call.answer \in {"verified", "rejected"}
    BY <1>6, <2>1
  <2> QED BY <1>1, <1>6, <2>1, <2>3, <2>4, SIMCallGoesOn
<1>7. {"store", "alert", "block", "done"} \subseteq SIM!Stages \cup SIM!Ends
  BY DEF SIM!Stages, SIM!Ends
<1>8. CASE SIM!storeSIMSwapEvent(c)
  <2>1. /\ UNCHANGED <<accountAccesses, swapAlerts, blocks>> /\ old.at = "store"
        /\ swaps' = swaps \/ swaps' = swaps \cup {c}
    BY <1>1, <1>8 DEF SIM!storeSIMSwapEvent
  <2>2. PICK next \in {"alert", "done"} :
          /\ swapCalls' = [swapCalls EXCEPT ![c].at = next]
          /\ SIM!RaisesAlert(old.flags) => next = "alert"
    BY <1>1, <1>8 DEF SIM!storeSIMSwapEvent
  <2>3. PICK call : call = [old EXCEPT !.at = next]
    OBVIOUS
  <2>4. /\ Goes(call) /\ call.flags = old.flags /\ call.answer = old.answer /\ call.at = next
        /\ call.missed = old.missed
    BY <1>1, <1>7, <2>2, <2>3, SIMFacts DEF SIM!Call
  <2>5. SIM!ShouldBlock(old.flags) => SIM!RaisesAlert(old.flags)
    BY DEF SIM!ShouldBlock, SIM!RaisesAlert, SIM!RiskScore, SIM!Signals, SIM!Weight
  <2>6. \/ call.at = "alert"
        \/ call.at = "done" /\ ~ SIM!ShouldBlock(old.flags)
    BY <2>2, <2>4, <2>5
  <2> QED BY <1>6, <2>1, <2>4, <2>6
<1>9. CASE SIM!createAlert(c)
  <2>1. /\ UNCHANGED <<accountAccesses, swaps, blocks>> /\ old.at = "alert"
        /\ swapAlerts' = swapAlerts \/ swapAlerts' = swapAlerts \cup {c}
    BY <1>1, <1>9 DEF SIM!createAlert
  <2>2. PICK next \in {"block", "done"} :
          /\ swapCalls' = [swapCalls EXCEPT ![c].at = next]
          /\ SIM!ShouldBlock(old.flags) <=> next = "block"
    BY <1>1, <1>9 DEF SIM!createAlert
  <2>3. PICK call : call = [old EXCEPT !.at = next]
    OBVIOUS
  <2>4. /\ Goes(call) /\ call.flags = old.flags /\ call.answer = old.answer /\ call.at = next
        /\ call.missed = old.missed
    BY <1>1, <1>7, <2>2, <2>3, SIMFacts DEF SIM!Call
  <2> QED BY <1>6, <2>1, <2>2, <2>4
<1>10. CASE SIM!blockUserAccount(c)
  <2>1. UNCHANGED <<accountAccesses, swaps, swapAlerts>> /\ old.at = "block"
    BY <1>1, <1>10 DEF SIM!blockUserAccount
  <2>2. SIM!ShouldBlock(old.flags)
    BY <1>2, <2>1 DEF SIMCallIsFine
  <2>3. CASE /\ blocks' = blocks \cup {[user |-> old.swap.user, by |-> c]}
             /\ swapCalls' = [swapCalls EXCEPT ![c].at = "done"]
    <3>1. PICK call : call = [old EXCEPT !.at = "done"]
      OBVIOUS
    <3>2. /\ Goes(call) /\ call.flags = old.flags /\ call.answer = old.answer /\ call.at = "done"
          /\ call.missed = old.missed
      BY <1>1, <1>7, <2>3, <3>1, SIMFacts DEF SIM!Call
    <3> QED BY <1>6, <2>1, <2>2, <2>3, <3>2
  <2>4. CASE /\ blocks' = blocks
             /\ swapCalls' = [swapCalls EXCEPT ![c].at = "done", ![c].missed = TRUE]
    <3>1. PICK call : call = [old EXCEPT !.at = "done", !.missed = TRUE]
      OBVIOUS
    <3>2. /\ Goes(call) /\ call.flags = old.flags /\ call.answer = old.answer /\ call.at = "done"
          /\ call.missed
      BY <1>1, <1>7, <2>4, <3>1, SIMFacts DEF SIM!Call
    <3> QED BY <1>6, <2>1, <2>4, <3>2
  <2> QED BY <1>1, <1>10, <2>3, <2>4 DEF SIM!blockUserAccount
<1> QED BY <1>4, <1>5, <1>8, <1>9, <1>10

LEMMA SIMReceiveKeeps ==
  ASSUME SIMInv, NEW s \in Swaps, SIM!detectSIMSwap(s)
  PROVE  SIMInv'
<1> DEFINE n == Len(swapCalls) + 1
<1>1. /\ UNCHANGED <<accountAccesses, swaps, swapAlerts, blocks>>
      /\ Len(swapCalls) < MaxSwapCalls /\ MaxSwapCalls \in Nat /\ s \in SIM!Swap
  BY SIMConstants DEF SIM!detectSIMSwap
<1>2. PICK known : known = SIM!OnRecord(s)
  OBVIOUS
<1>3. known \subseteq SIM!Lasting
  BY <1>2 DEF SIM!OnRecord
<1>4. PICK call : /\ call = [swap |-> s, at |-> "login", flags |-> {}, missed |-> FALSE,
                             answer |-> "none", known |-> known]
                  /\ swapCalls' = Append(swapCalls, call)
  BY <1>2, LookUpStages DEF SIM!detectSIMSwap
<1>5. /\ call \in SIM!Call /\ call.swap = s /\ call.at = "login" /\ call.flags = {}
      /\ call.answer = "none" /\ call.known = known
  <2>1. "login" \in SIM!Stages /\ known \subseteq SIM!Flags
    BY <1>3, LookUpStages DEF Pending, SIM!Lasting
  <2> QED BY <1>1, <1>4, <2>1 DEF SIM!Call
<1>6. /\ swapCalls' \in Seq(SIM!Call) /\ Len(swapCalls') = n
      /\ DOMAIN swapCalls' = DOMAIN swapCalls \cup {n} /\ n \notin DOMAIN swapCalls
      /\ swapCalls'[n] = call /\ \A k \in DOMAIN swapCalls : swapCalls'[k] = swapCalls[k]
  BY <1>4, <1>5, SIMFacts, Appended
<1>7. n <= MaxSwapCalls
  BY <1>1, SIMFacts
<1> HIDE DEF n
<1>8. \A r : SIM!OnRecord(r) \subseteq SIM!OnRecord(r)'
  <2> TAKE r
  <2>1. \A k \in swaps : swapCalls'[k].swap = swapCalls[k].swap
    BY <1>6, SIMFacts DEF SIMTables
  <2> QED BY <1>1, <2>1, SIMFacts, RecordStays
<1>9. SIMTables'
  BY <1>1, <1>6, SIMFacts DEF SIMTables
<1>10. BlocksAreDue'
  BY <1>1, <1>6, SIMFacts DEF BlocksAreDue, SIM!ShouldBlock, SIM!RiskScore, SIM!Signals
<1>11. \A k \in swaps' \cup swapAlerts' : swapCalls'[k].answer \in {"verified", "rejected"}
  BY <1>1, <1>6, SIMFacts DEF SIMTables
<1>12. ASSUME NEW k \in DOMAIN swapCalls'
       PROVE  SIMCallIsFine(k, swapCalls[k])'
  <2>1. CASE k = n
    <3>1. known \subseteq Pending("login") /\ "login" \in Pending("login") \cup {"telco"}
      BY <1>3 DEF Pending, SIM!Lasting, SIM!Flags
    <3>2. known \subseteq SIM!OnRecord(s)'
      BY <1>2, <1>8
    <3>3. SIMCallIsFine(k, call)'
      BY <1>5, <3>1, <3>2 DEF SIMCallIsFine, Pending, SIM!Lasting
    <3> QED BY <1>6, <2>1, <3>3
  <2>2. CASE k # n
    <3>1. PICK other \in SIM!Call : other = swapCalls[k] /\ swapCalls'[k] = other
      BY <1>6, <2>2, SIMFacts
    <3>2. SIMCallIsFine(k, other)
      BY <1>6, <2>2, <3>1, SIMFacts
    <3>3. SIMCallIsFine(k, other)'
      BY <1>1, <1>8, <3>2, SIMOthersKeep
    <3> QED BY <3>1, <3>3
  <2> QED BY <2>1, <2>2
<1> QED BY <1>6, <1>7, <1>9, <1>10, <1>11, <1>12 DEF SIMInv

(* An access that is logged, an account that is blocked by hand: the calls *)
(* do not move.                                                            *)
LEMMA SIMBesideCalls ==
  ASSUME SIMInv, UNCHANGED <<swaps, swapAlerts, swapCalls>>,
         \/ blocks' = blocks
         \/ \E user \in Users : blocks' = blocks \cup {[user |-> user, by |-> 0]},
         \/ accountAccesses' = accountAccesses
         \/ \E access \in Accesses : accountAccesses' = Append(accountAccesses, access)
  PROVE  SIMInv'
<1>1. /\ accountAccesses' \in Seq(SIM!Access)
      /\ DOMAIN accountAccesses \subseteq DOMAIN accountAccesses'
      /\ \A i \in DOMAIN accountAccesses : accountAccesses'[i] = accountAccesses[i]
  <2>1. CASE accountAccesses' = accountAccesses
    BY <2>1, SIMFacts
  <2>2. ASSUME NEW access \in Accesses, accountAccesses' = Append(accountAccesses, access)
        PROVE  /\ accountAccesses' \in Seq(SIM!Access)
               /\ DOMAIN accountAccesses \subseteq DOMAIN accountAccesses'
               /\ \A i \in DOMAIN accountAccesses : accountAccesses'[i] = accountAccesses[i]
    <3>1. access \in SIM!Access /\ accountAccesses \in Seq(SIM!Access)
      BY SIMFacts, SIMConstants
    <3> QED BY <2>2, <3>1, Appended
  <2> QED BY <2>1, <2>2
<1>2. \A r : SIM!OnRecord(r) \subseteq SIM!OnRecord(r)'
  BY <1>1, SIMFacts, RecordStays
<1>3. /\ blocks' \subseteq [user : Users, by : 0..MaxSwapCalls] /\ blocks \subseteq blocks'
      /\ \A b \in blocks' : b.by # 0 => b \in blocks
  BY SIMFacts, SIMConstants DEF SIMTables
<1>4. SIMTables'
  BY <1>1, <1>3, SIMFacts DEF SIMTables
<1>5. BlocksAreDue'
  BY <1>3, SIMFacts DEF BlocksAreDue, SIM!ShouldBlock, SIM!RiskScore, SIM!Signals
<1>6. ASSUME NEW k \in DOMAIN swapCalls
      PROVE  SIMCallIsFine(k, swapCalls[k])'
  <2>1. PICK call \in SIM!Call : call = swapCalls[k]
    BY SIMFacts
  <2>2. SIMCallIsFine(k, call)'
    BY <1>2, <1>3, <2>1, SIMFacts, SIMOthersKeep
  <2> QED BY <2>1, <2>2
<1> QED BY <1>4, <1>5, <1>6, SIMFacts DEF SIMInv

LEMMA SIMStopKeeps ==
  ASSUME SIMInv, SIM!Stop
  PROVE  SIMInv'
<1>1. /\ UNCHANGED <<accountAccesses, swaps, swapAlerts, blocks>>
      /\ swapCalls' = [c \in DOMAIN swapCalls |->
           IF c \in SIM!InFlight THEN [swapCalls[c] EXCEPT !.at = "lost"] ELSE swapCalls[c]]
  BY DEF SIM!Stop
<1>2. DOMAIN swapCalls' = DOMAIN swapCalls /\ swapCalls' = [c \in DOMAIN swapCalls |-> swapCalls'[c]]
  BY <1>1
<1>3. ASSUME NEW k \in DOMAIN swapCalls
      PROVE  /\ swapCalls'[k] \in SIM!Call /\ swapCalls'[k].swap = swapCalls[k].swap
             /\ swapCalls'[k].answer = swapCalls[k].answer
             /\ \/ swapCalls'[k] = swapCalls[k]
                \/ /\ swapCalls'[k].at = "lost" /\ swapCalls[k].at # "done"
                   /\ swapCalls'[k].flags = swapCalls[k].flags
                   /\ swapCalls'[k].known = swapCalls[k].known
  <2>1. PICK old \in SIM!Call : old = swapCalls[k]
    BY SIMFacts
  <2>2. PICK call : call = [old EXCEPT !.at = "lost"]
    OBVIOUS
  <2>3. /\ call \in SIM!Call /\ call.swap = old.swap /\ call.at = "lost"
        /\ call.answer = old.answer /\ call.flags = old.flags /\ call.known = old.known
    BY <2>2 DEF SIM!Call, SIM!Ends
  <2>4. \/ swapCalls'[k] = old
        \/ swapCalls'[k] = call /\ old.at \in SIM!Stages
    BY <1>1, <2>1, <2>2 DEF SIM!InFlight
  <2>5. "done" \notin SIM!Stages
    BY LookUpStages DEF Pending
  <2> QED BY <2>1, <2>3, <2>4, <2>5
<1>4. swapCalls' \in Seq(SIM!Call) /\ Len(swapCalls') = Len(swapCalls)
  BY <1>2, <1>3, SIMFacts, Mapped
<1>5. \A r : SIM!OnRecord(r) \subseteq SIM!OnRecord(r)'
  <2> TAKE r
  <2>1. \A k \in swaps : swapCalls'[k].swap = swapCalls[k].swap
    BY <1>3, SIMFacts DEF SIMTables
  <2> QED BY <1>1, <2>1, SIMFacts, RecordStays
<1>6. SIMTables'
  BY <1>1, <1>2, SIMFacts DEF SIMTables
<1>7. BlocksAreDue'
  <2> SUFFICES ASSUME NEW b \in blocks, b.by # 0
      PROVE  /\ b.by \in DOMAIN swapCalls' /\ swapCalls'[b.by].at = "done"
             /\ SIM!ShouldBlock(swapCalls'[b.by].flags)
    BY <1>1 DEF BlocksAreDue, SIM!ShouldBlock, SIM!RiskScore, SIM!Signals
  <2>1. b.by \in DOMAIN swapCalls /\ swapCalls[b.by].at = "done"
        /\ SIM!ShouldBlock(swapCalls[b.by].flags)
    BY SIMFacts DEF BlocksAreDue
  <2>2. swapCalls'[b.by] = swapCalls[b.by]
    BY <1>3, <2>1
  <2> QED BY <1>2, <2>1, <2>2
<1>8. \A k \in swaps' \cup swapAlerts' : swapCalls'[k].answer \in {"verified", "rejected"}
  BY <1>1, <1>3, SIMFacts DEF SIMTables
<1>9. ASSUME NEW k \in DOMAIN swapCalls
      PROVE  SIMCallIsFine(k, swapCalls[k])'
  <2>1. PICK old \in SIM!Call, call \in SIM!Call : old = swapCalls[k] /\ call = swapCalls'[k]
    BY <1>3, SIMFacts
  <2>2. SIMCallIsFine(k, old)'
    BY <1>1, <1>5, <2>1, SIMFacts, SIMOthersKeep
  <2>3. CASE call.at = "lost" /\ call.flags = old.flags /\ call.known = old.known /\ call.swap = old.swap
    <3>1. (call.flags \cap SIM!Lasting \subseteq SIM!OnRecord(call.swap))'
      BY <2>2, <2>3 DEF SIMCallIsFine, SIM!Lasting
    <3>2. (call.known \subseteq SIM!OnRecord(call.swap))'
      BY <2>2, <2>3 DEF SIMCallIsFine
    <3>3. SIMCallIsFine(k, call)'
      BY <2>3, <3>1, <3>2 DEF SIMCallIsFine, Pending
    <3> QED BY <2>1, <3>3
  <2> QED BY <1>3, <2>1, <2>2, <2>3
<1> QED BY <1>2, <1>4, <1>6, <1>7, <1>8, <1>9, SIMFacts DEF SIMInv

LEMMA SIMInvHolds == Spec => []SIMInv
<1>1. SIMInv /\ [Next]_vars => SIMInv'
  <2> SUFFICES ASSUME SIMInv, [Next]_vars PROVE SIMInv'
    OBVIOUS
  <2>1. CASE SIM!Next
    <3>1. ASSUME NEW access \in Accesses, SIM!monitorAccountAccess(access)
          PROVE  SIMInv'
      BY <3>1, SIMBesideCalls DEF SIM!monitorAccountAccess
    <3>2. ASSUME NEW user \in Users, SIM!blockAccount(user)
          PROVE  SIMInv'
      BY <3>2, SIMBesideCalls DEF SIM!blockAccount
    <3> QED BY <2>1, <3>1, <3>2, SIMReceiveKeeps, SIMHandlersKeep, SIMStopKeeps DEF SIM!Next
  <2>2. CASE UNCHANGED swapVars
    BY <2>2, SIMBesideCalls DEF swapVars
  <2> QED BY <2>1, <2>2, ServicesStep
<1> QED BY <1>1, SIMInit, PTL DEF Spec

(* Nobody is blocked by the SIM-swap detector for one reason or without    *)
(* the telco's answer, and the evidence that was logged when the analysis  *)
(* of a swap began leads to a block unless a look-up or the block failed.  *)
THEOREM SwapsAreBlockedOnEvidence == Spec => []BlocksMatchEvidence
<1>1. SIMInv => BlocksMatchEvidence
  <2> SUFFICES ASSUME SIMInv PROVE BlocksMatchEvidence
    OBVIOUS
  <2>1. SIM!BlocksHaveTwoCauses
    <3> SUFFICES ASSUME NEW b \in blocks, b.by # 0
        PROVE  /\ Cardinality(swapCalls[b.by].flags) >= 2
               /\ swapCalls[b.by].flags \cap SIM!Lasting \subseteq SIM!OnRecord(swapCalls[b.by].swap)
      BY DEF SIM!BlocksHaveTwoCauses, Cardinality, SIM!Cardinality
    <3>1. b.by \in DOMAIN swapCalls /\ SIM!ShouldBlock(swapCalls[b.by].flags)
      BY SIMFacts DEF BlocksAreDue
    <3>2. swapCalls[b.by].flags \in SUBSET SIM!Flags /\ SIMCallIsFine(b.by, swapCalls[b.by])
      BY <3>1, SIMFacts DEF SIM!Call
    <3> QED BY <3>1, <3>2, BlockTakesTwoFlags DEF SIMCallIsFine
  <2>2. SIM!EvidenceInTimeBlocks
    <3> SUFFICES ASSUME NEW c \in DOMAIN swapCalls, swapCalls[c].at = "done",
                        ~ swapCalls[c].missed, SIM!ShouldBlock(swapCalls[c].known)
        PROVE  \E b \in blocks : b.user = swapCalls[c].swap.user /\ b.by = c
      BY DEF SIM!EvidenceInTimeBlocks, SIM!ShouldBlock
    <3>1. SIMCallIsFine(c, swapCalls[c])
      BY SIMFacts
    <3>2. swapCalls[c].known \subseteq swapCalls[c].flags
      BY <3>1 DEF SIMCallIsFine, Pending
    <3>3. SIM!ShouldBlock(swapCalls[c].flags)
      BY <3>2, ScoreGrows
    <3>4. [user |-> swapCalls[c].swap.user, by |-> c] \in blocks
      BY <3>1, <3>3 DEF SIMCallIsFine
    <3> QED BY <3>4
  <2>3. SIM!DecidedWithTelcoAnswer
    <3> SUFFICES ASSUME NEW b \in blocks, b.by # 0
        PROVE  swapCalls[b.by].answer \in {"verified", "rejected"}
      BY SIMFacts DEF SIM!DecidedWithTelcoAnswer
    <3> QED BY SIMFacts DEF BlocksAreDue, SIMCallIsFine
  <2> QED BY <2>1, <2>2, <2>3 DEF BlocksMatchEvidence, SIM!BlocksMatchEvidence
<1> QED BY <1>1, SIMInvHolds, PTL

LEMMA SIMTypes == SIMInv => SIM!TypeOK
BY SIMFacts DEF SIM!TypeOK, SIMTables

-----------------------------------------------------------------------------
(* crypto-fraud-detector.                                                  *)

WalletAt(call) ==
  IF call.req.kind = "analyze" THEN call.req.txns[call.next].wallet ELSE call.req.wallet

LooksUp(call, w) ==
  \/ call.req.kind = "verify" /\ call.req.wallet = w
  \/ call.req.kind = "analyze" /\ \E i \in DOMAIN call.req.txns : call.req.txns[i].wallet = w

(* A blacklisting of the wallet has inserted its row; it was answered; a   *)
(* look-up was under way when it inserted.                                 *)
Blacklists(call, w) == call.req.kind = "blacklist" /\ call.req.wallet = w
Inserted(w) ==
  \E b \in DOMAIN walletCalls :
    Blacklists(walletCalls[b], w) /\ walletCalls[b].at \in {"invalidate", "done"}
Answered(w) ==
  \E b \in DOMAIN walletCalls : Blacklists(walletCalls[b], w) /\ walletCalls[b].at = "done"
Raced(w) ==
  \E b \in DOMAIN walletCalls :
    Blacklists(walletCalls[b], w) /\ \E k \in walletCalls[b].beside : LooksUp(walletCalls[k], w)

(* The stages of the kinds of requests, and what has its type there.       *)
WALCallIsTyped(call) ==
  /\ call.beside \subseteq DOMAIN walletCalls
  /\ call.wallet \in {0, 20, 30, 50, 100} /\ call.velocity \in {0, 25, 30, 55}
  /\ call.at \in {"verify", "exchanges"} => call.req.kind = "verify"
  /\ call.at \in {"count", "store"} => call.req.kind = "analyze"
  /\ call.at \in WAL!WalletStages => call.req.kind \in {"verify", "analyze"}
  /\ call.at \in {"insert", "invalidate"} => call.req.kind = "blacklist"
  /\ call.at \in {"upsert", "detect", "report"} => call.req.kind = "trade"
  /\ call.at = "insert" => call.beside = {}
  /\ call.req.kind = "analyze" => call.next \in DOMAIN call.req.txns
  /\ call.at \in {"upsert", "detect"} => call.next = 1
  /\ call.at = "report" => call.next \in DOMAIN call.found

(* What holds of a call while no statement has failed.  A blacklisting that*)
(* has inserted is on the list; what was answered when a call began is     *)
(* listed for a verification that has asked; a reputation below the list's *)
(* is only on its way if the wallet was not known, and is only there for a *)
(* known one after a race; a score has the reputation in it.               *)
WALCallIsFine(call) ==
  /\ \A w \in call.known : Answered(w)
  /\ call.req.kind = "blacklist" /\ call.at \in {"invalidate", "done"} =>
       call.req.wallet \in blacklist
  /\ call.req.kind = "verify" /\ call.at \notin {"verify", "unauthorized"}
       /\ call.req.wallet \in call.known => call.listed
  /\ call.at = "history" \/ (call.at = "fill" /\ call.wallet < 100) =>
       /\ WalletAt(call) \notin call.known
       /\ Inserted(WalletAt(call)) => Raced(WalletAt(call))
  /\ /\ call.at \in {"count", "store", "exchanges", "done"}
     /\ call.req.kind \in {"verify", "analyze"} /\ call.wallet < 100
     /\ WalletAt(call) \in call.known
     => Raced(WalletAt(call))
  /\ call.at \in {"store", "done"} /\ call.req.kind = "analyze" => call.score >= call.wallet

(* A cached reputation hides an answered blacklisting after a race only.   *)
CacheIsRight ==
  \A w \in Wallets : cache[w] # NoRow /\ cache[w] < 100 /\ Answered(w) => Raced(w)

OfHour(txn, user) == txn.user = user /\ txn.age = "hour"
Unnoticed(user) ==
  {i \in DOMAIN ledger : /\ i > Len(WalletLedger)
                         /\ OfHour(ledger[i].txn, user) /\ ledger[i].velocity < 30}

(* The rows without velocity points that are still to be stored.           *)
IsWaiting(call, user) ==
  call.at = "store" /\ OfHour(call.req.txns[call.next], user) /\ call.velocity < 30
Waiting(user) == {c \in DOMAIN walletCalls : IsWaiting(walletCalls[c], user)}

BurstsAreCounted ==
  \A user \in Users :
    Cardinality(Unnoticed(user)) + Cardinality(Waiting(user)) <= BusyHour + Concurrency

WALRow == [txn : WAL!Txn, velocity : {0, 25, 30, 55}]
WALTables ==
  /\ ledger \in Seq(WALRow)
  /\ blacklist \subseteq Wallets
  /\ cache = [w \in Wallets |-> cache[w]]
  /\ \A w \in Wallets : cache[w] = NoRow \/ cache[w] \in {0, 20, 30, 50, 100}
  /\ trades \in [TradeIds -> WAL!StoredTrade \cup {NoRow}]
  /\ tradeAlerts \subseteq (DOMAIN walletCalls) \X WAL!AlertTypes

WALInv ==
  /\ walletCalls \in Seq(WAL!Call) /\ walletFaults \in Nat
  /\ WALTables
  /\ Cardinality(WAL!InFlight) <= Concurrency
  /\ \A c \in DOMAIN walletCalls : WALCallIsTyped(walletCalls[c])
  /\ walletFaults = 0 =>
       /\ \A c \in DOMAIN walletCalls : WALCallIsFine(walletCalls[c])
       /\ CacheIsRight /\ BurstsAreCounted

LEMMA WALConstants ==
  /\ \A req \in WalletRequests : req \in WAL!Request /\ (req.kind = "analyze" => req.txns # << >>)
  /\ WalletLedger \in Seq(WAL!Txn) /\ Blacklist \subseteq Wallets
  /\ Trades \in [TradeIds -> WAL!StoredTrade \cup {NoRow}]
  /\ BusyHour \in Nat /\ Concurrency \in Nat \ {0}
BY WalletAssumption DEF WAL!ConstantsAssumption

LEMMA WALInit == Init => WALInv
<1> SUFFICES ASSUME Init PROVE WALInv
  OBVIOUS
<1>1. WAL!Init
  BY DEF Init
<1>2. /\ walletCalls = << >> /\ walletCalls \in Seq(WAL!Call) /\ DOMAIN walletCalls = {}
      /\ walletFaults = 0
  BY <1>1 DEF WAL!Init
<1>3. ledger \in Seq(WALRow) /\ DOMAIN ledger = 1..Len(WalletLedger)
  <2>1. /\ DOMAIN WalletLedger = 1..Len(WalletLedger) /\ Len(WalletLedger) \in Nat
        /\ \A i \in DOMAIN WalletLedger : WalletLedger[i] \in WAL!Txn
    BY WALConstants, Domain
  <2>2. ledger = [i \in 1..Len(WalletLedger) |-> [txn |-> WalletLedger[i], velocity |-> 0]]
    BY <1>1, <2>1 DEF WAL!Init
  <2>3. \A i \in 1..Len(WalletLedger) : [txn |-> WalletLedger[i], velocity |-> 0] \in WALRow
    BY <2>1 DEF WALRow
  <2> QED BY <2>1, <2>2, <2>3
<1>4. WALTables
  BY <1>1, <1>3, WALConstants DEF WAL!Init, WALTables
<1>5. IsFiniteSet({}) /\ Cardinality({}) = 0
  BY FS_EmptySet
<1>6. Cardinality(WAL!InFlight) <= Concurrency
  <2>1. WAL!InFlight = {}
    BY <1>2 DEF WAL!InFlight
  <2> QED BY <1>5, <2>1, WALConstants
<1>7. CacheIsRight
  BY <1>2 DEF CacheIsRight, Answered
<1>8. BurstsAreCounted
  <2> SUFFICES ASSUME NEW user \in Users
      PROVE  Cardinality(Unnoticed(user)) + Cardinality(Waiting(user)) <= BusyHour + Concurrency
    BY DEF BurstsAreCounted
  <2>1. Waiting(user) = {}
    BY <1>2 DEF Waiting
  <2>2. Unnoticed(user) = {}
    <3>1. \A i \in 1..Len(WalletLedger) : ~ (i > Len(WalletLedger))
      BY WALConstants
    <3> QED BY <1>3, <3>1 DEF Unnoticed
  <2> QED BY <1>5, <2>1, <2>2, WALConstants
<1> QED BY <1>2, <1>4, <1>6, <1>7, <1>8 DEF WALInv

LEMMA WALFacts ==
  ASSUME WALInv
  PROVE  /\ walletCalls \in Seq(WAL!Call) /\ walletFaults \in Nat
         /\ \A k \in DOMAIN walletCalls :
              walletCalls[k] \in WAL!Call /\ WALCallIsTyped(walletCalls[k])
         /\ WALTables /\ Cardinality(WAL!InFlight) <= Concurrency
         /\ walletFaults = 0 =>
              /\ \A k \in DOMAIN walletCalls : WALCallIsFine(walletCalls[k])
              /\ CacheIsRight /\ BurstsAreCounted
BY Domain DEF WALInv

LEMMA WALTypes == WALInv => WAL!TypeOK
<1> SUFFICES ASSUME WALInv PROVE WAL!TypeOK
  OBVIOUS
<1>1. \A i \in DOMAIN ledger : ledger[i].txn \in WAL!Txn /\ ledger[i].velocity \in {0, 25, 30, 55}
  <2>1. \A i \in DOMAIN ledger : ledger[i] \in WALRow
    BY WALFacts, Domain DEF WALTables
  <2> QED BY <2>1 DEF WALRow
<1>2. \A id \in TradeIds : trades[id] = NoRow \/ trades[id] \in WAL!StoredTrade
  BY WALFacts DEF WALTables
<1> QED BY <1>1, <1>2, WALFacts DEF WALTables, WAL!TypeOK

(* A step of one call leaves its request and what it knew; only an insert  *)
(* says which calls were beside it.                                        *)
WALStep(c, call) ==
  LET old == walletCalls[c]
  IN /\ walletCalls' = [walletCalls EXCEPT ![c] = call]
     /\ old.at \in WAL!Stages
     /\ call.req = old.req /\ call.known = old.known
     /\ call.beside = old.beside \/ old.at = "insert"
     /\ call.at = "invalidate" => old.at = "insert"
     /\ call.at = "done" /\ call.req.kind = "blacklist" => old.at = "invalidate"

LEMMA WALStepEffects ==
  ASSUME WALInv, NEW c \in DOMAIN walletCalls, NEW call \in WAL!Call, WALStep(c, call)
  PROVE  /\ walletCalls' \in Seq(WAL!Call) /\ DOMAIN walletCalls' = DOMAIN walletCalls
         /\ walletCalls'[c] = call
         /\ \A k \in DOMAIN walletCalls : k # c => walletCalls'[k] = walletCalls[k]
         /\ \A w : Answered(w) => Answered(w)'
         /\ \A w : Raced(w) => Raced(w)'
         /\ \A w : Inserted(w)' => \/ Inserted(w)
                                   \/ walletCalls[c].at = "insert" /\ Blacklists(call, w)
         /\ \A w : Answered(w)' => \/ Answered(w)
                                   \/ walletCalls[c].at = "invalidate" /\ Blacklists(call, w)
<1>1. /\ walletCalls' \in Seq(WAL!Call) /\ DOMAIN walletCalls' = DOMAIN walletCalls
      /\ walletCalls'[c] = call
      /\ \A k \in DOMAIN walletCalls : k # c => walletCalls'[k] = walletCalls[k]
  BY WALFacts, Replaced DEF WALStep
<1>2. PICK old \in WAL!Call : old = walletCalls[c]
  BY WALFacts
<1>3. /\ old.at \in WAL!Stages /\ call.req = old.req
      /\ call.beside = old.beside \/ old.at = "insert"
      /\ call.at = "invalidate" => old.at = "insert"
      /\ call.at = "done" /\ call.req.kind = "blacklist" => old.at = "invalidate"
      /\ old.at = "insert" => old.beside = {}
  BY <1>2, WALFacts DEF WALStep, WALCallIsTyped
<1>4. \A w : \A k \in DOMAIN walletCalls :
        /\ Blacklists(walletCalls[k], w) <=> Blacklists(walletCalls'[k], w)
        /\ LooksUp(walletCalls[k], w) <=> LooksUp(walletCalls'[k], w)
  BY <1>1, <1>2, <1>3 DEF Blacklists, LooksUp
<1>5. ASSUME NEW w, Answered(w) PROVE Answered(w)'
  <2>1. PICK b \in DOMAIN walletCalls : Blacklists(walletCalls[b], w) /\ walletCalls[b].at = "done"
    BY <1>5 DEF Answered
  <2>2. b # c
    BY <1>2, <1>3, <2>1 DEF WAL!Stages, WAL!WalletStages
  <2> QED BY <1>1, <1>4, <2>1, <2>2 DEF Answered
<1>6. ASSUME NEW w, Raced(w) PROVE Raced(w)'
  <2>1. PICK b \in DOMAIN walletCalls :
          Blacklists(walletCalls[b], w) /\ \E k \in walletCalls[b].beside : LooksUp(walletCalls[k], w)
    BY <1>6 DEF Raced
  <2>2. PICK k \in walletCalls[b].beside : LooksUp(walletCalls[k], w)
    BY <2>1
  <2>3. walletCalls[b].beside \subseteq DOMAIN walletCalls
    BY WALFacts DEF WALCallIsTyped
  <2>4. k \in walletCalls'[b].beside
    <3>1. CASE b = c
      BY <1>1, <1>2, <1>3, <3>1
    <3>2. CASE b # c
      BY <1>1, <3>2
    <3> QED BY <3>1, <3>2
  <2> QED BY <1>1, <1>4, <2>1, <2>2, <2>3, <2>4 DEF Raced
<1>7. ASSUME NEW w, Inserted(w)'
      PROVE  Inserted(w) \/ (walletCalls[c].at = "insert" /\ Blacklists(call, w))
  <2>1. PICK b \in DOMAIN walletCalls :
          Blacklists(walletCalls'[b], w) /\ walletCalls'[b].at \in {"invalidate", "done"}
    BY <1>1, <1>7 DEF Inserted
  <2>2. CASE b # c
    BY <1>1, <1>4, <2>1, <2>2 DEF Inserted
  <2>3. CASE b = c
    <3>1. Blacklists(call, w) /\ call.at \in {"invalidate", "done"} /\ call.req.kind = "blacklist"
      BY <1>1, <2>1, <2>3 DEF Blacklists
    <3>2. old.at \in {"insert", "invalidate"}
      BY <1>3, <3>1
    <3>3. Blacklists(walletCalls[c], w)
      BY <1>1, <1>4, <2>3, <3>1
    <3> QED BY <1>2, <3>1, <3>2, <3>3 DEF Inserted
  <2> QED BY <2>2, <2>3
<1>8. ASSUME NEW w, Answered(w)'
      PROVE  Answered(w) \/ (walletCalls[c].at = "invalidate" /\ Blacklists(call, w))
  <2>1. PICK b \in DOMAIN walletCalls : Blacklists(walletCalls'[b], w) /\ walletCalls'[b].at = "done"
    BY <1>1, <1>8 DEF Answered
  <2>2. CASE b # c
    BY <1>1, <1>4, <2>1, <2>2 DEF Answered
  <2>3. CASE b = c
    <3>1. Blacklists(call, w) /\ call.at = "done" /\ call.req.kind = "blacklist"
      BY <1>1, <2>1, <2>3 DEF Blacklists
    <3> QED BY <1>2, <1>3, <3>1
  <2> QED BY <2>2, <2>3
<1> QED BY <1>1, <1>5, <1>6, <1>7, <1>8

(* Other calls keep what holds of them.                                    *)
LEMMA WALOthersKeep ==
  ASSUME NEW call \in WAL!Call, WALCallIsFine(call), blacklist \subseteq blacklist',
         \A w : Answered(w) => Answered(w)', \A w : Raced(w) => Raced(w)',
         call.at \in {"history", "fill"} /\ Inserted(WalletAt(call))'
           => Inserted(WalletAt(call)) \/ Raced(WalletAt(call))'
  PROVE  WALCallIsFine(call)'
<1>1. PICK w : w = WalletAt(call)
  OBVIOUS
<1>2. /\ \A v \in call.known : Answered(v)'
      /\ call.req.kind = "blacklist" /\ call.at \in {"invalidate", "done"} =>
           call.req.wallet \in blacklist'
      /\ call.req.kind = "verify" /\ call.at \notin {"verify", "unauthorized"}
           /\ call.req.wallet \in call.known => call.listed
      /\ call.at \in {"store", "done"} /\ call.req.kind = "analyze" => call.score >= call.wallet
  BY DEF WALCallIsFine
<1>3. ASSUME call.at = "history" \/ (call.at = "fill" /\ call.wallet < 100)
      PROVE  w \notin call.known /\ (Inserted(w)' => Raced(w)')
  BY <1>1, <1>3 DEF WALCallIsFine
<1>4. ASSUME /\ call.at \in {"count", "store", "exchanges", "done"}
             /\ call.req.kind \in {"verify", "analyze"} /\ call.wallet < 100 /\ w \in call.known
      PROVE  Raced(w)'
  BY <1>1, <1>4 DEF WALCallIsFine
<1>5. WalletAt(call)' = w
  BY <1>1 DEF WalletAt
<1> QED BY <1>2, <1>3, <1>4, <1>5 DEF WALCallIsFine

(* A step of one call.                                                     *)
LEMMA WALCallGoesOn ==
  ASSUME WALInv, NEW c \in DOMAIN walletCalls, NEW call \in WAL!Call, WALStep(c, call),
         WALTables', walletFaults' \in Nat, walletFaults' = 0 => walletFaults = 0,
         blacklist \subseteq blacklist', WALCallIsTyped(call)',
         walletFaults' = 0 =>
           /\ WALCallIsFine(call)' /\ CacheIsRight' /\ BurstsAreCounted'
           /\ \A k \in DOMAIN walletCalls :
                k # c /\ walletCalls[k].at \in {"history", "fill"}
                /\ Inserted(WalletAt(walletCalls[k]))'
                => Inserted(WalletAt(walletCalls[k])) \/ Raced(WalletAt(walletCalls[k]))'
  PROVE  WALInv'
<1>1. /\ walletCalls' \in Seq(WAL!Call) /\ DOMAIN walletCalls' = DOMAIN walletCalls
      /\ walletCalls'[c] = call
      /\ \A k \in DOMAIN walletCalls : k # c => walletCalls'[k] = walletCalls[k]
      /\ \A w : Answered(w) => Answered(w)'
      /\ \A w : Raced(w) => Raced(w)'
  BY WALStepEffects
<1>2. Cardinality(WAL!InFlight') <= Concurrency
  <2>1. WAL!InFlight' \subseteq WAL!InFlight /\ WAL!InFlight \subseteq DOMAIN walletCalls
    <3>1. walletCalls[c].at \in WAL!Stages
      BY DEF WALStep
    <3> QED BY <1>1, <3>1 DEF WAL!InFlight
  <2>2. PICK fewer, more : fewer = WAL!InFlight' /\ more = WAL!InFlight
    OBVIOUS
  <2>3. IsFiniteSet(more)
    BY <2>1, <2>2, WALFacts, Domain, FS_Subset
  <2>4. /\ Cardinality(fewer) <= Cardinality(more)
        /\ Cardinality(fewer) \in Nat /\ Cardinality(more) \in Nat
    BY <2>1, <2>2, <2>3, FS_Subset, FS_CardinalityType
  <2> QED BY <2>2, <2>4, WALFacts, WALConstants
<1>3. ASSUME NEW k \in DOMAIN walletCalls' PROVE WALCallIsTyped(walletCalls[k])'
  <2>1. CASE k = c
    BY <1>1, <2>1
  <2>2. CASE k # c
    BY <1>1, <1>3, <2>2, WALFacts DEF WALCallIsTyped
  <2> QED BY <2>1, <2>2
<1>4. ASSUME walletFaults' = 0, NEW k \in DOMAIN walletCalls'
      PROVE  WALCallIsFine(walletCalls[k])'
  <2>1. CASE k = c
    BY <1>1, <1>4, <2>1
  <2>2. CASE k # c
    <3>1. PICK other \in WAL!Call : other = walletCalls[k] /\ walletCalls'[k] = other
      BY <1>1, <1>4, <2>2, WALFacts
    <3>2. WALCallIsFine(other)
      BY <1>1, <1>4, <3>1, WALFacts
    <3>3. other.at \in {"history", "fill"} /\ Inserted(WalletAt(other))'
           => Inserted(WalletAt(other)) \/ Raced(WalletAt(other))'
      <4>1. Inserted(WalletAt(walletCalls[k]))' = Inserted(WalletAt(other))'
        BY <3>1, <2>2, <1>1 DEF WalletAt, Inserted, Blacklists
      <4>2. Raced(WalletAt(walletCalls[k]))' = Raced(WalletAt(other))'
        BY <3>1, <2>2, <1>1 DEF WalletAt, Raced, Blacklists, LooksUp
      <4> QED BY <1>1, <1>4, <2>2, <3>1, <4>1, <4>2
    <3>4. WALCallIsFine(other)'
      BY <1>1, <3>2, <3>3, WALOthersKeep
    <3> QED BY <3>1, <3>4
  <2> QED BY <2>1, <2>2
<1> QED BY <1>1, <1>2, <1>3, <1>4 DEF WALInv

(* A step that neither stores, inserts nor deletes a key keeps the counts  *)
(* and the cache right.                                                    *)
LEMMA WALWaitingFewer ==
  ASSUME WALInv, NEW c \in DOMAIN walletCalls, NEW call \in WAL!Call, WALStep(c, call),
         UNCHANGED ledger, call.at # "store", BurstsAreCounted
  PROVE  BurstsAreCounted'
<1> SUFFICES ASSUME NEW user \in Users
    PROVE  (Cardinality(Unnoticed(user)) + Cardinality(Waiting(user)) <= BusyHour + Concurrency)'
  BY DEF BurstsAreCounted
<1>1. Waiting(user)' \subseteq Waiting(user) /\ Waiting(user) \subseteq DOMAIN walletCalls
  BY WALStepEffects DEF Waiting, IsWaiting
<1>2. PICK fewer, more : fewer = Waiting(user)' /\ more = Waiting(user)
  OBVIOUS
<1>3. IsFiniteSet(more)
  BY <1>1, <1>2, WALFacts, Domain, FS_Subset
<1>4. /\ Cardinality(fewer) <= Cardinality(more)
      /\ Cardinality(fewer) \in Nat /\ Cardinality(more) \in Nat
  BY <1>1, <1>2, <1>3, FS_Subset, FS_CardinalityType
<1>5. PICK rows : rows = Unnoticed(user) /\ rows = Unnoticed(user)'
  BY DEF Unnoticed
<1>6. IsFiniteSet(rows) /\ Cardinality(rows) \in Nat
  <2>1. rows \subseteq DOMAIN ledger
    BY <1>5 DEF Unnoticed
  <2>2. ledger \in Seq(WALRow)
    BY WALFacts DEF WALTables
  <2> QED BY <2>1, <2>2, Domain, FS_Subset, FS_CardinalityType
<1>7. Cardinality(rows) + Cardinality(more) <= BusyHour + Concurrency
  BY <1>2, <1>5 DEF BurstsAreCounted
<1>8. Cardinality(rows) + Cardinality(fewer) <= BusyHour + Concurrency
  BY <1>4, <1>6, <1>7, WALConstants
<1> QED BY <1>2, <1>5, <1>8 DEF Cardinality

LEMMA WALMoves ==
  ASSUME WALInv, NEW c \in DOMAIN walletCalls, NEW call \in WAL!Call, WALStep(c, call),
         WALTables', walletFaults' \in Nat, walletFaults' = 0 => walletFaults = 0,
         UNCHANGED <<ledger, blacklist, cache>>, WALCallIsTyped(call)',
         call.at # "store",
         walletFaults' = 0 =>
           /\ WALCallIsFine(call)'
           /\ walletCalls[c].at # "insert" /\ walletCalls[c].at # "invalidate"
  PROVE  WALInv'
<1>1. /\ \A w : Answered(w) => Answered(w)'
      /\ \A w : Raced(w) => Raced(w)'
      /\ \A w : Inserted(w)' => Inserted(w) \/ walletCalls[c].at = "insert"
      /\ \A w : Answered(w)' => Answered(w) \/ walletCalls[c].at = "invalidate"
  BY WALStepEffects
<1>2. ASSUME walletFaults' = 0 PROVE CacheIsRight' /\ BurstsAreCounted'
  <2>1. CacheIsRight'
    BY <1>1, <1>2, WALFacts DEF CacheIsRight
  <2>2. BurstsAreCounted'
    BY <1>2, WALFacts, WALWaitingFewer
  <2> QED BY <2>1, <2>2
<1>3. ASSUME walletFaults' = 0, NEW k \in DOMAIN walletCalls, k # c,
             Inserted(WalletAt(walletCalls[k]))'
      PROVE  Inserted(WalletAt(walletCalls[k]))
  <2>1. Inserted(WalletAt(walletCalls[k]))' => Inserted(WalletAt(walletCalls[k]))
    <3>1. PICK w : w = WalletAt(walletCalls[k])
      OBVIOUS
    <3>2. Inserted(WalletAt(walletCalls[k]))' = Inserted(w)'
      <4>1. walletCalls'[k] = walletCalls[k]
        BY <1>3, WALStepEffects
      <4> QED BY <3>1, <4>1 DEF WalletAt, Inserted, Blacklists
    <3> QED BY <1>1, <1>3, <3>1, <3>2
  <2> QED BY <1>3, <2>1
<1> QED BY <1>2, <1>3, WALCallGoesOn

LEMMA WalletOfCall ==
  ASSUME WALInv, NEW c \in DOMAIN walletCalls
  PROVE  /\ WAL!WalletOf(c) = WalletAt(walletCalls[c]) /\ WalletAt(walletCalls[c]) \in Wallets
         /\ WAL!AfterWallet(c) = IF walletCalls[c].req.kind = "analyze" THEN "count" ELSE "exchanges"
         /\ walletCalls[c].req.kind = "analyze" =>
              /\ WAL!TxnOf(c) \in WAL!Txn /\ WalletAt(walletCalls[c]) = WAL!TxnOf(c).wallet
              /\ WAL!TxnOf(c) = walletCalls[c].req.txns[walletCalls[c].next]
              /\ LooksUp(walletCalls[c], WalletAt(walletCalls[c]))
         /\ walletCalls[c].req.kind = "verify" => LooksUp(walletCalls[c], WalletAt(walletCalls[c]))
<1>1. PICK old \in WAL!Call : old = walletCalls[c] /\ WALCallIsTyped(old)
  BY WALFacts
<1>2. PICK req \in WAL!Request : req = old.req
  BY DEF WAL!Call
<1>3. req.txns \in Seq(WAL!Txn) /\ req.wallet \in Wallets
  BY DEF WAL!Request
<1>4. req.kind = "analyze" => old.next \in DOMAIN req.txns /\ req.txns[old.next] \in WAL!Txn
  BY <1>1, <1>2, <1>3, Domain DEF WALCallIsTyped
<1>5. req.kind = "analyze" => req.txns[old.next].wallet \in Wallets
  BY <1>4 DEF WAL!Txn
<1> QED BY <1>1, <1>2, <1>3, <1>4, <1>5 DEF WAL!WalletOf, WAL!TxnOf, WalletAt, WAL!AfterWallet, LooksUp

LEMMA WALTablesStay ==
  ASSUME WALInv, UNCHANGED <<ledger, blacklist, cache, trades, tradeAlerts>>,
         DOMAIN walletCalls \subseteq DOMAIN walletCalls'
  PROVE  WALTables'
BY WALFacts DEF WALTables

(* A step that only moves a call on, and says its reputation.              *)
WALMoved(old, call, stage, wallet, listed) ==
  /\ call.at = stage /\ call.wallet = wallet /\ call.listed = listed
  /\ call.req = old.req /\ call.known = old.known
  /\ call.beside = old.beside /\ call.next = old.next
  /\ call.found = old.found /\ call.velocity = old.velocity
  /\ call.score = old.score /\ WalletAt(call) = WalletAt(old)

LEMMA WALStepOf ==
  ASSUME WALInv, NEW c \in DOMAIN walletCalls, walletCalls[c].at \in WAL!Stages,
         NEW stage \in (WAL!Stages \cup WAL!Ends) \ {"invalidate"},
         stage = "done" /\ walletCalls[c].req.kind = "blacklist" => walletCalls[c].at = "invalidate",
         NEW wallet, NEW listed, NEW call \in WAL!Call,
         WALMoved(walletCalls[c], call, stage, wallet, listed),
         walletCalls' = [walletCalls EXCEPT ![c] = call]
  PROVE  WALStep(c, call)
BY DEF WALMoved, WALStep

LEMMA WALGetCached ==
  ASSUME WALInv, NEW c \in DOMAIN walletCalls, WAL!GetCached(c)
  PROVE  WALInv'
<1>1. PICK old \in WAL!Call : old = walletCalls[c] /\ WALCallIsTyped(old)
  BY WALFacts
<1>2. PICK w \in Wallets : w = WalletAt(old) /\ WAL!WalletOf(c) = w
  BY <1>1, WalletOfCall
<1>3. old.at = "cached" /\ UNCHANGED <<ledger, blacklist, cache, trades, tradeAlerts>>
  BY <1>1 DEF WAL!GetCached, WAL!tables
<1>4. old.req.kind \in {"verify", "analyze"} /\ old.at \in WAL!Stages
  BY <1>1, <1>3 DEF WALCallIsTyped, WAL!WalletStages, WAL!Stages
<1>5. walletFaults \in Nat
  BY WALFacts
<1>6. ASSUME cache[w] # NoRow, WAL!WalletKnown(c, cache[w]), UNCHANGED walletFaults
      PROVE  WALInv'
  <2>1. cache[w] \in {0, 20, 30, 50, 100}
    BY <1>6, WALFacts DEF WALTables
  <2>2. PICK stage \in {"count", "exchanges"} :
          stage = WAL!AfterWallet(c) /\ stage = IF old.req.kind = "analyze" THEN "count" ELSE "exchanges"
    BY <1>1, WalletOfCall
  <2>3. PICK call : call = [old EXCEPT !.wallet = cache[w], !.at = stage]
    OBVIOUS
  <2>4. stage \in (WAL!Stages \cup WAL!Ends) \ {"invalidate"} /\ stage # "done"
    BY <2>2 DEF WAL!Stages
  <2>5. call \in WAL!Call /\ WALMoved(old, call, stage, cache[w], old.listed)
    <3>1. cache[w] \in Nat
      BY <2>1
    <3>2. call \in WAL!Call
      BY <2>3, <2>4, <3>1 DEF WAL!Call
    <3> QED BY <2>3, <3>2 DEF WAL!Call, WALMoved, WalletAt
  <2>6. walletCalls' = [walletCalls EXCEPT ![c] = call] /\ WALStep(c, call)
    <3>1. walletCalls' = [walletCalls EXCEPT ![c] = call]
      BY <1>1, <1>6, <2>2, <2>3 DEF WAL!WalletKnown, WAL!Call
    <3> QED BY <1>1, <1>4, <2>4, <2>5, <3>1, WALStepOf
  <2>a. /\ call.at = stage /\ call.wallet = cache[w] /\ call.listed = old.listed
        /\ call.req = old.req /\ call.known = old.known
        /\ call.beside = old.beside /\ call.next = old.next
        /\ call.found = old.found /\ call.velocity = old.velocity /\ WalletAt(call) = w
    BY <1>2, <2>5 DEF WALMoved
  <2>7. DOMAIN walletCalls' = DOMAIN walletCalls
        /\ (\A v : Answered(v) => Answered(v)') /\ \A v : Raced(v) => Raced(v)'
    BY <2>5, <2>6, WALStepEffects
  <2>8. WALCallIsTyped(call)'
    BY <1>1, <1>4, <2>1, <2>2, <2>a, <2>7 DEF WALCallIsTyped, WAL!WalletStages
  <2>9. ASSUME walletFaults' = 0 PROVE WALCallIsFine(call)'
    <3>1. WALCallIsFine(old) /\ CacheIsRight
      BY <1>1, <1>6, <2>9, WALFacts
    <3>2. \A v \in call.known : Answered(v) /\ Answered(v)'
      BY <2>a, <2>7, <3>1 DEF WALCallIsFine
    <3>3. call.wallet < 100 /\ w \in call.known => Raced(w)'
      BY <1>6, <2>a, <2>7, <3>1, <3>2 DEF CacheIsRight
    <3>4. call.req.kind = "verify" /\ call.req.wallet \in call.known => call.listed
      BY <1>3, <2>a, <3>1 DEF WALCallIsFine
    <3>5. WalletAt(call)' = w
      BY <2>a DEF WalletAt
    <3> QED BY <1>4, <2>2, <2>a, <3>2, <3>3, <3>4, <3>5 DEF WALCallIsFine
  <2>10. WALTables'
    BY <1>3, <2>7, WALTablesStay
  <2>11. call.at # "store" /\ walletCalls[c].at # "insert" /\ walletCalls[c].at # "invalidate"
    BY <1>1, <1>3, <2>2, <2>a
  <2>12. walletFaults' \in Nat /\ (walletFaults' = 0 => walletFaults = 0)
    BY <1>5, <1>6
  <2> QED BY <1>3, <2>5, <2>6, <2>8, <2>9, <2>10, <2>11, <2>12, WALMoves
<1>7. ASSUME WAL!MoveTo(c, "listed"), walletFaults' = walletFaults \/ WAL!Fault
      PROVE  WALInv'
  <2>2. PICK call : call = [old EXCEPT !.at = "listed"]
    OBVIOUS
  <2>3. "listed" \in (WAL!Stages \cup WAL!Ends) \ {"invalidate"}
    BY DEF WAL!Stages, WAL!WalletStages
  <2>1. call \in WAL!Call /\ WALMoved(old, call, "listed", old.wallet, old.listed)
    BY <2>2, <2>3 DEF WAL!Call, WALMoved, WalletAt
  <2>4. walletCalls' = [walletCalls EXCEPT ![c] = call] /\ WALStep(c, call)
    <3>1. walletCalls' = [walletCalls EXCEPT ![c] = call]
      BY <1>1, <1>7, <2>2 DEF WAL!MoveTo, WAL!Call
    <3> QED BY <1>1, <1>4, <2>1, <2>3, <3>1, WALStepOf
  <2>a. /\ call.at = "listed" /\ call.wallet = old.wallet /\ call.listed = old.listed
        /\ call.req = old.req /\ call.known = old.known
        /\ call.beside = old.beside /\ call.next = old.next
        /\ call.found = old.found /\ call.velocity = old.velocity /\ WalletAt(call) = w
    BY <1>2, <2>1 DEF WALMoved
  <2>5. DOMAIN walletCalls' = DOMAIN walletCalls /\ (\A v : Answered(v) => Answered(v)')
    BY <2>1, <2>4, WALStepEffects
  <2>6. WALCallIsTyped(call)'
    BY <1>1, <1>4, <2>a, <2>5 DEF WALCallIsTyped, WAL!WalletStages
  <2>7. walletFaults' \in Nat /\ (walletFaults' = 0 => walletFaults = 0)
    BY <1>5, <1>7 DEF WAL!Fault
  <2>8. ASSUME walletFaults' = 0 PROVE WALCallIsFine(call)'
    <3>1. WALCallIsFine(old)
      BY <1>1, <2>7, <2>8, WALFacts
    <3> QED BY <1>3, <1>4, <2>a, <2>5, <3>1 DEF WALCallIsFine
  <2>9. WALTables'
    BY <1>3, <2>5, WALTablesStay
  <2>10. call.at # "store" /\ walletCalls[c].at # "insert" /\ walletCalls[c].at # "invalidate"
    BY <1>1, <1>3, <2>a
  <2> QED BY <1>3, <2>1, <2>4, <2>6, <2>7, <2>8, <2>9, <2>10, WALMoves
<1> QED BY <1>1, <1>2, <1>6, <1>7 DEF WAL!GetCached

LEMMA WALAskBlacklist ==
  ASSUME WALInv, NEW c \in DOMAIN walletCalls, WAL!AskBlacklist(c)
  PROVE  WALInv'
<1>1. PICK old \in WAL!Call : old = walletCalls[c] /\ WALCallIsTyped(old)
  BY WALFacts
<1>2. PICK w \in Wallets : w = WalletAt(old) /\ WAL!WalletOf(c) = w
  BY <1>1, WalletOfCall
<1>3. old.at = "listed" /\ UNCHANGED <<ledger, blacklist, cache, trades, tradeAlerts>>
  BY <1>1 DEF WAL!AskBlacklist, WAL!tables
<1>4. old.req.kind \in {"verify", "analyze"} /\ old.at \in WAL!Stages
  BY <1>1, <1>3 DEF WALCallIsTyped, WAL!WalletStages, WAL!Stages
<1>5. walletFaults \in Nat
  BY WALFacts
<1>6. ASSUME NEW stage \in {"fill", "history"}, NEW wallet \in Nat,
             wallet \in {0, 20, 30, 50, 100},
             NEW call, call = [old EXCEPT !.wallet = wallet, !.at = stage],
             walletCalls' = [walletCalls EXCEPT ![c] = call],
             walletFaults' = walletFaults \/ WAL!Fault,
             walletFaults' = 0 => \/ stage = "fill" /\ wallet = 100
                                  \/ stage = "history" /\ w \notin blacklist
      PROVE  WALInv'
  <2>1. stage \in (WAL!Stages \cup WAL!Ends) \ {"invalidate"} /\ stage # "done"
    BY <1>6 DEF WAL!Stages, WAL!WalletStages
  <2>2. call \in WAL!Call /\ WALMoved(old, call, stage, wallet, old.listed)
    BY <1>6, <2>1 DEF WAL!Call, WALMoved, WalletAt
  <2>3. WALStep(c, call)
    <3>1. walletCalls' = [walletCalls EXCEPT ![c] = call]
      BY <1>6
    <3> QED BY <1>1, <1>4, <2>1, <2>2, <3>1, WALStepOf
  <2>4. /\ call.at = stage /\ call.wallet = wallet /\ call.listed = old.listed
        /\ call.req = old.req /\ call.known = old.known
        /\ call.beside = old.beside /\ call.next = old.next
        /\ call.found = old.found /\ call.velocity = old.velocity /\ WalletAt(call) = w
    BY <1>2, <2>2 DEF WALMoved
  <2>5. /\ DOMAIN walletCalls' = DOMAIN walletCalls /\ \A v : Answered(v) => Answered(v)'
        /\ \A v : Inserted(v)' => Inserted(v) \/ walletCalls[c].at = "insert"
    BY <2>2, <2>3, WALStepEffects
  <2>6. WALCallIsTyped(call)'
    BY <1>1, <1>4, <1>6, <2>4, <2>5 DEF WALCallIsTyped, WAL!WalletStages
  <2>7. walletFaults' \in Nat /\ (walletFaults' = 0 => walletFaults = 0)
    BY <1>5, <1>6 DEF WAL!Fault
  <2>8. ASSUME walletFaults' = 0 PROVE WALCallIsFine(call)'
    <3>1. WALCallIsFine(old) /\ \A k \in DOMAIN walletCalls : WALCallIsFine(walletCalls[k])
      BY <1>1, <2>7, <2>8, WALFacts
    <3>2. \A v \in call.known : Answered(v) /\ Answered(v)'
      BY <2>4, <2>5, <3>1 DEF WALCallIsFine
    <3>3. \A v : Answered(v) => Inserted(v)
      BY DEF Answered, Inserted
    <3>4. \A v : Inserted(v) => v \in blacklist
      BY <3>1 DEF Inserted, Blacklists, WALCallIsFine
    <3>5. stage = "history" => w \notin call.known /\ ~ Inserted(w)'
      BY <1>1, <1>3, <1>6, <2>5, <2>8, <3>2, <3>3, <3>4
    <3>6. stage # "history" => call.wallet = 100
      BY <1>6, <2>4, <2>8
    <3>7. call.req.kind = "verify" /\ call.req.wallet \in call.known => call.listed
      BY <1>3, <2>4, <3>1 DEF WALCallIsFine
    <3>8. WalletAt(call)' = w
      BY <2>4 DEF WalletAt
    <3> QED BY <1>4, <1>6, <2>4, <3>2, <3>5, <3>6, <3>7, <3>8 DEF WALCallIsFine
  <2>9. WALTables'
    BY <1>3, <2>5, WALTablesStay
  <2>10. call.at # "store" /\ walletCalls[c].at # "insert" /\ walletCalls[c].at # "invalidate"
    BY <1>1, <1>3, <1>6, <2>4
  <2> QED BY <1>3, <1>6, <2>2, <2>3, <2>6, <2>7, <2>8, <2>9, <2>10, WALMoves
<1>7. ASSUME w \in blacklist, UNCHANGED walletFaults,
             walletCalls' = [walletCalls EXCEPT ![c].wallet = 100, ![c].at = "fill"]
      PROVE  WALInv'
  <2>1. PICK call : call = [old EXCEPT !.wallet = 100, !.at = "fill"]
    OBVIOUS
  <2>2. walletCalls' = [walletCalls EXCEPT ![c] = call]
    BY <1>1, <1>7, <2>1 DEF WAL!Call
  <2> QED BY <1>6, <1>7, <2>1, <2>2
<1>8. ASSUME WAL!MoveTo(c, "history"),
             \/ w \notin blacklist /\ UNCHANGED walletFaults
             \/ WAL!Fault
      PROVE  WALInv'
  <2>1. PICK call : call = [old EXCEPT !.wallet = old.wallet, !.at = "history"]
    OBVIOUS
  <2>2. walletCalls' = [walletCalls EXCEPT ![c] = call]
    BY <1>1, <1>8, <2>1 DEF WAL!Call, WAL!MoveTo
  <2>3. old.wallet \in {0, 20, 30, 50, 100} /\ old.wallet \in Nat
    BY <1>1 DEF WALCallIsTyped, WAL!Call
  <2>4. /\ walletFaults' = walletFaults \/ WAL!Fault
        /\ walletFaults' = 0 => w \notin blacklist
    BY <1>5, <1>8 DEF WAL!Fault
  <2> QED BY <1>6, <2>1, <2>2, <2>3, <2>4
<1> QED BY <1>1, <1>2, <1>7, <1>8 DEF WAL!AskBlacklist

LEMMA WALHistoryRange ==
  /\ \A w : WAL!WalletHistory(w) \in {0, 20, 30, 50} /\ WAL!WalletHistory(w) \in Nat
  /\ WAL!Points(0 < KnownAfter, 30) \in {0, 20, 30, 50} /\ WAL!Points(0 < KnownAfter, 30) \in Nat
BY DEF WAL!WalletHistory, WAL!Points

LEMMA WALAskHistory ==
  ASSUME WALInv, NEW c \in DOMAIN walletCalls, WAL!AskHistory(c)
  PROVE  WALInv'
<1>1. PICK old \in WAL!Call : old = walletCalls[c] /\ WALCallIsTyped(old)
  BY WALFacts
<1>2. PICK w \in Wallets : w = WalletAt(old) /\ WAL!WalletOf(c) = w
  BY <1>1, WalletOfCall
<1>3. old.at = "history" /\ UNCHANGED <<ledger, blacklist, cache, trades, tradeAlerts>>
  BY <1>1 DEF WAL!AskHistory, WAL!tables
<1>4. old.req.kind \in {"verify", "analyze"} /\ old.at \in WAL!Stages
  BY <1>1, <1>3 DEF WALCallIsTyped, WAL!WalletStages, WAL!Stages
<1>5. walletFaults \in Nat
  BY WALFacts
<1>6. \E wallet \in Nat :
        /\ wallet \in {0, 20, 30, 50}
        /\ walletCalls' = [walletCalls EXCEPT ![c].wallet = wallet, ![c].at = "fill"]
        /\ walletFaults' = walletFaults \/ WAL!Fault
  BY WALHistoryRange DEF WAL!AskHistory
<1>7. PICK wallet \in Nat :
        /\ wallet \in {0, 20, 30, 50}
        /\ walletCalls' = [walletCalls EXCEPT ![c].wallet = wallet, ![c].at = "fill"]
        /\ walletFaults' = walletFaults \/ WAL!Fault
  BY <1>6
<1>8. PICK call : call = [old EXCEPT !.wallet = wallet, !.at = "fill"]
  OBVIOUS
<1>9. "fill" \in (WAL!Stages \cup WAL!Ends) \ {"invalidate"}
  BY DEF WAL!Stages, WAL!WalletStages
<1>10. call \in WAL!Call /\ WALMoved(old, call, "fill", wallet, old.listed)
  BY <1>8, <1>9 DEF WAL!Call, WALMoved, WalletAt
<1>11. walletCalls' = [walletCalls EXCEPT ![c] = call]
  BY <1>1, <1>7, <1>8 DEF WAL!Call
<1>12. WALStep(c, call)
  BY <1>1, <1>4, <1>9, <1>10, <1>11, WALStepOf
<1>13. /\ call.at = "fill" /\ call.wallet = wallet /\ call.listed = old.listed
       /\ call.req = old.req /\ call.known = old.known
       /\ call.beside = old.beside /\ call.next = old.next
       /\ call.found = old.found /\ call.velocity = old.velocity /\ WalletAt(call) = w
  BY <1>2, <1>10 DEF WALMoved
<1>14. /\ DOMAIN walletCalls' = DOMAIN walletCalls /\ \A v : Answered(v) => Answered(v)'
       /\ \A v : Inserted(v)' => Inserted(v) \/ walletCalls[c].at = "insert"
       /\ \A v : Raced(v) => Raced(v)'
  BY <1>10, <1>12, WALStepEffects
<1>15. WALCallIsTyped(call)'
  BY <1>1, <1>4, <1>7, <1>13, <1>14 DEF WALCallIsTyped, WAL!WalletStages
<1>16. walletFaults' \in Nat /\ (walletFaults' = 0 => walletFaults = 0)
  BY <1>5, <1>7 DEF WAL!Fault
<1>17. ASSUME walletFaults' = 0 PROVE WALCallIsFine(call)'
  <2>1. WALCallIsFine(old)
    BY <1>1, <1>16, <1>17, WALFacts
  <2>2. \A v \in call.known : Answered(v)'
    BY <1>13, <1>14, <2>1 DEF WALCallIsFine
  <2>3. w \notin call.known /\ (Inserted(w)' => Raced(w)')
    BY <1>1, <1>2, <1>3, <1>13, <1>14, <2>1 DEF WALCallIsFine
  <2>4. call.req.kind = "verify" /\ call.req.wallet \in call.known => call.listed
    BY <1>3, <1>13, <2>1 DEF WALCallIsFine
  <2>5. WalletAt(call)' = w
    BY <1>13 DEF WalletAt
  <2> QED BY <1>4, <1>13, <2>2, <2>3, <2>4, <2>5 DEF WALCallIsFine
<1>18. WALTables'
  BY <1>3, <1>14, WALTablesStay
<1>19. call.at # "store" /\ walletCalls[c].at # "insert" /\ walletCalls[c].at # "invalidate"
  BY <1>1, <1>3, <1>13
<1> QED BY <1>3, <1>10, <1>12, <1>15, <1>16, <1>17, <1>18, <1>19, WALMoves

LEMMA WALFillCache ==
  ASSUME WALInv, NEW c \in DOMAIN walletCalls, WAL!FillCache(c)
  PROVE  WALInv'
<1>1. PICK old \in WAL!Call : old = walletCalls[c] /\ WALCallIsTyped(old)
  BY WALFacts
<1>2. PICK w \in Wallets : w = WalletAt(old) /\ WAL!WalletOf(c) = w
  BY <1>1, WalletOfCall
<1>3. old.at = "fill" /\ UNCHANGED <<ledger, blacklist, trades, tradeAlerts>>
  BY <1>1 DEF WAL!FillCache, WAL!tables
<1>4. old.req.kind \in {"verify", "analyze"} /\ old.at \in WAL!Stages
  BY <1>1, <1>3 DEF WALCallIsTyped, WAL!WalletStages, WAL!Stages
<1>5. walletFaults \in Nat
  BY WALFacts
<1>6. \/ cache' = [cache EXCEPT ![w] = old.wallet] /\ UNCHANGED walletFaults
      \/ UNCHANGED cache /\ WAL!Fault
  BY <1>1, <1>2 DEF WAL!FillCache
<1>7. PICK stage \in {"count", "exchanges"} :
        stage = WAL!AfterWallet(c) /\ stage = IF old.req.kind = "analyze" THEN "count" ELSE "exchanges"
  BY <1>1, WalletOfCall
<1>8. PICK call : call = [old EXCEPT !.at = stage]
  OBVIOUS
<1>9. stage \in (WAL!Stages \cup WAL!Ends) \ {"invalidate"} /\ stage # "done"
  BY <1>7 DEF WAL!Stages
<1>10. call \in WAL!Call /\ WALMoved(old, call, stage, old.wallet, old.listed)
  BY <1>8, <1>9 DEF WAL!Call, WALMoved, WalletAt
<1>11. walletCalls' = [walletCalls EXCEPT ![c] = call]
  BY <1>1, <1>7, <1>8 DEF WAL!Call, WAL!FillCache, WAL!MoveTo
<1>12. WALStep(c, call)
  BY <1>1, <1>4, <1>9, <1>10, <1>11, WALStepOf
<1>13. /\ call.at = stage /\ call.wallet = old.wallet /\ call.listed = old.listed
       /\ call.req = old.req /\ call.known = old.known
       /\ call.beside = old.beside /\ call.next = old.next
       /\ call.found = old.found /\ call.velocity = old.velocity /\ WalletAt(call) = w
  BY <1>2, <1>10 DEF WALMoved
<1>14. /\ DOMAIN walletCalls' = DOMAIN walletCalls /\ \A v : Answered(v) => Answered(v)'
       /\ \A v : Inserted(v)' => Inserted(v) \/ walletCalls[c].at = "insert"
       /\ \A v : Raced(v) => Raced(v)'
       /\ \A v : Answered(v)' => Answered(v) \/ walletCalls[c].at = "invalidate"
  BY <1>10, <1>12, WALStepEffects
<1>15. WALCallIsTyped(call)'
  BY <1>1, <1>4, <1>7, <1>13, <1>14 DEF WALCallIsTyped, WAL!WalletStages
<1>16. walletFaults' \in Nat /\ (walletFaults' = 0 => walletFaults = 0)
  BY <1>5, <1>6 DEF WAL!Fault
<1>17. WALTables'
  <2>1. old.wallet \in {0, 20, 30, 50, 100}
    BY <1>1 DEF WALCallIsTyped
  <2>2. /\ cache = [v \in Wallets |-> cache[v]]
        /\ \A v \in Wallets : cache[v] = NoRow \/ cache[v] \in {0, 20, 30, 50, 100}
    BY WALFacts DEF WALTables
  <2>3. /\ cache' = [v \in Wallets |-> cache'[v]]
        /\ \A v \in Wallets : cache'[v] = NoRow \/ cache'[v] \in {0, 20, 30, 50, 100}
    BY <1>6, <2>1, <2>2
  <2> QED BY <1>3, <1>14, <2>3, WALFacts DEF WALTables
<1>18. ASSUME walletFaults' = 0
       PROVE  WALCallIsFine(call)' /\ CacheIsRight' /\ BurstsAreCounted'
  <2>1. WALCallIsFine(old) /\ CacheIsRight /\ BurstsAreCounted
    BY <1>1, <1>16, <1>18, WALFacts
  <2>2. \A v \in call.known : Answered(v)'
    BY <1>13, <1>14, <2>1 DEF WALCallIsFine
  <2>3. old.wallet < 100 => w \notin call.known /\ (Inserted(w) => Raced(w))
    BY <1>2, <1>3, <1>13, <2>1 DEF WALCallIsFine
  <2>4. call.req.kind = "verify" /\ call.req.wallet \in call.known => call.listed
    BY <1>3, <1>13, <2>1 DEF WALCallIsFine
  <2>5. WalletAt(call)' = w
    BY <1>13 DEF WalletAt
  <2>6. WALCallIsFine(call)'
    BY <1>4, <1>7, <1>13, <2>2, <2>3, <2>4, <2>5 DEF WALCallIsFine
  <2>7. BurstsAreCounted'
    BY <1>3, <1>7, <1>10, <1>12, <1>13, <2>1, WALWaitingFewer
  <2>8. cache' = [cache EXCEPT ![w] = old.wallet]
    BY <1>5, <1>6, <1>18 DEF WAL!Fault
  <2>9. CacheIsRight'
    <3> SUFFICES ASSUME NEW v \in Wallets, cache'[v] # NoRow, cache'[v] < 100, Answered(v)'
        PROVE  Raced(v)'
      BY DEF CacheIsRight
    <3>1. Answered(v)
      BY <1>1, <1>3, <1>14
    <3>2. CASE v = w
      <4>1. cache'[v] = old.wallet
        BY <2>8, <3>2, WALFacts DEF WALTables
      <4>2. Inserted(v)
        BY <3>1 DEF Answered, Inserted
      <4> QED BY <1>14, <2>3, <3>2, <4>1, <4>2
    <3>3. CASE v # w
      <4>1. cache'[v] = cache[v]
        BY <2>8, <3>3
      <4> QED BY <1>14, <2>1, <3>1, <4>1 DEF CacheIsRight
    <3> QED BY <3>2, <3>3
  <2> QED BY <2>6, <2>7, <2>9
<1>19. ASSUME NEW k \in DOMAIN walletCalls, k # c, Inserted(WalletAt(walletCalls[k]))'
       PROVE  Inserted(WalletAt(walletCalls[k]))
  <2>1. PICK v : v = WalletAt(walletCalls[k])
    OBVIOUS
  <2>2. Inserted(WalletAt(walletCalls[k]))' = Inserted(v)'
    <3>1. walletCalls'[k] = walletCalls[k]
      BY <1>10, <1>12, <1>19, WALStepEffects
    <3> QED BY <2>1, <3>1 DEF WalletAt, Inserted, Blacklists
  <2> QED BY <1>1, <1>3, <1>14, <1>19, <2>1, <2>2
<1> QED BY <1>3, <1>10, <1>12, <1>15, <1>16, <1>17, <1>18, <1>19, WALCallGoesOn

LEMMA WALRisks ==
  ASSUME NEW txn, NEW wallet \in Nat, NEW lost
  PROVE  /\ WAL!TransactionRisk(txn, wallet, lost) \in Nat
         /\ WAL!TransactionRisk(txn, wallet, lost) >= wallet
         /\ WAL!checkTransactionVelocity(txn.user, lost) \in {0, 25, 30, 55}
         /\ WAL!checkTransactionVelocity(txn.user, "none") < 30
              => ~ WAL!Busy(WAL!OfHour(txn.user), BusyHour)
<1>1. WAL!checkTransactionVelocity(txn.user, lost) \in {0, 25, 30, 55}
  BY DEF WAL!checkTransactionVelocity, WAL!Points
<1>2. WAL!checkTransactionVelocity(txn.user, "none") < 30
        => ~ WAL!Busy(WAL!OfHour(txn.user), BusyHour)
  BY DEF WAL!checkTransactionVelocity, WAL!Points
<1>3. WAL!analyzeP2PRisk(txn.user, lost) \in {0, 25, 30, 55}
  BY DEF WAL!analyzeP2PRisk, WAL!Points
<1>4. PICK velocity \in Nat, p2p \in Nat :
        /\ velocity = WAL!checkTransactionVelocity(txn.user, lost)
        /\ p2p = WAL!analyzeP2PRisk(txn.user, lost)
  BY <1>1, <1>3
<1>a. PICK a \in {0, 20} : a = WAL!Points(txn.amount > 10, 20)
  BY DEF WAL!Points
<1>b. PICK b \in {0, 30} : b = WAL!Points(~ WAL!isLegitimateExchange(txn.platform), 30)
  BY DEF WAL!Points
<1>c. PICK p \in {0, p2p} : p = WAL!Points(txn.platform \in {"p2p", "p2p exchange"}, p2p)
  BY DEF WAL!Points
<1>d. PICK d \in {0, 40} : d = WAL!Points(txn.platform = "investment", 40)
  BY DEF WAL!Points
<1>6. a \in Nat /\ b \in Nat /\ p \in Nat /\ d \in Nat
  OBVIOUS
<1>7. WAL!TransactionRisk(txn, wallet, lost) = wallet + a + b + p + velocity + d
  BY <1>4, <1>a, <1>b, <1>c, <1>d DEF WAL!TransactionRisk
<1>8. wallet + a + b + p + velocity + d \in Nat /\ wallet + a + b + p + velocity + d >= wallet
  BY <1>6
<1> QED BY <1>1, <1>2, <1>7, <1>8

(* What is stored of the hour without points is less than what is stored.  *)
LEMMA UnnoticedAreOfHour ==
  ASSUME WALInv, NEW user \in Users
  PROVE  /\ IsFiniteSet(Unnoticed(user)) /\ Cardinality(Unnoticed(user)) \in Nat
         /\ ~ WAL!Busy(WAL!OfHour(user), BusyHour) => Cardinality(Unnoticed(user)) <= BusyHour
<1>1. PICK rows : rows = {i \in DOMAIN ledger :
                            ledger[i].txn.user = user /\ ledger[i].txn.age = "hour"}
  OBVIOUS
<1>2. PICK few : few = Unnoticed(user)
  OBVIOUS
<1>3. few \subseteq rows /\ rows \subseteq DOMAIN ledger
  BY <1>1, <1>2 DEF Unnoticed, OfHour
<1>4. IsFiniteSet(rows)
  <2>1. ledger \in Seq(WALRow)
    BY WALFacts DEF WALTables
  <2> QED BY <1>3, <2>1, Domain, FS_Subset
<1>5. /\ IsFiniteSet(few) /\ Cardinality(few) <= Cardinality(rows)
      /\ Cardinality(few) \in Nat /\ Cardinality(rows) \in Nat
  BY <1>3, <1>4, FS_Subset, FS_CardinalityType
<1>6. WAL!OfHour(user) = Cardinality(rows)
  BY <1>1 DEF WAL!OfHour, WAL!CountOf, WAL!Cardinality, Cardinality
<1>7. ~ WAL!Busy(WAL!OfHour(user), BusyHour) => Cardinality(rows) <= BusyHour
  BY <1>5, <1>6, WALConstants DEF WAL!Busy
<1>8. ~ WAL!Busy(WAL!OfHour(user), BusyHour) => Cardinality(few) <= BusyHour
  BY <1>5, <1>7, WALConstants
<1> QED BY <1>2, <1>5, <1>8

LEMMA WALRiskAnalysis ==
  ASSUME WALInv, NEW c \in DOMAIN walletCalls, WAL!performRiskAnalysis(c)
  PROVE  WALInv'
<1>1. PICK old \in WAL!Call : old = walletCalls[c] /\ WALCallIsTyped(old)
  BY WALFacts
<1>2. old.at = "count" /\ UNCHANGED <<ledger, blacklist, cache, trades, tradeAlerts>>
  BY <1>1 DEF WAL!performRiskAnalysis, WAL!tables
<1>3. old.req.kind = "analyze" /\ old.at \in WAL!Stages
  BY <1>1, <1>2 DEF WALCallIsTyped, WAL!Stages
<1>4. PICK txn \in WAL!Txn :
        txn = WAL!TxnOf(c) /\ txn = old.req.txns[old.next] /\ WalletAt(old) = txn.wallet
  BY <1>1, <1>3, WalletOfCall
<1>5. walletFaults \in Nat /\ old.wallet \in Nat
  BY WALFacts DEF WAL!Call
<1>6. PICK lost :
        /\ walletCalls' = [walletCalls EXCEPT
                             ![c].score = WAL!TransactionRisk(txn, old.wallet, lost),
                             ![c].velocity = WAL!checkTransactionVelocity(txn.user, lost),
                             ![c].at = "store"]
        /\ (lost = "none" /\ walletFaults' = walletFaults) \/ WAL!Fault
  BY <1>1, <1>4 DEF WAL!performRiskAnalysis
<1>a. PICK score, velocity :
        /\ score = WAL!TransactionRisk(txn, old.wallet, lost)
        /\ velocity = WAL!checkTransactionVelocity(txn.user, lost)
  OBVIOUS
<1>7. /\ score \in Nat /\ velocity \in {0, 25, 30, 55} /\ score >= old.wallet
      /\ walletCalls' = [walletCalls EXCEPT ![c].score = score, ![c].velocity = velocity,
                                            ![c].at = "store"]
  BY <1>5, <1>6, <1>a, WALRisks
<1>8. PICK call : call = [old EXCEPT !.score = score, !.velocity = velocity, !.at = "store"]
  OBVIOUS
<1>9. call \in WAL!Call
  <2>1. "store" \in WAL!Stages /\ velocity \in Nat
    BY <1>7 DEF WAL!Stages
  <2> QED BY <1>7, <1>8, <2>1 DEF WAL!Call
<1>10. walletCalls' = [walletCalls EXCEPT ![c] = call]
  BY <1>1, <1>7, <1>8 DEF WAL!Call
<1>11. /\ call.at = "store" /\ call.wallet = old.wallet /\ call.listed = old.listed
       /\ call.req = old.req /\ call.known = old.known /\ call.beside = old.beside
       /\ call.next = old.next /\ call.found = old.found
       /\ call.score = score /\ call.velocity = velocity
  BY <1>8 DEF WAL!Call
<1>12. WALStep(c, call)
  BY <1>1, <1>3, <1>10, <1>11 DEF WALStep
<1>13. /\ DOMAIN walletCalls' = DOMAIN walletCalls /\ walletCalls'[c] = call
       /\ \A k \in DOMAIN walletCalls : k # c => walletCalls'[k] = walletCalls[k]
       /\ \A v : Answered(v) => Answered(v)'
       /\ \A v : Inserted(v)' => Inserted(v) \/ walletCalls[c].at = "insert"
       /\ \A v : Raced(v) => Raced(v)'
       /\ \A v : Answered(v)' => Answered(v) \/ walletCalls[c].at = "invalidate"
  BY <1>9, <1>12, WALStepEffects
<1>14. WALCallIsTyped(call)'
  BY <1>1, <1>3, <1>7, <1>11, <1>13 DEF WALCallIsTyped, WAL!WalletStages
<1>15. walletFaults' \in Nat /\ (walletFaults' = 0 => walletFaults = 0 /\ lost = "none")
  BY <1>5, <1>6 DEF WAL!Fault
<1>16. WalletAt(call) = WalletAt(old) /\ WalletAt(call)' = WalletAt(call)
  BY <1>11 DEF WalletAt
<1>17. ASSUME walletFaults' = 0 PROVE WALCallIsFine(call)'
  <2>1. WALCallIsFine(old)
    BY <1>1, <1>15, <1>17, WALFacts
  <2>2. \A v \in call.known : Answered(v)'
    BY <1>11, <1>13, <2>1 DEF WALCallIsFine
  <2>3. call.wallet < 100 /\ WalletAt(call) \in call.known => Raced(WalletAt(call))'
    BY <1>2, <1>3, <1>11, <1>13, <1>16, <2>1 DEF WALCallIsFine
  <2>4. call.score >= call.wallet
    BY <1>7, <1>11
  <2> QED BY <1>3, <1>11, <1>16, <2>2, <2>3, <2>4 DEF WALCallIsFine
<1>18. ASSUME walletFaults' = 0 PROVE CacheIsRight'
  BY <1>1, <1>2, <1>13, <1>15, <1>18, WALFacts DEF CacheIsRight
<1>19. ASSUME walletFaults' = 0, NEW user \in Users
       PROVE  (Cardinality(Unnoticed(user)) + Cardinality(Waiting(user)) <= BusyHour + Concurrency)'
  <2>1. PICK few, more : few = Waiting(user)' /\ more = Waiting(user)
    OBVIOUS
  <2>2. PICK rows : rows = Unnoticed(user) /\ rows = Unnoticed(user)'
    BY <1>2 DEF Unnoticed
  <2>3. few \subseteq DOMAIN walletCalls /\ more \subseteq DOMAIN walletCalls
    BY <1>13, <2>1 DEF Waiting
  <2>4. /\ IsFiniteSet(few) /\ Cardinality(few) \in Nat
        /\ IsFiniteSet(more) /\ Cardinality(more) \in Nat
    BY <2>3, WALFacts, Domain, FS_Subset, FS_CardinalityType
  <2>5. Cardinality(rows) \in Nat
    BY <2>2, UnnoticedAreOfHour
  <2>6. Cardinality(rows) + Cardinality(few) <= BusyHour + Concurrency
    <3>1. CASE IsWaiting(call, user)
      <4>1. txn.user = user /\ velocity < 30
        BY <1>4, <1>11, <3>1 DEF IsWaiting, OfHour
      <4>2. ~ WAL!Busy(WAL!OfHour(user), BusyHour)
        BY <1>5, <1>a, <1>15, <1>19, <4>1, WALRisks
      <4>3. Cardinality(rows) <= BusyHour
        BY <2>2, <4>2, UnnoticedAreOfHour
      <4>4. few \subseteq WAL!InFlight
        <5>1. ASSUME NEW k \in few PROVE walletCalls[k].at \in WAL!Stages
          <6>1. CASE k = c
            BY <1>1, <1>3, <6>1
          <6>2. CASE k # c
            BY <1>13, <2>1, <2>3, <6>2 DEF Waiting, IsWaiting, WAL!Stages
          <6> QED BY <6>1, <6>2
        <5> QED BY <2>3, <5>1 DEF WAL!InFlight
      <4>5. PICK flying : flying = WAL!InFlight /\ flying \subseteq DOMAIN walletCalls
        BY DEF WAL!InFlight
      <4>6. IsFiniteSet(flying) /\ Cardinality(flying) \in Nat
        BY <4>5, WALFacts, Domain, FS_Subset, FS_CardinalityType
      <4>7. Cardinality(few) <= Cardinality(flying) /\ Cardinality(flying) <= Concurrency
        BY <4>4, <4>5, <4>6, WALFacts, FS_Subset
      <4> QED BY <2>4, <2>5, <4>3, <4>6, <4>7, WALConstants
    <3>2. CASE ~ IsWaiting(call, user)
      <4>1. few \subseteq more
        BY <1>13, <2>1, <3>2 DEF Waiting, IsWaiting
      <4>2. Cardinality(few) <= Cardinality(more)
        BY <2>4, <4>1, FS_Subset
      <4>3. Cardinality(rows) + Cardinality(more) <= BusyHour + Concurrency
        BY <1>15, <1>19, <2>1, <2>2, WALFacts DEF BurstsAreCounted
      <4> QED BY <2>4, <2>5, <4>2, <4>3, WALConstants
    <3> QED BY <3>1, <3>2
  <2> QED BY <2>1, <2>2, <2>6 DEF Cardinality
<1>20. walletFaults' = 0 => BurstsAreCounted'
  BY <1>19 DEF BurstsAreCounted
<1>21. ASSUME NEW k \in DOMAIN walletCalls, k # c, Inserted(WalletAt(walletCalls[k]))'
       PROVE  Inserted(WalletAt(walletCalls[k]))
  <2>1. PICK v : v = WalletAt(walletCalls[k])
    OBVIOUS
  <2>2. Inserted(WalletAt(walletCalls[k]))' = Inserted(v)'
    BY <1>13, <1>21, <2>1 DEF WalletAt, Inserted, Blacklists
  <2> QED BY <1>1, <1>2, <1>13, <1>21, <2>1, <2>2
<1>22. WALTables'
  BY <1>2, <1>13, WALTablesStay
<1> QED BY <1>2, <1>9, <1>12, <1>14, <1>15, <1>17, <1>18, <1>20, <1>21, <1>22, WALCallGoesOn

LEMMA WALStoreTransaction ==
  ASSUME WALInv, NEW c \in DOMAIN walletCalls, WAL!storeTransactionAnalysis(c)
  PROVE  WALInv'
<1>1. PICK old \in WAL!Call : old = walletCalls[c] /\ WALCallIsTyped(old)
  BY WALFacts
<1>2. old.at = "store" /\ UNCHANGED <<blacklist, trades, tradeAlerts, cache>>
  BY <1>1 DEF WAL!storeTransactionAnalysis
<1>3. old.req.kind = "analyze" /\ old.at \in WAL!Stages
  BY <1>1, <1>2 DEF WALCallIsTyped, WAL!Stages
<1>4. PICK txn \in WAL!Txn :
        txn = WAL!TxnOf(c) /\ txn = old.req.txns[old.next] /\ WalletAt(old) = txn.wallet
  BY <1>1, <1>3, WalletOfCall
<1>5. walletFaults \in Nat /\ old.velocity \in {0, 25, 30, 55}
  BY <1>1, WALFacts DEF WALCallIsTyped
<1>6. PICK row : row = [txn |-> txn, velocity |-> old.velocity]
  OBVIOUS
<1>7. \/ ledger' = Append(ledger, row) /\ UNCHANGED walletFaults
      \/ UNCHANGED ledger /\ WAL!Fault
  BY <1>1, <1>4, <1>6 DEF WAL!storeTransactionAnalysis
<1>8. row \in WALRow /\ row.txn = txn /\ row.velocity = old.velocity
  BY <1>5, <1>6 DEF WALRow
<1>9. PICK stage, next :
        /\ stage = IF old.next = Len(old.req.txns) THEN "done" ELSE "cached"
        /\ next = IF old.next = Len(old.req.txns) THEN old.next ELSE old.next + 1
  OBVIOUS
<1>10. PICK call : call = [old EXCEPT !.at = stage, !.next = next]
  OBVIOUS
<1>11. /\ next \in Nat /\ next \in DOMAIN old.req.txns /\ stage \in WAL!Stages \cup WAL!Ends
       /\ stage \in {"done", "cached"} /\ (stage = "done" => next = old.next)
  <2>1. PICK txns \in Seq(WAL!Txn) : txns = old.req.txns
    BY DEF WAL!Call, WAL!Request
  <2>2. DOMAIN txns = 1..Len(txns) /\ Len(txns) \in Nat /\ old.next \in DOMAIN txns
    BY <1>1, <1>3, <2>1, Domain DEF WALCallIsTyped
  <2>3. next \in Nat /\ next \in DOMAIN txns
    BY <1>9, <2>1, <2>2
  <2> QED BY <1>9, <2>1, <2>3 DEF WAL!Stages, WAL!Ends, WAL!WalletStages
<1>12. call \in WAL!Call
  BY <1>10, <1>11 DEF WAL!Call
<1>13. walletCalls' = [walletCalls EXCEPT ![c] = call]
  BY <1>1, <1>9, <1>10 DEF WAL!Call, WAL!storeTransactionAnalysis
<1>14. /\ call.at = stage /\ call.wallet = old.wallet /\ call.listed = old.listed
       /\ call.req = old.req /\ call.known = old.known /\ call.beside = old.beside
       /\ call.next = next /\ call.found = old.found
       /\ call.score = old.score /\ call.velocity = old.velocity
  BY <1>10 DEF WAL!Call
<1>15. WALStep(c, call)
  BY <1>1, <1>3, <1>11, <1>13, <1>14 DEF WALStep
<1>16. /\ DOMAIN walletCalls' = DOMAIN walletCalls /\ walletCalls'[c] = call
       /\ \A k \in DOMAIN walletCalls : k # c => walletCalls'[k] = walletCalls[k]
       /\ \A v : Answered(v) => Answered(v)'
       /\ \A v : Inserted(v)' => Inserted(v) \/ walletCalls[c].at = "insert"
       /\ \A v : Raced(v) => Raced(v)'
       /\ \A v : Answered(v)' => Answered(v) \/ walletCalls[c].at = "invalidate"
  BY <1>12, <1>15, WALStepEffects
<1>17. WALCallIsTyped(call)'
  BY <1>1, <1>3, <1>11, <1>14, <1>16 DEF WALCallIsTyped, WAL!WalletStages
<1>18. walletFaults' \in Nat
       /\ (walletFaults' = 0 => walletFaults = 0 /\ ledger' = Append(ledger, row))
  BY <1>5, <1>7 DEF WAL!Fault
<1>19. stage = "done" => WalletAt(call)' = WalletAt(old)
  BY <1>11, <1>14 DEF WalletAt
<1>20. ASSUME walletFaults' = 0 PROVE WALCallIsFine(call)'
  <2>1. WALCallIsFine(old)
    BY <1>1, <1>18, <1>20, WALFacts
  <2>2. \A v \in call.known : Answered(v)'
    BY <1>14, <1>16, <2>1 DEF WALCallIsFine
  <2>3. call.wallet < 100 /\ WalletAt(old) \in call.known => Raced(WalletAt(old))'
    BY <1>2, <1>3, <1>14, <1>16, <2>1 DEF WALCallIsFine
  <2>4. call.score >= call.wallet
    BY <1>2, <1>3, <1>14, <2>1 DEF WALCallIsFine
  <2> QED BY <1>3, <1>11, <1>14, <1>19, <2>2, <2>3, <2>4 DEF WALCallIsFine
<1>21. ASSUME walletFaults' = 0 PROVE CacheIsRight'
  BY <1>1, <1>2, <1>16, <1>18, <1>21, WALFacts DEF CacheIsRight
<1>22. ledger \in Seq(WALRow)
  BY WALFacts DEF WALTables
<1>23. ASSUME walletFaults' = 0, NEW user \in Users
       PROVE  (Cardinality(Unnoticed(user)) + Cardinality(Waiting(user)) <= BusyHour + Concurrency)'
  <2>1. PICK few, more : few = Waiting(user)' /\ more = Waiting(user)
    OBVIOUS
  <2>2. PICK rows, now : rows = Unnoticed(user) /\ now = Unnoticed(user)'
    OBVIOUS
  <2>3. few \subseteq more /\ more \subseteq DOMAIN walletCalls /\ c \notin few
    BY <1>11, <1>14, <1>16, <2>1 DEF Waiting, IsWaiting
  <2>4. /\ IsFiniteSet(few) /\ Cardinality(few) \in Nat
        /\ IsFiniteSet(more) /\ Cardinality(more) \in Nat
    BY <2>3, WALFacts, Domain, FS_Subset, FS_CardinalityType
  <2>5. IsFiniteSet(rows) /\ Cardinality(rows) \in Nat
    BY <2>2, UnnoticedAreOfHour
  <2>6. /\ DOMAIN ledger' = DOMAIN ledger \cup {Len(ledger) + 1} /\ ledger'[Len(ledger) + 1] = row
        /\ Len(ledger) + 1 \notin DOMAIN ledger
        /\ \A i \in DOMAIN ledger : ledger'[i] = ledger[i]
    BY <1>8, <1>18, <1>22, <1>23, Appended
  <2>7. Cardinality(rows) + Cardinality(more) <= BusyHour + Concurrency
    BY <1>18, <1>23, <2>1, <2>2, WALFacts DEF BurstsAreCounted
  <2>8. Cardinality(now) + Cardinality(few) <= BusyHour + Concurrency
    <3>1. CASE OfHour(txn, user) /\ old.velocity < 30
      <4>1. c \in more
        BY <1>1, <1>2, <1>4, <2>1, <3>1 DEF Waiting, IsWaiting
      <4>2. Cardinality(few) <= Cardinality(more) - 1
        <5>1. IsFiniteSet(more \ {c}) /\ Cardinality(more \ {c}) = Cardinality(more) - 1
          BY <2>4, <4>1, FS_RemoveElement
        <5>2. few \subseteq more \ {c}
          BY <2>3
        <5> QED BY <5>1, <5>2, FS_Subset
      <4>3. now \subseteq rows \cup {Len(ledger) + 1}
        BY <2>2, <2>6 DEF Unnoticed
      <4>4. /\ IsFiniteSet(rows \cup {Len(ledger) + 1})
            /\ Cardinality(rows \cup {Len(ledger) + 1}) <= Cardinality(rows) + 1
        <5>1. PICK last : last = Len(ledger) + 1
          OBVIOUS
        <5>2. IsFiniteSet(rows \cup {last})
              /\ Cardinality(rows \cup {last}) \in {Cardinality(rows), Cardinality(rows) + 1}
          BY <2>5, FS_AddElement
        <5> QED BY <2>5, <5>1, <5>2
      <4>5. Cardinality(now) \in Nat /\ Cardinality(now) <= Cardinality(rows) + 1
        <5>1. IsFiniteSet(now) /\ Cardinality(now) <= Cardinality(rows \cup {Len(ledger) + 1})
          BY <4>3, <4>4, FS_Subset
        <5>2. Cardinality(now) \in Nat /\ Cardinality(rows \cup {Len(ledger) + 1}) \in Nat
          BY <4>4, <5>1, FS_CardinalityType
        <5> QED BY <2>5, <4>4, <5>1, <5>2
      <4> QED BY <2>4, <2>5, <2>7, <4>2, <4>5, WALConstants
    <3>2. CASE ~ (OfHour(txn, user) /\ old.velocity < 30)
      <4>1. now \subseteq rows
        BY <1>8, <2>2, <2>6, <3>2 DEF Unnoticed
      <4>2. Cardinality(few) <= Cardinality(more)
        BY <2>3, <2>4, FS_Subset
      <4>3. IsFiniteSet(now) /\ Cardinality(now) <= Cardinality(rows)
        BY <2>5, <4>1, FS_Subset
      <4>4. Cardinality(now) \in Nat
        BY <4>3, FS_CardinalityType
      <4> QED BY <2>4, <2>5, <2>7, <4>2, <4>3, <4>4, WALConstants
    <3> QED BY <3>1, <3>2
  <2> QED BY <2>1, <2>2, <2>8 DEF Cardinality
<1>24. walletFaults' = 0 => BurstsAreCounted'
  BY <1>23 DEF BurstsAreCounted
<1>25. ASSUME NEW k \in DOMAIN walletCalls, k # c, Inserted(WalletAt(walletCalls[k]))'
       PROVE  Inserted(WalletAt(walletCalls[k]))
  <2>1. PICK v : v = WalletAt(walletCalls[k])
    OBVIOUS
  <2>2. Inserted(WalletAt(walletCalls[k]))' = Inserted(v)'
    BY <1>16, <1>25, <2>1 DEF WalletAt, Inserted, Blacklists
  <2> QED BY <1>1, <1>2, <1>16, <1>25, <2>1, <2>2
<1>26. WALTables'
  <2>1. ledger' \in Seq(WALRow)
    <3>1. Append(ledger, row) \in Seq(WALRow)
      BY <1>8, <1>22, Appended
    <3> QED BY <1>7, <1>22, <3>1
  <2> QED BY <1>2, <1>16, <2>1, WALFacts DEF WALTables
<1>27. /\ walletFaults' = 0 => walletFaults = 0
       /\ blacklist \subseteq blacklist'
  BY <1>2, <1>18
<1> QED BY <1>12, <1>15, <1>17, <1>18, <1>20, <1>21, <1>24, <1>25, <1>26, <1>27, WALCallGoesOn

LEMMA WALVerifyBlacklist ==
  ASSUME WALInv, NEW c \in DOMAIN walletCalls, WAL!VerifyBlacklist(c)
  PROVE  WALInv'
<1>1. PICK old \in WAL!Call : old = walletCalls[c] /\ WALCallIsTyped(old)
  BY WALFacts
<1>2. PICK w \in Wallets : w = WalletAt(old) /\ WAL!WalletOf(c) = w
  BY <1>1, WalletOfCall
<1>3. old.at = "verify" /\ UNCHANGED <<ledger, blacklist, cache, trades, tradeAlerts>>
  BY <1>1 DEF WAL!VerifyBlacklist, WAL!tables
<1>4. /\ old.req.kind = "verify" /\ old.at \in WAL!Stages /\ w = old.req.wallet
      /\ "cached" \in (WAL!Stages \cup WAL!Ends) \ {"invalidate"}
  BY <1>1, <1>2, <1>3 DEF WALCallIsTyped, WAL!WalletStages, WAL!Stages, WalletAt
<1>5. walletFaults \in Nat
  BY WALFacts
<1>6. ASSUME NEW listed \in BOOLEAN, NEW call, call = [old EXCEPT !.listed = listed, !.at = "cached"],
             walletCalls' = [walletCalls EXCEPT ![c] = call],
             walletFaults' = walletFaults \/ WAL!Fault,
             walletFaults' = 0 => (w \in blacklist => listed)
      PROVE  WALInv'
  <2>1. call \in WAL!Call /\ WALMoved(old, call, "cached", old.wallet, listed)
    BY <1>4, <1>6 DEF WAL!Call, WALMoved, WalletAt
  <2>2. WALStep(c, call)
    <3>1. walletCalls' = [walletCalls EXCEPT ![c] = call]
      BY <1>6
    <3> QED BY <1>1, <1>4, <2>1, <3>1, WALStepOf
  <2>3. /\ call.at = "cached" /\ call.wallet = old.wallet /\ call.listed = listed
        /\ call.req = old.req /\ call.known = old.known
        /\ call.beside = old.beside /\ call.next = old.next
        /\ call.found = old.found /\ call.velocity = old.velocity
    BY <2>1 DEF WALMoved
  <2>4. DOMAIN walletCalls' = DOMAIN walletCalls /\ (\A v : Answered(v) => Answered(v)')
    BY <2>1, <2>2, WALStepEffects
  <2>5. WALCallIsTyped(call)'
    BY <1>1, <1>4, <2>3, <2>4 DEF WALCallIsTyped, WAL!WalletStages
  <2>6. walletFaults' \in Nat /\ (walletFaults' = 0 => walletFaults = 0)
    BY <1>5, <1>6 DEF WAL!Fault
  <2>7. ASSUME walletFaults' = 0 PROVE WALCallIsFine(call)'
    <3>1. WALCallIsFine(old) /\ \A k \in DOMAIN walletCalls : WALCallIsFine(walletCalls[k])
      BY <1>1, <2>6, <2>7, WALFacts
    <3>2. \A v \in call.known : Answered(v) /\ Answered(v)'
      BY <2>3, <2>4, <3>1 DEF WALCallIsFine
    <3>3. \A v : Answered(v) => v \in blacklist
      BY <3>1 DEF Answered, Blacklists, WALCallIsFine
    <3>4. call.req.wallet \in call.known => call.listed
      BY <1>4, <1>6, <2>3, <2>7, <3>2, <3>3
    <3> QED BY <1>4, <2>3, <3>2, <3>4 DEF WALCallIsFine
  <2>8. WALTables'
    BY <1>3, <2>4, WALTablesStay
  <2>9. call.at # "store" /\ walletCalls[c].at # "insert" /\ walletCalls[c].at # "invalidate"
    BY <1>1, <1>3, <2>3
  <2> QED BY <1>3, <2>1, <2>2, <2>5, <2>6, <2>7, <2>8, <2>9, WALMoves
<1>7. ASSUME walletCalls' = [walletCalls EXCEPT ![c].listed = w \in blacklist, ![c].at = "cached"],
             UNCHANGED walletFaults
      PROVE  WALInv'
  <2>1. (w \in blacklist) \in BOOLEAN
    OBVIOUS
  <2>2. PICK listed \in BOOLEAN : listed = (w \in blacklist)
    BY <2>1
  <2>3. PICK call : call = [old EXCEPT !.listed = listed, !.at = "cached"]
    OBVIOUS
  <2>4. walletCalls' = [walletCalls EXCEPT ![c] = call]
    BY <1>1, <1>7, <2>2, <2>3 DEF WAL!Call
  <2>5. walletFaults' = 0 => (w \in blacklist => listed)
    BY <2>2
  <2> QED BY <1>6, <1>7, <2>3, <2>4, <2>5
<1>8. ASSUME WAL!Fault, WAL!MoveTo(c, "cached")
      PROVE  WALInv'
  <2>1. old.listed \in BOOLEAN
    BY DEF WAL!Call
  <2>2. PICK call : call = [old EXCEPT !.listed = old.listed, !.at = "cached"]
    OBVIOUS
  <2>3. walletCalls' = [walletCalls EXCEPT ![c] = call]
    BY <1>1, <1>8, <2>2 DEF WAL!Call, WAL!MoveTo
  <2>4. walletFaults' # 0
    BY <1>5, <1>8 DEF WAL!Fault
  <2> QED BY <1>6, <1>8, <2>1, <2>2, <2>3, <2>4
<1> QED BY <1>1, <1>2, <1>7, <1>8 DEF WAL!VerifyBlacklist

(* Steps after which nothing is claimed of the call but its types: errors. *)
LEMMA WALFails ==
  ASSUME WALInv, NEW c \in DOMAIN walletCalls, walletCalls[c].at \in WAL!Stages,
         WAL!MoveTo(c, "error"), WAL!Fault,
         UNCHANGED <<ledger, blacklist, cache, trades, tradeAlerts>>
  PROVE  WALInv'
<1>1. PICK old \in WAL!Call : old = walletCalls[c] /\ WALCallIsTyped(old)
  BY WALFacts
<1>2. walletFaults' \in Nat /\ walletFaults' # 0
  BY WALFacts DEF WAL!Fault
<1>3. PICK call : call = [old EXCEPT !.at = "error"]
  OBVIOUS
<1>4. "error" \in (WAL!Stages \cup WAL!Ends) \ {"invalidate"}
  BY DEF WAL!Ends
<1>5. call \in WAL!Call /\ WALMoved(old, call, "error", old.wallet, old.listed)
  BY <1>3, <1>4 DEF WAL!Call, WALMoved, WalletAt
<1>6. walletCalls' = [walletCalls EXCEPT ![c] = call]
  BY <1>1, <1>3 DEF WAL!Call, WAL!MoveTo
<1>7. WALStep(c, call)
  BY <1>1, <1>4, <1>5, <1>6, WALStepOf
<1>8. /\ call.at = "error" /\ call.wallet = old.wallet
      /\ call.req = old.req /\ call.beside = old.beside /\ call.next = old.next
      /\ call.velocity = old.velocity
  BY <1>5 DEF WALMoved
<1>9. DOMAIN walletCalls' = DOMAIN walletCalls
  BY <1>5, <1>7, WALStepEffects
<1>10. WALCallIsTyped(call)'
  BY <1>1, <1>8, <1>9 DEF WALCallIsTyped, WAL!WalletStages
<1>11. WALTables'
  BY <1>9, WALTablesStay
<1>12. call.at # "store"
  BY <1>8
<1> QED BY <1>2, <1>5, <1>7, <1>10, <1>11, <1>12, WALMoves

LEMMA WALVerifyExchanges ==
  ASSUME WALInv, NEW c \in DOMAIN walletCalls, WAL!VerifyExchanges(c)
  PROVE  WALInv'
<1>1. PICK old \in WAL!Call : old = walletCalls[c] /\ WALCallIsTyped(old)
  BY WALFacts
<1>2. old.at = "exchanges" /\ UNCHANGED <<ledger, blacklist, cache, trades, tradeAlerts>>
  BY <1>1 DEF WAL!VerifyExchanges, WAL!tables
<1>3. old.req.kind = "verify" /\ old.at \in WAL!Stages
  BY <1>1, <1>2 DEF WALCallIsTyped, WAL!Stages
<1>4. ASSUME WAL!MoveTo(c, "done"), UNCHANGED walletFaults
      PROVE  WALInv'
  <2>1. PICK call : call = [old EXCEPT !.at = "done"]
    OBVIOUS
  <2>2. "done" \in (WAL!Stages \cup WAL!Ends) \ {"invalidate"}
    BY DEF WAL!Ends
  <2>3. call \in WAL!Call /\ WALMoved(old, call, "done", old.wallet, old.listed)
    BY <2>1, <2>2 DEF WAL!Call, WALMoved, WalletAt
  <2>4. walletCalls' = [walletCalls EXCEPT ![c] = call]
    BY <1>1, <1>4, <2>1 DEF WAL!Call, WAL!MoveTo
  <2>5. WALStep(c, call)
    BY <1>1, <1>3, <2>2, <2>3, <2>4, WALStepOf
  <2>6. /\ call.at = "done" /\ call.wallet = old.wallet /\ call.listed = old.listed
        /\ call.req = old.req /\ call.known = old.known
        /\ call.beside = old.beside /\ call.next = old.next
        /\ call.found = old.found /\ call.velocity = old.velocity /\ WalletAt(call) = WalletAt(old)
    BY <2>3 DEF WALMoved
  <2>7. DOMAIN walletCalls' = DOMAIN walletCalls
        /\ (\A v : Answered(v) => Answered(v)') /\ \A v : Raced(v) => Raced(v)'
    BY <2>3, <2>5, WALStepEffects
  <2>8. WALCallIsTyped(call)'
    BY <1>1, <1>3, <2>6, <2>7 DEF WALCallIsTyped, WAL!WalletStages
  <2>9. walletFaults' \in Nat /\ (walletFaults' = 0 => walletFaults = 0)
    BY <1>4, WALFacts
  <2>10. ASSUME walletFaults' = 0 PROVE WALCallIsFine(call)'
    <3>1. WALCallIsFine(old)
      BY <1>1, <2>9, <2>10, WALFacts
    <3>2. \A v \in call.known : Answered(v)'
      BY <2>6, <2>7, <3>1 DEF WALCallIsFine
    <3>3. call.req.wallet \in call.known => call.listed
      BY <1>2, <1>3, <2>6, <3>1 DEF WALCallIsFine
    <3>4. call.wallet < 100 /\ WalletAt(old) \in call.known => Raced(WalletAt(old))'
      BY <1>2, <1>3, <2>6, <2>7, <3>1 DEF WALCallIsFine
    <3>5. WalletAt(call)' = WalletAt(old)
      BY <2>6 DEF WalletAt
    <3> QED BY <1>3, <2>6, <3>2, <3>3, <3>4, <3>5 DEF WALCallIsFine
  <2>11. WALTables'
    BY <1>2, <2>7, WALTablesStay
  <2>12. call.at # "store" /\ walletCalls[c].at # "insert" /\ walletCalls[c].at # "invalidate"
    BY <1>1, <1>2, <2>6
  <2> QED BY <1>2, <2>3, <2>5, <2>8, <2>9, <2>10, <2>11, <2>12, WALMoves
<1> QED BY <1>1, <1>2, <1>3, <1>4, WALFails DEF WAL!VerifyExchanges

LEMMA WALInsertBlacklist ==
  ASSUME WALInv, NEW c \in DOMAIN walletCalls, WAL!InsertBlacklist(c)
  PROVE  WALInv'
<1>1. PICK old \in WAL!Call : old = walletCalls[c] /\ WALCallIsTyped(old)
  BY WALFacts
<1>2. PICK w \in Wallets : w = WalletAt(old) /\ WAL!WalletOf(c) = w
  BY <1>1, WalletOfCall
<1>3. old.at = "insert" /\ UNCHANGED <<ledger, cache, trades, tradeAlerts>>
  BY <1>1 DEF WAL!InsertBlacklist
<1>4. old.req.kind = "blacklist" /\ old.at \in WAL!Stages /\ w = old.req.wallet
  BY <1>1, <1>2, <1>3 DEF WALCallIsTyped, WAL!Stages, WalletAt
<1>5. PICK flying : flying = WAL!InFlight
  OBVIOUS
<1>6. flying \subseteq DOMAIN walletCalls /\ flying \subseteq Nat
  <2>1. flying \subseteq DOMAIN walletCalls
    BY <1>5 DEF WAL!InFlight
  <2>2. DOMAIN walletCalls = 1..Len(walletCalls) /\ Len(walletCalls) \in Nat
    BY WALFacts, Domain
  <2> QED BY <2>1, <2>2
<1>7. ASSUME blacklist' = blacklist \cup {w}, UNCHANGED walletFaults,
             walletCalls' = [walletCalls EXCEPT ![c].at = "invalidate", ![c].beside = flying \ {c}]
      PROVE  WALInv'
  <2>1. PICK call : call = [old EXCEPT !.at = "invalidate", !.beside = flying \ {c}]
    OBVIOUS
  <2>2. call \in WAL!Call
    <3>1. "invalidate" \in WAL!Stages /\ flying \ {c} \in SUBSET Nat
      BY <1>6 DEF WAL!Stages
    <3> QED BY <2>1, <3>1 DEF WAL!Call
  <2>3. walletCalls' = [walletCalls EXCEPT ![c] = call]
    BY <1>1, <1>7, <2>1 DEF WAL!Call
  <2>4. /\ call.at = "invalidate" /\ call.wallet = old.wallet /\ call.req = old.req
        /\ call.known = old.known /\ call.beside = flying \ {c} /\ call.next = old.next
        /\ call.velocity = old.velocity
    BY <2>1 DEF WAL!Call
  <2>5. WALStep(c, call)
    BY <1>1, <1>3, <1>4, <2>3, <2>4 DEF WALStep
  <2>6. /\ DOMAIN walletCalls' = DOMAIN walletCalls /\ walletCalls'[c] = call
        /\ \A k \in DOMAIN walletCalls : k # c => walletCalls'[k] = walletCalls[k]
        /\ \A v : Answered(v) => Answered(v)'
        /\ \A v : Inserted(v)' => Inserted(v) \/ Blacklists(call, v)
        /\ \A v : Raced(v) => Raced(v)'
        /\ \A v : Answered(v)' => Answered(v) \/ walletCalls[c].at = "invalidate"
    BY <2>2, <2>5, WALStepEffects
  <2>7. WALCallIsTyped(call)'
    BY <1>1, <1>4, <1>6, <2>4, <2>6 DEF WALCallIsTyped, WAL!WalletStages
  <2>8. walletFaults' \in Nat /\ (walletFaults' = 0 => walletFaults = 0)
    BY <1>7, WALFacts
  <2>9. WALTables'
    <3>1. blacklist' \subseteq Wallets
      BY <1>7, WALFacts DEF WALTables
    <3> QED BY <1>3, <2>6, <3>1, WALFacts DEF WALTables
  <2>10. ASSUME walletFaults' = 0
         PROVE  WALCallIsFine(call)' /\ CacheIsRight' /\ BurstsAreCounted'
    <3>1. WALCallIsFine(old) /\ CacheIsRight /\ BurstsAreCounted
      BY <1>1, <2>8, <2>10, WALFacts
    <3>2. \A v \in call.known : Answered(v)'
      BY <2>4, <2>6, <3>1 DEF WALCallIsFine
    <3>3. call.req.wallet \in blacklist'
      BY <1>4, <1>7, <2>4
    <3>4. WALCallIsFine(call)'
      BY <1>4, <2>4, <3>2, <3>3 DEF WALCallIsFine
    <3>5. CacheIsRight'
      BY <1>1, <1>3, <2>6, <3>1 DEF CacheIsRight
    <3>6. BurstsAreCounted'
      BY <1>3, <2>2, <2>4, <2>5, <3>1, WALWaitingFewer
    <3> QED BY <3>4, <3>5, <3>6
  <2>11. ASSUME NEW k \in DOMAIN walletCalls, k # c, walletCalls[k].at \in {"history", "fill"},
                Inserted(WalletAt(walletCalls[k]))'
         PROVE  Inserted(WalletAt(walletCalls[k])) \/ Raced(WalletAt(walletCalls[k]))'
    <3>1. PICK v : v = WalletAt(walletCalls[k])
      OBVIOUS
    <3>2. Inserted(WalletAt(walletCalls[k]))' = Inserted(v)'
      BY <2>6, <2>11, <3>1 DEF WalletAt, Inserted, Blacklists
    <3>3. Raced(WalletAt(walletCalls[k]))' = Raced(v)'
      BY <2>6, <2>11, <3>1 DEF WalletAt, Raced, Blacklists, LooksUp
    <3>4. CASE Blacklists(call, v)
      <4>1. walletCalls[k].req.kind \in {"verify", "analyze"}
        BY <2>11, WALFacts DEF WALCallIsTyped, WAL!WalletStages
      <4>2. LooksUp(walletCalls[k], v)
        BY <3>1, <4>1, WalletOfCall
      <4>3. k \in flying
        BY <1>5, <2>11 DEF WAL!InFlight, WAL!Stages, WAL!WalletStages
      <4>4. LooksUp(walletCalls'[k], v)
        BY <2>6, <2>11, <4>2
      <4>5. \E b \in DOMAIN walletCalls' :
              Blacklists(walletCalls'[b], v) /\ \E i \in walletCalls'[b].beside : LooksUp(walletCalls'[i], v)
        BY <2>4, <2>6, <2>11, <3>4, <4>3, <4>4
      <4>6. Raced(v)'
        BY <4>5 DEF Raced, LooksUp, Blacklists
      <4> QED BY <3>3, <4>6
    <3>5. CASE Inserted(v)
      BY <3>1, <3>5
    <3> QED BY <2>6, <2>11, <3>2, <3>4, <3>5
  <2>12. blacklist \subseteq blacklist'
    BY <1>7
  <2> QED BY <2>2, <2>5, <2>7, <2>8, <2>9, <2>10, <2>11, <2>12, WALCallGoesOn
<1> QED BY <1>1, <1>2, <1>3, <1>4, <1>5, <1>7, WALFails DEF WAL!InsertBlacklist

LEMMA WALInvalidateCache ==
  ASSUME WALInv, NEW c \in DOMAIN walletCalls, WAL!InvalidateCache(c)
  PROVE  WALInv'
<1>1. PICK old \in WAL!Call : old = walletCalls[c] /\ WALCallIsTyped(old)
  BY WALFacts
<1>2. PICK w \in Wallets : w = WalletAt(old) /\ WAL!WalletOf(c) = w
  BY <1>1, WalletOfCall
<1>3. old.at = "invalidate" /\ UNCHANGED <<ledger, blacklist, trades, tradeAlerts>>
  BY <1>1 DEF WAL!InvalidateCache, WAL!tables
<1>4. old.req.kind = "blacklist" /\ old.at \in WAL!Stages /\ w = old.req.wallet
  BY <1>1, <1>2, <1>3 DEF WALCallIsTyped, WAL!Stages, WalletAt
<1>5. walletFaults \in Nat
  BY WALFacts
<1>6. \/ cache' = [cache EXCEPT ![w] = NoRow] /\ UNCHANGED walletFaults
      \/ UNCHANGED cache /\ WAL!Fault
  BY <1>2 DEF WAL!InvalidateCache, WAL!Without
<1>7. PICK call : call = [old EXCEPT !.at = "done"]
  OBVIOUS
<1>8. "done" \in (WAL!Stages \cup WAL!Ends) \ {"invalidate"}
  BY DEF WAL!Ends
<1>9. call \in WAL!Call /\ WALMoved(old, call, "done", old.wallet, old.listed)
  BY <1>7, <1>8 DEF WAL!Call, WALMoved, WalletAt
<1>10. walletCalls' = [walletCalls EXCEPT ![c] = call]
  BY <1>1, <1>7 DEF WAL!Call, WAL!InvalidateCache, WAL!MoveTo
<1>11. WALStep(c, call)
  BY <1>1, <1>3, <1>4, <1>8, <1>9, <1>10, WALStepOf
<1>12. /\ call.at = "done" /\ call.wallet = old.wallet /\ call.req = old.req
       /\ call.known = old.known /\ call.beside = old.beside /\ call.next = old.next
       /\ call.velocity = old.velocity
  BY <1>9 DEF WALMoved
<1>13. /\ DOMAIN walletCalls' = DOMAIN walletCalls
       /\ \A k \in DOMAIN walletCalls : k # c => walletCalls'[k] = walletCalls[k]
       /\ \A v : Answered(v) => Answered(v)'
       /\ \A v : Inserted(v)' => Inserted(v) \/ walletCalls[c].at = "insert"
       /\ \A v : Raced(v) => Raced(v)'
       /\ \A v : Answered(v)' => Answered(v) \/ Blacklists(call, v)
  BY <1>9, <1>11, WALStepEffects
<1>14. WALCallIsTyped(call)'
  BY <1>1, <1>4, <1>12, <1>13 DEF WALCallIsTyped, WAL!WalletStages
<1>15. walletFaults' \in Nat /\ (walletFaults' = 0 => walletFaults = 0)
  BY <1>5, <1>6 DEF WAL!Fault
<1>16. WALTables'
  <2>1. /\ cache = [v \in Wallets |-> cache[v]]
        /\ \A v \in Wallets : cache[v] = NoRow \/ cache[v] \in {0, 20, 30, 50, 100}
    BY WALFacts DEF WALTables
  <2>2. /\ cache' = [v \in Wallets |-> cache'[v]]
        /\ \A v \in Wallets : cache'[v] = NoRow \/ cache'[v] \in {0, 20, 30, 50, 100}
    BY <1>6, <2>1
  <2> QED BY <1>3, <1>13, <2>2, WALFacts DEF WALTables
<1>17. ASSUME walletFaults' = 0
       PROVE  WALCallIsFine(call)' /\ CacheIsRight' /\ BurstsAreCounted'
  <2>1. WALCallIsFine(old) /\ CacheIsRight /\ BurstsAreCounted
    BY <1>1, <1>15, <1>17, WALFacts
  <2>2. \A v \in call.known : Answered(v)'
    BY <1>12, <1>13, <2>1 DEF WALCallIsFine
  <2>3. call.req.wallet \in blacklist'
    BY <1>3, <1>4, <1>12, <2>1 DEF WALCallIsFine
  <2>4. WALCallIsFine(call)'
    BY <1>4, <1>12, <2>2, <2>3 DEF WALCallIsFine
  <2>5. cache' = [cache EXCEPT ![w] = NoRow]
    BY <1>5, <1>6, <1>17 DEF WAL!Fault
  <2>6. CacheIsRight'
    <3> SUFFICES ASSUME NEW v \in Wallets, cache'[v] # NoRow, cache'[v] < 100, Answered(v)'
        PROVE  Raced(v)'
      BY DEF CacheIsRight
    <3>1. v # w /\ cache'[v] = cache[v]
      BY <2>5, WALFacts DEF WALTables
    <3>2. ~ Blacklists(call, v)
      BY <1>4, <1>12, <3>1 DEF Blacklists
    <3> QED BY <1>13, <2>1, <3>1, <3>2 DEF CacheIsRight
  <2>7. BurstsAreCounted'
    BY <1>3, <1>9, <1>11, <1>12, <2>1, WALWaitingFewer
  <2> QED BY <2>4, <2>6, <2>7
<1>18. ASSUME NEW k \in DOMAIN walletCalls, k # c, Inserted(WalletAt(walletCalls[k]))'
       PROVE  Inserted(WalletAt(walletCalls[k]))
  <2>1. PICK v : v = WalletAt(walletCalls[k])
    OBVIOUS
  <2>2. Inserted(WalletAt(walletCalls[k]))' = Inserted(v)'
    BY <1>13, <1>18, <2>1 DEF WalletAt, Inserted, Blacklists
  <2> QED BY <1>1, <1>3, <1>13, <1>18, <2>1, <2>2
<1> QED BY <1>3, <1>9, <1>11, <1>14, <1>15, <1>16, <1>17, <1>18, WALCallGoesOn

(* The calls about trades: nothing but types is claimed of them.           *)
LEMMA WALTradeGoesOn ==
  ASSUME WALInv, NEW c \in DOMAIN walletCalls, NEW call \in WAL!Call,
         walletCalls' = [walletCalls EXCEPT ![c] = call],
         walletCalls[c].at \in WAL!Stages, walletCalls[c].req.kind = "trade",
         call.req = walletCalls[c].req, call.known = walletCalls[c].known,
         call.beside = walletCalls[c].beside, call.wallet = walletCalls[c].wallet,
         call.velocity = walletCalls[c].velocity,
         call.at \in {"detect", "report", "done"},
         call.at = "detect" => call.next = 1, call.at = "report" => call.next \in DOMAIN call.found,
         trades' \in [TradeIds -> WAL!StoredTrade \cup {NoRow}],
         tradeAlerts' \subseteq (DOMAIN walletCalls) \X WAL!AlertTypes,
         walletFaults' = walletFaults \/ WAL!Fault, UNCHANGED <<ledger, blacklist, cache>>
  PROVE  WALInv'
<1>1. PICK old \in WAL!Call : old = walletCalls[c] /\ WALCallIsTyped(old)
  BY WALFacts
<1>2. WALStep(c, call)
  BY DEF WALStep
<1>3. DOMAIN walletCalls' = DOMAIN walletCalls /\ \A v : Answered(v) => Answered(v)'
  BY <1>2, WALStepEffects
<1>4. WALCallIsTyped(call)'
  BY <1>1, <1>3 DEF WALCallIsTyped, WAL!WalletStages
<1>5. walletFaults' \in Nat /\ (walletFaults' = 0 => walletFaults = 0)
  BY WALFacts DEF WAL!Fault
<1>6. WALTables'
  BY <1>3, WALFacts DEF WALTables
<1>7. ASSUME walletFaults' = 0 PROVE WALCallIsFine(call)'
  <2>1. WALCallIsFine(old)
    BY <1>1, <1>5, <1>7, WALFacts
  <2>2. \A v \in call.known : Answered(v)'
    BY <1>1, <1>3, <2>1 DEF WALCallIsFine
  <2> QED BY <2>2 DEF WALCallIsFine
<1>8. walletCalls[c].at # "insert" /\ walletCalls[c].at # "invalidate" /\ call.at # "store"
  BY WALFacts DEF WALCallIsTyped
<1> QED BY <1>2, <1>4, <1>5, <1>6, <1>7, <1>8, WALMoves

LEMMA WALStoreTrade ==
  ASSUME WALInv, NEW c \in DOMAIN walletCalls, WAL!storeP2PTrade(c)
  PROVE  WALInv'
<1>1. PICK old \in WAL!Call : old = walletCalls[c] /\ WALCallIsTyped(old)
  BY WALFacts
<1>2. old.at = "upsert" /\ UNCHANGED <<ledger, blacklist, cache, tradeAlerts>>
  BY <1>1 DEF WAL!storeP2PTrade
<1>3. old.req.kind = "trade" /\ old.at \in WAL!Stages /\ old.next = 1
  BY <1>1, <1>2 DEF WALCallIsTyped, WAL!Stages
<1>4. PICK id \in TradeIds, t \in WAL!Trade : id = old.req.id /\ t = old.req.trade
  BY DEF WAL!Call, WAL!Request
<1>5. trades \in [TradeIds -> WAL!StoredTrade \cup {NoRow}]
  BY WALFacts DEF WALTables
<1>6. ASSUME WAL!MoveTo(c, "detect"), UNCHANGED walletFaults,
             NEW row, trades' = [trades EXCEPT ![id] = row],
             row = [seller |-> t.seller, currency |-> t.currency, price |-> t.price,
                    disputed |-> IF trades[id] = NoRow THEN FALSE ELSE trades[id].disputed,
                    today |-> IF trades[id] = NoRow THEN TRUE ELSE trades[id].today]
      PROVE  WALInv'
  <2>1. row \in WAL!StoredTrade
    <3>1. trades[id] = NoRow \/ (trades[id].disputed \in BOOLEAN /\ trades[id].today \in BOOLEAN)
      BY <1>5 DEF WAL!StoredTrade
    <3>2. PICK disputed \in BOOLEAN, today \in BOOLEAN :
            /\ disputed = IF trades[id] = NoRow THEN FALSE ELSE trades[id].disputed
            /\ today = IF trades[id] = NoRow THEN TRUE ELSE trades[id].today
      BY <3>1
    <3> QED BY <1>6, <3>2 DEF WAL!StoredTrade, WAL!Trade
  <2>2. trades' \in [TradeIds -> WAL!StoredTrade \cup {NoRow}]
    BY <1>5, <1>6, <2>1
  <2>3. PICK call : call = [old EXCEPT !.at = "detect"]
    OBVIOUS
  <2>4. call \in WAL!Call
    <3>1. "detect" \in WAL!Stages
      BY DEF WAL!Stages
    <3> QED BY <2>3, <3>1 DEF WAL!Call
  <2>5. walletCalls' = [walletCalls EXCEPT ![c] = call]
    BY <1>1, <1>6, <2>3 DEF WAL!Call, WAL!MoveTo
  <2>6. /\ call.at = "detect" /\ call.req = old.req /\ call.known = old.known
        /\ call.beside = old.beside /\ call.wallet = old.wallet /\ call.velocity = old.velocity
        /\ call.next = 1
    BY <1>3, <2>3 DEF WAL!Call
  <2>7. tradeAlerts' \subseteq (DOMAIN walletCalls) \X WAL!AlertTypes
    BY <1>2, WALFacts DEF WALTables
  <2>8. UNCHANGED <<ledger, blacklist, cache>> /\ walletFaults' = walletFaults
    BY <1>2, <1>6
  <2> QED BY <1>1, <1>3, <2>2, <2>4, <2>5, <2>6, <2>7, <2>8, WALTradeGoesOn
<1>7. ASSUME WAL!Fault, WAL!MoveTo(c, "error"), UNCHANGED trades
      PROVE  WALInv'
  BY <1>1, <1>2, <1>3, <1>7, WALFails
<1> QED BY <1>1, <1>4, <1>6, <1>7 DEF WAL!storeP2PTrade

LEMMA WALDetect ==
  ASSUME WALInv, NEW c \in DOMAIN walletCalls, WAL!DetectP2PFraud(c)
  PROVE  WALInv'
<1>1. PICK old \in WAL!Call : old = walletCalls[c] /\ WALCallIsTyped(old)
  BY WALFacts
<1>2. old.at = "detect" /\ UNCHANGED <<ledger, blacklist, cache, trades, tradeAlerts>>
  BY <1>1 DEF WAL!DetectP2PFraud, WAL!tables
<1>3. old.req.kind = "trade" /\ old.at \in WAL!Stages /\ old.next = 1
  BY <1>1, <1>2 DEF WALCallIsTyped, WAL!Stages
<1>4. PICK lost :
        /\ walletCalls' = [walletCalls EXCEPT
             ![c].found = WAL!detectP2PFraud(old.req.trade, lost),
             ![c].at = IF WAL!detectP2PFraud(old.req.trade, lost) = << >> THEN "done" ELSE "report"]
        /\ walletFaults' = walletFaults \/ WAL!Fault
  BY <1>1 DEF WAL!DetectP2PFraud
<1>5. PICK found : found = WAL!detectP2PFraud(old.req.trade, lost)
  OBVIOUS
<1>6. found \in Seq(WAL!AlertTypes)
  <2>1. PICK first, second :
          /\ first = << >> \/ first = <<"high_dispute_rate">>
          /\ second = << >> \/ second = <<"price_deviation">>
          /\ found = first \o second
    <3>1. PICK trade : trade = old.req.trade
      OBVIOUS
    <3>2. found = (IF lost # "high_dispute_rate" /\ WAL!DisputeRateIsHigh(trade.seller)
                   THEN <<"high_dispute_rate">> ELSE << >>)
                  \o (IF lost # "price_deviation" /\ WAL!PriceDeviates(trade)
                      THEN <<"price_deviation">> ELSE << >>)
      BY <1>5, <3>1 DEF WAL!detectP2PFraud
    <3> QED BY <3>2
  <2>2. first \in Seq(WAL!AlertTypes) /\ second \in Seq(WAL!AlertTypes)
    <3>1. "high_dispute_rate" \in WAL!AlertTypes /\ "price_deviation" \in WAL!AlertTypes
      BY DEF WAL!AlertTypes
    <3>2. /\ << >> \in Seq(WAL!AlertTypes)
          /\ <<"high_dispute_rate">> \in Seq(WAL!AlertTypes)
          /\ <<"price_deviation">> \in Seq(WAL!AlertTypes)
      BY <3>1
    <3> QED BY <2>1, <3>2
  <2> QED BY <2>1, <2>2
<1>7. PICK stage \in {"done", "report"} :
        stage = IF found = << >> THEN "done" ELSE "report"
  OBVIOUS
<1>8. PICK call : call = [old EXCEPT !.found = found, !.at = stage]
  OBVIOUS
<1>9. call \in WAL!Call
  <2>1. stage \in WAL!Stages \cup WAL!Ends
    BY <1>7 DEF WAL!Stages, WAL!Ends
  <2> QED BY <1>6, <1>8, <2>1 DEF WAL!Call
<1>10. walletCalls' = [walletCalls EXCEPT ![c] = call]
  BY <1>1, <1>4, <1>5, <1>7, <1>8 DEF WAL!Call
<1>11. /\ call.at = stage /\ call.req = old.req /\ call.known = old.known
       /\ call.beside = old.beside /\ call.wallet = old.wallet /\ call.velocity = old.velocity
       /\ call.next = 1 /\ call.found = found
  BY <1>3, <1>8 DEF WAL!Call
<1>12. stage = "report" => 1 \in DOMAIN found
  BY <1>6, <1>7
<1>13. /\ trades' \in [TradeIds -> WAL!StoredTrade \cup {NoRow}]
       /\ tradeAlerts' \subseteq (DOMAIN walletCalls) \X WAL!AlertTypes
  BY <1>2, WALFacts DEF WALTables
<1>14. UNCHANGED <<ledger, blacklist, cache>> /\ (walletFaults' = walletFaults \/ WAL!Fault)
  BY <1>2, <1>4
<1>15. /\ call.at \in {"detect", "report", "done"} /\ (call.at = "detect" => call.next = 1)
       /\ call.at = "report" => call.next \in DOMAIN call.found
  BY <1>7, <1>11, <1>12
<1> QED BY <1>1, <1>3, <1>9, <1>10, <1>11, <1>13, <1>14, <1>15, WALTradeGoesOn

LEMMA WALStoreAlerts ==
  ASSUME WALInv, NEW c \in DOMAIN walletCalls, WAL!storeP2PAlerts(c)
  PROVE  WALInv'
<1>1. PICK old \in WAL!Call : old = walletCalls[c] /\ WALCallIsTyped(old)
  BY WALFacts
<1>2. old.at = "report" /\ UNCHANGED <<ledger, blacklist, trades, cache>>
  BY <1>1 DEF WAL!storeP2PAlerts
<1>3. old.req.kind = "trade" /\ old.at \in WAL!Stages /\ old.next \in DOMAIN old.found
  BY <1>1, <1>2 DEF WALCallIsTyped, WAL!Stages
<1>4. PICK found \in Seq(WAL!AlertTypes) : found = old.found
  BY DEF WAL!Call
<1>5. /\ old.next \in 1..Len(found) /\ Len(found) \in Nat /\ old.next \in Nat
      /\ found[old.next] \in WAL!AlertTypes
  BY <1>3, <1>4, Domain
<1>6. ASSUME tradeAlerts' = tradeAlerts \cup {<<c, found[old.next]>>}, UNCHANGED walletFaults,
             walletCalls' = [walletCalls EXCEPT ![c].at = IF old.next = Len(found) THEN "done" ELSE @,
                                                ![c].next = @ + 1]
      PROVE  WALInv'
  <2>1. PICK stage : stage = IF old.next = Len(found) THEN "done" ELSE old.at
    OBVIOUS
  <2>2. stage \in {"done", "report"} /\ (stage = "report" => old.next + 1 \in 1..Len(found))
    BY <1>2, <1>5, <2>1
  <2>3. PICK call : call = [old EXCEPT !.at = stage, !.next = old.next + 1]
    OBVIOUS
  <2>4. call \in WAL!Call
    <3>1. stage \in WAL!Stages \cup WAL!Ends /\ old.next + 1 \in Nat
      BY <1>5, <2>2 DEF WAL!Stages, WAL!Ends
    <3> QED BY <2>3, <3>1 DEF WAL!Call
  <2>5. walletCalls' = [walletCalls EXCEPT ![c] = call]
    BY <1>1, <1>6, <2>1, <2>3 DEF WAL!Call
  <2>6. /\ call.at = stage /\ call.req = old.req /\ call.known = old.known
        /\ call.beside = old.beside /\ call.wallet = old.wallet /\ call.velocity = old.velocity
        /\ call.next = old.next + 1 /\ call.found = found
    BY <1>4, <2>3 DEF WAL!Call
  <2>7. tradeAlerts' \subseteq (DOMAIN walletCalls) \X WAL!AlertTypes
    BY <1>5, <1>6, WALFacts DEF WALTables
  <2>8. /\ UNCHANGED <<ledger, blacklist, cache>> /\ walletFaults' = walletFaults
        /\ trades' \in [TradeIds -> WAL!StoredTrade \cup {NoRow}]
    BY <1>2, <1>6, WALFacts DEF WALTables
  <2>9. DOMAIN found = 1..Len(found)
    BY <1>4, Domain
  <2>10. /\ call.at \in {"detect", "report", "done"} /\ (call.at = "detect" => call.next = 1)
         /\ call.at = "report" => call.next \in DOMAIN call.found
    BY <2>2, <2>6, <2>9
  <2> QED BY <1>1, <1>3, <2>4, <2>5, <2>6, <2>7, <2>8, <2>10, WALTradeGoesOn
<1>7. ASSUME WAL!Fault, WAL!MoveTo(c, "error"), UNCHANGED tradeAlerts
      PROVE  WALInv'
  BY <1>1, <1>2, <1>3, <1>7, WALFails
<1> QED BY <1>1, <1>4, <1>6, <1>7 DEF WAL!storeP2PAlerts, WAL!Reporting

LEMMA WALExpires ==
  ASSUME WALInv, NEW w \in Wallets, WAL!Expire(w)
  PROVE  WALInv'
<1>1. /\ cache' = [cache EXCEPT ![w] = NoRow]
      /\ UNCHANGED <<ledger, blacklist, trades, tradeAlerts, walletCalls, walletFaults>>
  BY DEF WAL!Expire, WAL!tables
<1>2. WALTables'
  <2>1. /\ cache = [v \in Wallets |-> cache[v]]
        /\ \A v \in Wallets : cache[v] = NoRow \/ cache[v] \in {0, 20, 30, 50, 100}
    BY WALFacts DEF WALTables
  <2>2. /\ cache' = [v \in Wallets |-> cache'[v]]
        /\ \A v \in Wallets : cache'[v] = NoRow \/ cache'[v] \in {0, 20, 30, 50, 100}
    BY <1>1, <2>1
  <2> QED BY <1>1, <2>2, WALFacts DEF WALTables
<1>3. CacheIsRight => CacheIsRight'
  <2> SUFFICES ASSUME CacheIsRight, NEW v \in Wallets, cache'[v] # NoRow, cache'[v] < 100,
                      Answered(v)'
      PROVE  Raced(v)'
    BY DEF CacheIsRight
  <2>1. v # w /\ cache'[v] = cache[v]
    BY <1>1, WALFacts DEF WALTables
  <2>2. Answered(v) /\ (Raced(v) => Raced(v)')
    BY <1>1 DEF Answered, Blacklists, Raced, LooksUp
  <2> QED BY <2>1, <2>2 DEF CacheIsRight
<1>4. BurstsAreCounted => BurstsAreCounted'
  <2>1. \A user : Unnoticed(user)' = Unnoticed(user) /\ Waiting(user)' = Waiting(user)
    BY <1>1 DEF Unnoticed, Waiting
  <2> QED BY <2>1 DEF BurstsAreCounted
<1>5. WAL!InFlight' = WAL!InFlight
  BY <1>1 DEF WAL!InFlight
<1>6. ASSUME NEW call PROVE (WALCallIsTyped(call) => WALCallIsTyped(call)')
                            /\ (WALCallIsFine(call) => WALCallIsFine(call)')
  BY <1>1 DEF WALCallIsTyped, WALCallIsFine, Answered, Inserted, Raced, Blacklists, LooksUp,
              WalletAt, WAL!WalletStages
<1>7. \A k \in DOMAIN walletCalls :
        /\ WALCallIsTyped(walletCalls[k])'
        /\ walletFaults = 0 => WALCallIsFine(walletCalls[k])'
  <2> TAKE k \in DOMAIN walletCalls
  <2>1. PICK call : call = walletCalls[k] /\ call = walletCalls'[k]
    BY <1>1
  <2>2. WALCallIsTyped(call)' /\ (walletFaults = 0 => WALCallIsFine(call)')
    BY <1>6, <2>1, WALFacts
  <2> QED BY <2>1, <2>2
<1>8. Cardinality(WAL!InFlight') <= Concurrency
  BY <1>5, WALFacts
<1> QED BY <1>1, <1>2, <1>3, <1>4, <1>7, <1>8, WALFacts DEF WALInv

LEMMA WALStops ==
  ASSUME WALInv, WAL!Stop
  PROVE  WALInv'
<1>1. /\ walletFaults' \in Nat /\ walletFaults' # 0
      /\ UNCHANGED <<ledger, blacklist, cache, trades, tradeAlerts>>
      /\ walletCalls' = [c \in DOMAIN walletCalls |->
           IF c \in WAL!InFlight THEN [walletCalls[c] EXCEPT !.at = "lost"] ELSE walletCalls[c]]
  BY WALFacts DEF WAL!Stop, WAL!Fault, WAL!tables
<1>2. DOMAIN walletCalls' = DOMAIN walletCalls
  BY <1>1
<1>3. ASSUME NEW k \in DOMAIN walletCalls
      PROVE  /\ walletCalls'[k] \in WAL!Call /\ WALCallIsTyped(walletCalls[k])'
             /\ walletCalls'[k].at \notin WAL!Stages
  <2>1. PICK old \in WAL!Call : old = walletCalls[k] /\ WALCallIsTyped(old)
    BY WALFacts
  <2>2. CASE k \in WAL!InFlight
    <3>1. PICK call : call = [old EXCEPT !.at = "lost"]
      OBVIOUS
    <3>2. walletCalls'[k] = call
      BY <1>1, <2>1, <2>2, <3>1
    <3>3. call \in WAL!Call
      <4>1. "lost" \in WAL!Ends
        BY DEF WAL!Ends
      <4> QED BY <3>1, <4>1 DEF WAL!Call
    <3>4. /\ call.at = "lost" /\ call.req = old.req /\ call.beside = old.beside
          /\ call.wallet = old.wallet /\ call.velocity = old.velocity /\ call.next = old.next
      BY <3>1 DEF WAL!Call
    <3>5. WALCallIsTyped(call)'
      BY <1>2, <2>1, <3>4 DEF WALCallIsTyped, WAL!WalletStages
    <3>6. call.at \notin WAL!Stages
      BY <3>4 DEF WAL!Stages, WAL!WalletStages
    <3> QED BY <3>2, <3>3, <3>5, <3>6
  <2>3. CASE k \notin WAL!InFlight
    <3>1. walletCalls'[k] = old
      BY <1>1, <2>1, <2>3
    <3>2. WALCallIsTyped(old)'
      BY <1>2, <2>1 DEF WALCallIsTyped
    <3>3. old.at \notin WAL!Stages
      BY <2>1, <2>3 DEF WAL!InFlight
    <3> QED BY <3>1, <3>2, <3>3
  <2> QED BY <2>2, <2>3
<1>4. walletCalls' \in Seq(WAL!Call) /\ Len(walletCalls') = Len(walletCalls)
  <2>1. PICK t : t = walletCalls'
    OBVIOUS
  <2>2. t = [i \in DOMAIN walletCalls |-> t[i]]
    BY <1>1, <2>1
  <2>3. \A i \in DOMAIN walletCalls : t[i] \in WAL!Call
    BY <1>3, <2>1
  <2>4. DOMAIN t = DOMAIN walletCalls
    BY <1>2, <2>1
  <2>5. t \in Seq(WAL!Call) /\ Len(t) = Len(walletCalls)
    BY <2>2, <2>3, <2>4, WALFacts, Mapped
  <2> QED BY <2>1, <2>5
<1>5. Cardinality(WAL!InFlight') <= Concurrency
  <2>1. WAL!InFlight' = {}
    BY <1>2, <1>3 DEF WAL!InFlight
  <2> QED BY <2>1, FS_EmptySet, WALConstants
<1>6. WALTables'
  BY <1>1, <1>2, WALTablesStay
<1> QED BY <1>1, <1>2, <1>3, <1>4, <1>5, <1>6 DEF WALInv

LEMMA WALReceives ==
  ASSUME WALInv, NEW req \in WalletRequests, WAL!Receive(req)
  PROVE  WALInv'
<1>1. /\ req \in WAL!Request /\ (req.kind = "analyze" => req.txns # << >>)
      /\ Cardinality(WAL!InFlight) < Concurrency
      /\ UNCHANGED <<ledger, blacklist, cache, trades, tradeAlerts, walletFaults>>
  BY WALConstants DEF WAL!Receive, WAL!tables, WAL!Cardinality, Cardinality
<1>2. PICK known : known = WAL!BlacklistingAnswered
  OBVIOUS
<1>3. PICK stage : stage = IF req.token THEN WAL!FirstStage[req.kind] ELSE "unauthorized"
  OBVIOUS
<1>4. PICK call :
        call = [req |-> req, at |-> stage, next |-> 1, wallet |-> 0, score |-> 0, velocity |-> 0,
                listed |-> FALSE, found |-> << >>, known |-> known, beside |-> {}]
  OBVIOUS
<1>5. \/ stage = "unauthorized"
      \/ req.kind = "analyze" /\ stage = "cached"
      \/ req.kind = "verify" /\ stage = "verify"
      \/ req.kind = "blacklist" /\ stage = "insert"
      \/ req.kind = "trade" /\ stage = "upsert"
  <2>1. /\ WAL!FirstStage["analyze"] = "cached" /\ WAL!FirstStage["verify"] = "verify"
        /\ WAL!FirstStage["blacklist"] = "insert" /\ WAL!FirstStage["trade"] = "upsert"
    BY DEF WAL!FirstStage
  <2>2. req.kind \in {"analyze", "verify", "blacklist", "trade"}
    BY <1>1 DEF WAL!Request, WAL!Kinds
  <2> QED BY <1>3, <2>1, <2>2
<1>6. \A w \in known : Answered(w)
  BY <1>2 DEF WAL!BlacklistingAnswered, Answered, Blacklists
<1>7. known \subseteq Wallets
  <2>1. ASSUME NEW w \in known PROVE w \in Wallets
    <3>1. PICK b \in DOMAIN walletCalls : Blacklists(walletCalls[b], w)
      BY <1>6 DEF Answered
    <3>2. walletCalls[b].req.wallet \in Wallets
      BY WALFacts DEF WAL!Call, WAL!Request
    <3> QED BY <3>1, <3>2 DEF Blacklists
  <2> QED BY <2>1
<1>8. call \in WAL!Call
  <2>1. stage \in WAL!Stages \cup WAL!Ends
    BY <1>5 DEF WAL!Stages, WAL!Ends, WAL!WalletStages
  <2>2. << >> \in Seq(WAL!AlertTypes) /\ {} \in SUBSET Nat
    OBVIOUS
  <2> QED BY <1>1, <1>4, <1>7, <2>1, <2>2 DEF WAL!Call
<1>9. walletCalls' = Append(walletCalls, call)
  BY <1>2, <1>3, <1>4 DEF WAL!Receive
<1>10. PICK n \in Nat : n = Len(walletCalls) + 1
  BY WALFacts
<1>11. /\ walletCalls' \in Seq(WAL!Call) /\ DOMAIN walletCalls' = DOMAIN walletCalls \cup {n}
       /\ n \notin DOMAIN walletCalls /\ walletCalls'[n] = call
       /\ \A k \in DOMAIN walletCalls : walletCalls'[k] = walletCalls[k]
  BY <1>8, <1>9, <1>10, WALFacts, Appended
<1>12. /\ call.req = req /\ call.at = stage /\ call.next = 1 /\ call.wallet = 0
       /\ call.velocity = 0 /\ call.known = known /\ call.beside = {}
  BY <1>4
<1>13. \A v : Answered(v) => Answered(v)'
  BY <1>11 DEF Answered
<1>14. \A v : Raced(v) => Raced(v)'
  <2> SUFFICES ASSUME NEW v, Raced(v) PROVE Raced(v)'
    OBVIOUS
  <2>1. PICK b \in DOMAIN walletCalls :
          Blacklists(walletCalls[b], v) /\ \E k \in walletCalls[b].beside : LooksUp(walletCalls[k], v)
    BY DEF Raced
  <2>2. PICK k \in walletCalls[b].beside : LooksUp(walletCalls[k], v)
    BY <2>1
  <2>3. k \in DOMAIN walletCalls
    BY WALFacts DEF WALCallIsTyped
  <2> QED BY <1>11, <2>1, <2>2, <2>3 DEF Raced
<1>15. \A v : Inserted(v)' => Inserted(v)
  <2> SUFFICES ASSUME NEW v, Inserted(v)' PROVE Inserted(v)
    OBVIOUS
  <2>1. PICK b \in DOMAIN walletCalls' :
          Blacklists(walletCalls'[b], v) /\ walletCalls'[b].at \in {"invalidate", "done"}
    BY DEF Inserted
  <2>2. b # n
    BY <1>5, <1>11, <1>12, <2>1
  <2> QED BY <1>11, <2>1, <2>2 DEF Inserted
<1>16. \A v : Answered(v)' => Answered(v)
  <2> SUFFICES ASSUME NEW v, Answered(v)' PROVE Answered(v)
    OBVIOUS
  <2>1. PICK b \in DOMAIN walletCalls' :
          Blacklists(walletCalls'[b], v) /\ walletCalls'[b].at = "done"
    BY DEF Answered
  <2>2. b # n
    BY <1>5, <1>11, <1>12, <2>1
  <2> QED BY <1>11, <2>1, <2>2 DEF Answered
<1>17. Cardinality(WAL!InFlight') <= Concurrency
  <2>1. PICK flying, more : flying = WAL!InFlight /\ more = WAL!InFlight'
    OBVIOUS
  <2>2. flying \subseteq DOMAIN walletCalls /\ more \subseteq flying \cup {n}
    BY <1>11, <2>1 DEF WAL!InFlight
  <2>3. IsFiniteSet(flying) /\ Cardinality(flying) \in Nat
    BY <2>2, WALFacts, Domain, FS_Subset, FS_CardinalityType
  <2>4. /\ IsFiniteSet(flying \cup {n})
        /\ Cardinality(flying \cup {n}) \in {Cardinality(flying), Cardinality(flying) + 1}
    BY <2>3, FS_AddElement
  <2>5. Cardinality(more) \in Nat /\ Cardinality(more) <= Cardinality(flying \cup {n})
    BY <2>2, <2>4, FS_Subset, FS_CardinalityType
  <2>6. Cardinality(flying) < Concurrency
    BY <1>1, <2>1
  <2> QED BY <2>1, <2>3, <2>4, <2>5, <2>6, WALConstants
<1>18. ASSUME NEW k \in DOMAIN walletCalls' PROVE WALCallIsTyped(walletCalls[k])'
  <2>1. CASE k = n
    <3>1. WALCallIsTyped(call)'
      <4>1. req.kind = "analyze" => 1 \in DOMAIN req.txns
        <5>1. PICK txns \in Seq(WAL!Txn) : txns = req.txns
          BY <1>1 DEF WAL!Request
        <5>2. txns # << >> => 1 \in DOMAIN txns
          OBVIOUS
        <5> QED BY <1>1, <5>1, <5>2
      <4> QED BY <1>5, <1>12, <4>1 DEF WALCallIsTyped, WAL!WalletStages
    <3> QED BY <1>11, <2>1, <3>1
  <2>2. CASE k # n
    BY <1>11, <1>18, <2>2, WALFacts DEF WALCallIsTyped
  <2> QED BY <2>1, <2>2
<1>19. ASSUME walletFaults' = 0
       PROVE  /\ \A k \in DOMAIN walletCalls' : WALCallIsFine(walletCalls[k])'
              /\ CacheIsRight' /\ BurstsAreCounted'
  <2>1. /\ \A k \in DOMAIN walletCalls : WALCallIsFine(walletCalls[k])
        /\ CacheIsRight /\ BurstsAreCounted
    BY <1>1, <1>19, WALFacts
  <2>2. ASSUME NEW k \in DOMAIN walletCalls' PROVE WALCallIsFine(walletCalls[k])'
    <3>1. CASE k = n
      <4>1. WALCallIsFine(call)'
        BY <1>5, <1>6, <1>12, <1>13 DEF WALCallIsFine
      <4> QED BY <1>11, <3>1, <4>1
    <3>2. CASE k # n
      <4>1. PICK other \in WAL!Call : other = walletCalls[k] /\ walletCalls'[k] = other
        BY <1>11, <2>2, <3>2, WALFacts
      <4>2. WALCallIsFine(other)
        BY <1>11, <2>1, <2>2, <3>2, <4>1
      <4>3. Inserted(WalletAt(other))' => Inserted(WalletAt(other))
        <5>1. PICK v : v = WalletAt(other)
          OBVIOUS
        <5>2. Inserted(WalletAt(other))' = Inserted(v)'
          BY <5>1 DEF WalletAt
        <5> QED BY <1>15, <5>1, <5>2
      <4>4. WALCallIsFine(other)'
        BY <1>1, <1>13, <1>14, <4>2, <4>3, WALOthersKeep
      <4> QED BY <4>1, <4>4
    <3> QED BY <3>1, <3>2
  <2>3. CacheIsRight'
    BY <1>1, <1>14, <1>16, <2>1 DEF CacheIsRight
  <2>4. ASSUME NEW user \in Users
        PROVE  (Cardinality(Unnoticed(user)) + Cardinality(Waiting(user)) <= BusyHour + Concurrency)'
    <3>1. n \notin Waiting(user)'
      BY <1>5, <1>11, <1>12 DEF Waiting, IsWaiting
    <3>2. Waiting(user)' = Waiting(user)
      BY <1>11, <3>1 DEF Waiting
    <3>3. Unnoticed(user)' = Unnoticed(user)
      BY <1>1 DEF Unnoticed
    <3> QED BY <2>1, <3>2, <3>3 DEF BurstsAreCounted
  <2>5. BurstsAreCounted'
    BY <2>4 DEF BurstsAreCounted
  <2> QED BY <2>2, <2>3, <2>5
<1>20. WALTables'
  BY <1>1, <1>11, WALTablesStay
<1> QED BY <1>1, <1>11, <1>17, <1>18, <1>19, <1>20, WALFacts DEF WALInv

LEMMA WALHandles ==
  ASSUME WALInv, NEW c \in DOMAIN walletCalls, WAL!Handle(c)
  PROVE  WALInv'
<1>1. CASE WAL!GetCached(c)
  BY <1>1, WALGetCached
<1>2. CASE WAL!AskBlacklist(c)
  BY <1>2, WALAskBlacklist
<1>3. CASE WAL!AskHistory(c)
  BY <1>3, WALAskHistory
<1>4. CASE WAL!FillCache(c)
  BY <1>4, WALFillCache
<1>5. CASE WAL!performRiskAnalysis(c)
  BY <1>5, WALRiskAnalysis
<1>6. CASE WAL!storeTransactionAnalysis(c)
  BY <1>6, WALStoreTransaction
<1>7. CASE WAL!VerifyBlacklist(c)
  BY <1>7, WALVerifyBlacklist
<1>8. CASE WAL!VerifyExchanges(c)
  BY <1>8, WALVerifyExchanges
<1>9. CASE WAL!InsertBlacklist(c)
  BY <1>9, WALInsertBlacklist
<1>10. CASE WAL!InvalidateCache(c)
  BY <1>10, WALInvalidateCache
<1>11. CASE WAL!storeP2PTrade(c)
  BY <1>11, WALStoreTrade
<1>12. CASE WAL!DetectP2PFraud(c)
  BY <1>12, WALDetect
<1>13. CASE WAL!storeP2PAlerts(c)
  BY <1>13, WALStoreAlerts
<1> QED BY <1>1, <1>2, <1>3, <1>4, <1>5, <1>6, <1>7, <1>8, <1>9, <1>10, <1>11, <1>12, <1>13
        DEF WAL!Handle

LEMMA WALNext == WALInv /\ [Next]_vars => WALInv'
<1> SUFFICES ASSUME WALInv, [Next]_vars PROVE WALInv'
  OBVIOUS
<1>1. CASE WAL!Next
  BY <1>1, WALReceives, WALHandles, WALExpires, WALStops DEF WAL!Next
<1>2. CASE UNCHANGED walletVars
  <2>1. UNCHANGED <<ledger, blacklist, cache, trades, tradeAlerts, walletCalls, walletFaults>>
    BY <1>2 DEF walletVars
  <2> QED BY <2>1 DEF WALInv, WALTables, WAL!InFlight, WALCallIsTyped, WALCallIsFine, CacheIsRight,
            BurstsAreCounted, Unnoticed, Waiting, Answered, Inserted, Raced
<1> QED BY <1>1, <1>2, ServicesStep

LEMMA WALInvHolds == Spec => []WALInv
BY WALInit, WALNext, PTL DEF Spec

(* Verified wallets, hidden blacklistings and bursts, from the invariant.  *)
LEMMA WALInvMeans == WALInv => RecordsAreHeeded
<1> SUFFICES ASSUME WALInv PROVE RecordsAreHeeded
  OBVIOUS
<1>1. WAL!VerifiedIsNotBlacklisted
  <2> SUFFICES ASSUME NEW c \in DOMAIN walletCalls, NEW call \in WAL!Call, call = walletCalls[c],
                      call.req.kind = "verify", call.at = "done", WAL!Verified(call),
                      walletFaults = 0
      PROVE  call.req.wallet \notin call.known
    BY WALFacts DEF WAL!VerifiedIsNotBlacklisted
  <2>1. WALCallIsFine(call)
    BY WALFacts
  <2> QED BY <2>1 DEF WALCallIsFine, WAL!Verified
<1>2. WAL!OnlyRacesHideBlacklisting
  <2> SUFFICES ASSUME NEW c \in DOMAIN walletCalls, NEW call \in WAL!Call, call = walletCalls[c],
                      call.at = "done", walletFaults = 0, WAL!WalletOf(c) \in call.known,
                      \/ call.req.kind = "verify" /\ call.wallet < 100
                      \/ call.req.kind = "analyze" /\ call.score < 60
      PROVE  \E b \in DOMAIN walletCalls :
               /\ walletCalls[b].req.kind = "blacklist"
               /\ walletCalls[b].req.wallet = WAL!WalletOf(c)
               /\ \E k \in walletCalls[b].beside :
                    \/ walletCalls[k].req.kind = "verify" /\ walletCalls[k].req.wallet = WAL!WalletOf(c)
                    \/ walletCalls[k].req.kind = "analyze"
                       /\ \E t \in WAL!ToSet(walletCalls[k].req.txns) : t.wallet = WAL!WalletOf(c)
    BY WALFacts DEF WAL!OnlyRacesHideBlacklisting
  <2>1. WALCallIsFine(call) /\ WAL!WalletOf(c) = WalletAt(call)
    BY WALFacts, WalletOfCall
  <2>2. call.wallet \in Nat /\ call.score \in Nat
    BY DEF WAL!Call
  <2>3. call.wallet < 100
    BY <2>1, <2>2 DEF WALCallIsFine
  <2>4. Raced(WalletAt(call))
    BY <2>1, <2>3 DEF WALCallIsFine
  <2>5. PICK w : w = WalletAt(call) /\ w = WAL!WalletOf(c)
    BY <2>1
  <2>6. PICK b \in DOMAIN walletCalls :
          Blacklists(walletCalls[b], w) /\ \E k \in walletCalls[b].beside : LooksUp(walletCalls[k], w)
    BY <2>4, <2>5 DEF Raced
  <2>7. PICK k \in walletCalls[b].beside : LooksUp(walletCalls[k], w)
    BY <2>6
  <2>8. \/ walletCalls[k].req.kind = "verify" /\ walletCalls[k].req.wallet = w
        \/ walletCalls[k].req.kind = "analyze"
           /\ \E t \in WAL!ToSet(walletCalls[k].req.txns) : t.wallet = w
    BY <2>7 DEF LooksUp, WAL!ToSet
  <2> QED BY <2>5, <2>6, <2>7, <2>8 DEF Blacklists
<1>3. WAL!BurstsAreNoticed
  <2> SUFFICES ASSUME NEW user \in Users, NEW unnoticed, walletFaults = 0,
                      unnoticed = {i \in DOMAIN ledger :
                                     /\ i > Len(WalletLedger)
                                     /\ ledger[i].txn.user = user
                                     /\ ledger[i].txn.age = "hour"
                                     /\ ledger[i].velocity < 30}
      PROVE  Cardinality(unnoticed) <= BusyHour + Concurrency
    BY DEF WAL!BurstsAreNoticed, WAL!Cardinality, Cardinality
  <2>1. unnoticed = Unnoticed(user)
    BY DEF Unnoticed, OfHour
  <2>2. Cardinality(Unnoticed(user)) + Cardinality(Waiting(user)) <= BusyHour + Concurrency
    BY WALFacts DEF BurstsAreCounted
  <2>3. PICK waiting : waiting = Waiting(user) /\ waiting \subseteq DOMAIN walletCalls
    BY DEF Waiting
  <2>4. Cardinality(waiting) \in Nat
    BY <2>3, WALFacts, Domain, FS_Subset, FS_CardinalityType
  <2>5. PICK m \in Nat : m = Cardinality(waiting)
    BY <2>4
  <2>6. PICK n \in Nat : n = Cardinality(Unnoticed(user))
    BY UnnoticedAreOfHour
  <2>7. n + m <= BusyHour + Concurrency
    BY <2>2, <2>3, <2>5, <2>6
  <2>8. n <= BusyHour + Concurrency
    BY <2>7, WALConstants
  <2> QED BY <2>1, <2>6, <2>8
<1> QED BY <1>1, <1>2, <1>3 DEF RecordsAreHeeded, WAL!RecordsAreHeeded

(* For any requests and limits, and however many requests are in flight: a *)
(* wallet whose blacklisting was answered is not verified, it is trusted   *)
(* only after a look-up beside the blacklisting, and the transactions of an*)
(* hour that are stored without velocity points are no more than the limit *)
(* and the requests in flight (performWalletVerification, blacklistWallet, *)
(* checkTransactionVelocity).                                              *)
THEOREM BlacklistingsAreHeeded == Spec => []RecordsAreHeeded
BY WALInvHolds, WALInvMeans, PTL

-----------------------------------------------------------------------------
(* account-takeover-detector.                                              *)

(* The stored logins that make a device or a city known to a check.        *)
SameDevice(req) == {i \in ATO!Recent(req) : logins[i].device = req.device}
SameCity(req) == {i \in ATO!Recent(req) : logins[i].city = req.city}

(* What a check found known another call, or an earlier day, has stored;   *)
(* what it found new was not there when it began.                          *)
HistoryIsJudged(c, call) ==
  call.req.kind \in {"takeover", "login"}
  /\ call.at \in {"commit", "login", "event", "alert", "done"} =>
    /\ "device" \notin call.flags => \E i \in SameDevice(call.req) : logins[i].call # c
    /\ "device" \in call.flags => SameDevice(call.req) \cap (1..call.began.logins) = {}
    /\ "city" \notin call.flags => \E i \in SameCity(call.req) : logins[i].call # c
    /\ "city" \in call.flags => SameCity(call.req) \cap (1..call.began.logins) = {}

(* A score of failed logins sums up some of the rows of its address, those *)
(* that were there when it began among them.                               *)
Sums(call, rows) ==
  /\ rows \subseteq ATO!OnRecord(call.req)
  /\ ATO!OnRecord(call.req) \cap (1..call.began.attempts) \subseteq rows
  /\ call.score = ATO!StuffingScore(call.req.failed + ATO!Failed(failedLogins, rows),
                    Cardinality({call.req.user} \cup {failedLogins[i].user : i \in rows}))

(* The stages of the kinds of requests.                                    *)
ATOCallIsStaged(call) ==
  /\ call.at = "commit" => call.req.kind \in {"takeover", "stuffing"}
  /\ call.at = "login" => call.req.kind \in {"login", "session", "travel"}
  /\ call.at = "enrol" => call.req.kind = "device"
  /\ call.at \in {"event", "alert"} => call.req.kind \notin {"takeover", "stuffing"}

(* What was there when a call began still is.                              *)
BeganEarlier(call) ==
  /\ call.began.logins <= Len(logins) /\ call.began.fingerprints <= Len(fingerprints)
  /\ call.began.attempts <= Len(failedLogins)

(* A severe finding that was answered, or is stored by a transaction, has  *)
(* its alert; before it has read a call has no event.                      *)
AlertsFollow(c, call) ==
  /\ call.at = "look" => c \notin loginEvents
  /\ call.at = "alert" => c \in loginEvents
  /\ ATO!Severe(call) /\ call.at = "done" => c \in loginAlerts
  /\ ATO!Severe(call) /\ c \in loginEvents /\ call.req.kind \in {"takeover", "stuffing"}
     => c \in loginAlerts

ATOCallIsFine(c, call) ==
  /\ ATOCallIsStaged(call) /\ BeganEarlier(call)
  /\ AlertsFollow(c, call) /\ HistoryIsJudged(c, call)
  /\ call.req.kind = "stuffing" /\ call.at = "commit" =>
       \E rows \in SUBSET DOMAIN failedLogins : Sums(call, rows)
  /\ call.at = "enrol" => ATO!DeviceRows(call.req) \cap (1..call.began.fingerprints) = {}
  /\ "matched" \in call.flags =>
       \E i \in ATO!DeviceRows(call.req) : fingerprints[i].fingerprint = call.req.fingerprint

(* The call that stored a row has read before, and stored what it read.    *)
LoginRow(i) ==
  logins[i].call # 0 => /\ logins[i].call \in DOMAIN loginCalls
                        /\ loginCalls[logins[i].call].at # "look"

DeviceRow(k) ==
  LET c == fingerprints[k].call
  IN c # 0 => /\ c \in DOMAIN loginCalls /\ loginCalls[c].at # "look"
              /\ ATO!DeviceRows(fingerprints[k]) \cap (1..loginCalls[c].began.fingerprints) = {}

AttemptRow(k) ==
  LET c == failedLogins[k].call
      call == loginCalls[c]
  IN c # 0 => /\ c \in DOMAIN loginCalls /\ call.at # "look" /\ call.req.kind = "stuffing"
              /\ c \in loginEvents
              /\ failedLogins[k] = ATO!AttemptOf(c)
              /\ \E rows \in SUBSET (1..(k - 1)) : Sums(call, rows)

(* Rows of calls follow those of earlier days.                             *)
LaterAreOfCalls ==
  \A i, k \in DOMAIN failedLogins : i < k /\ failedLogins[i].call # 0 => failedLogins[k].call # 0

ATOTables ==
  /\ logins \in Seq(ATO!Login) /\ fingerprints \in Seq(ATO!Fingerprint)
  /\ failedLogins \in Seq(ATO!Attempt)
  /\ loginEvents \subseteq DOMAIN loginCalls /\ loginAlerts \subseteq loginEvents

ATORows ==
  /\ \A i \in DOMAIN logins : LoginRow(i)
  /\ \A k \in DOMAIN fingerprints : DeviceRow(k)
  /\ \A k \in DOMAIN failedLogins : AttemptRow(k)
  /\ LaterAreOfCalls

ATOInv ==
  /\ ATOTables
  /\ loginCalls \in Seq(ATO!Call) /\ Len(loginCalls) <= MaxLoginCalls
  /\ \A c \in DOMAIN loginCalls : ATOCallIsFine(c, loginCalls[c])
  /\ ATORows

LEMMA ATOConstants ==
  /\ LoginRequests \subseteq ATO!Request /\ MaxLoginCalls \in Nat
  /\ StoredLogins \in Seq(ATO!Login) /\ StoredFingerprints \in Seq(ATO!Fingerprint)
  /\ StoredAttempts \in Seq(ATO!Attempt)
  /\ \A i \in DOMAIN StoredLogins : StoredLogins[i].call = 0
  /\ \A i \in DOMAIN StoredFingerprints : StoredFingerprints[i].call = 0
  /\ \A i \in DOMAIN StoredAttempts : StoredAttempts[i].call = 0
BY TakeoverAssumption DEF ATO!ConstantsAssumption

LEMMA ATOInit == Init => ATOInv
<1> SUFFICES ASSUME Init PROVE ATOInv
  OBVIOUS
<1>1. /\ logins = StoredLogins /\ fingerprints = StoredFingerprints
      /\ failedLogins = StoredAttempts /\ loginEvents = {} /\ loginAlerts = {}
      /\ loginCalls = << >>
  BY DEF Init, ATO!Init
<1>2. /\ loginCalls \in Seq(ATO!Call) /\ DOMAIN loginCalls = {} /\ Len(loginCalls) = 0
  BY <1>1
<1>3. ATOTables
  BY <1>1, ATOConstants DEF ATOTables
<1>4. ATORows
  BY <1>1, ATOConstants DEF ATORows, LoginRow, DeviceRow, AttemptRow, LaterAreOfCalls
<1> QED BY <1>2, <1>3, <1>4, ATOConstants DEF ATOInv

LEMMA ATOFacts ==
  ASSUME ATOInv
  PROVE  /\ logins \in Seq(ATO!Login) /\ fingerprints \in Seq(ATO!Fingerprint)
         /\ failedLogins \in Seq(ATO!Attempt)
         /\ loginEvents \subseteq DOMAIN loginCalls /\ loginAlerts \subseteq loginEvents
         /\ loginCalls \in Seq(ATO!Call) /\ Len(loginCalls) <= MaxLoginCalls
         /\ DOMAIN loginCalls = 1..Len(loginCalls)
         /\ \A c \in DOMAIN loginCalls : /\ loginCalls[c] \in ATO!Call
                                         /\ ATOCallIsFine(c, loginCalls[c])
                                         /\ c \in 1..MaxLoginCalls
         /\ DOMAIN logins = 1..Len(logins) /\ \A i \in DOMAIN logins : logins[i] \in ATO!Login
         /\ DOMAIN fingerprints = 1..Len(fingerprints)
         /\ \A i \in DOMAIN fingerprints : fingerprints[i] \in ATO!Fingerprint
         /\ DOMAIN failedLogins = 1..Len(failedLogins)
         /\ \A i \in DOMAIN failedLogins : failedLogins[i] \in ATO!Attempt
         /\ ATORows
<1>1. /\ logins \in Seq(ATO!Login) /\ fingerprints \in Seq(ATO!Fingerprint)
      /\ failedLogins \in Seq(ATO!Attempt) /\ loginCalls \in Seq(ATO!Call)
  BY DEF ATOInv, ATOTables
<1>2. \A c \in DOMAIN loginCalls : c \in 1..MaxLoginCalls
  BY <1>1, Domain, ATOConstants DEF ATOInv
<1> QED BY <1>1, <1>2, Domain DEF ATOInv, ATOTables

LEMMA ATOTypes == ATOInv => ATO!TypeOK
BY DEF ATOInv, ATOTables, ATO!TypeOK

-----------------------------------------------------------------------------
(* Failed logins summed up: any order of the rows gives the same sum.      *)
LEMMA FailedIsSum ==
  ASSUME NEW log, NEW rows, IsFiniteSet(rows), NEW f \in [rows -> Nat],
         \A i \in rows : f[i] = log[i].failed
  PROVE  ATO!Failed(log, rows) = SumOf(f, rows) /\ ATO!Failed(log, rows) \in Nat
<1>1. PICK g \in [SUBSET rows -> Nat] : SumsUp(f, SUBSET rows, g)
  BY SumsExist
<1> DEFINE Adds(i) == i = [s \in SUBSET rows |-> IF s = {} THEN 0
                            ELSE log[CHOOSE x \in s : TRUE].failed + i[s \ {CHOOSE x \in s : TRUE}]]
<1>2. PICK iter : iter = (CHOOSE i : Adds(i)) /\ ATO!Failed(log, rows) = iter[rows]
  BY DEF ATO!Failed, ATO!MapThenSumSet, ATO!MapThenFoldSet
<1>3. Adds(g)
  <2>1. ASSUME NEW s \in SUBSET rows, s # {}
        PROVE  f[CHOOSE x \in s : TRUE] = log[CHOOSE x \in s : TRUE].failed
    BY <2>1
  <2>2. g = [s \in SUBSET rows |-> IF s = {} THEN 0
               ELSE f[CHOOSE x \in s : TRUE] + g[s \ {CHOOSE x \in s : TRUE}]]
    BY <1>1 DEF SumsUp, OneOf
  <2> QED BY <2>1, <2>2
<1>4. Adds(iter)
  <2> HIDE DEF Adds
  <2> QED BY <1>2, <1>3
<1>5. SumsUp(f, SUBSET rows, iter)
  <2>1. ASSUME NEW s \in SUBSET rows, s # {}
        PROVE  f[CHOOSE x \in s : TRUE] = log[CHOOSE x \in s : TRUE].failed
    BY <2>1
  <2> QED BY <1>4, <2>1 DEF SumsUp, OneOf
<1>6. PICK h : h = f
  OBVIOUS
<1>7. rows \subseteq rows /\ \A x \in rows : h[x] = f[x]
  BY <1>6
<1>8. SumsUp(h, SUBSET rows, iter)
  BY <1>5, <1>6
<1> QED BY <1>2, <1>7, <1>8, SumOfIs

LEMMA FailedStays ==
  ASSUME NEW log, NEW more, NEW rows, IsFiniteSet(rows),
         \A i \in rows : log[i].failed \in Nat /\ more[i].failed = log[i].failed
  PROVE  ATO!Failed(more, rows) = ATO!Failed(log, rows)
<1>1. PICK f : f = [i \in rows |-> log[i].failed]
  OBVIOUS
<1>2. f \in [rows -> Nat] /\ \A i \in rows : f[i] = log[i].failed /\ f[i] = more[i].failed
  BY <1>1
<1> QED BY <1>2, FailedIsSum

LEMMA FailedMore ==
  ASSUME NEW log, NEW rows, IsFiniteSet(rows), NEW k \in rows,
         \A i \in rows : log[i].failed \in Nat
  PROVE  ATO!Failed(log, rows) = log[k].failed + ATO!Failed(log, rows \ {k})
<1>1. PICK f, h : f = [i \in rows |-> log[i].failed] /\ h = [i \in rows \ {k} |-> log[i].failed]
  OBVIOUS
<1>2. /\ f \in [rows -> Nat] /\ \A i \in rows : f[i] = log[i].failed
      /\ h \in [rows \ {k} -> Nat] /\ \A i \in rows \ {k} : h[i] = log[i].failed
      /\ \A i \in rows \ {k} : h[i] = f[i]
  BY <1>1
<1>3. IsFiniteSet(rows \ {k})
  BY FS_Subset
<1>4. ATO!Failed(log, rows) = SumOf(f, rows)
  BY <1>2, FailedIsSum
<1>5. ATO!Failed(log, rows \ {k}) = SumOf(h, rows \ {k})
  <2>1. PICK less : less = rows \ {k}
    OBVIOUS
  <2> QED BY <1>2, <1>3, <2>1, FailedIsSum
<1>6. SumOf(f, rows) = f[k] + SumOf(h, rows \ {k})
  BY <1>2, SumOfMore
<1> QED BY <1>2, <1>4, <1>5, <1>6

(* Every score is a percentage.                                            *)
NamesOf(user, log, rows) == {user} \cup {log[i].user : i \in rows}

LEMMA StuffingInRange ==
  ASSUME NEW failed \in Nat, NEW rows, IsFiniteSet(rows), NEW user, NEW log
  PROVE  ATO!StuffingScore(failed, ATO!Cardinality(NamesOf(user, log, rows))) \in 0..100
<1>1. PICK users : users = {log[i].user : i \in rows}
  OBVIOUS
<1>2. IsFiniteSet(users)
  <2>1. [i \in rows |-> log[i].user] \in Surjection(rows, users)
    BY <1>1 DEF Surjection
  <2> QED BY <2>1, FS_Surjection
<1>3. IsFiniteSet(users \cup {user}) /\ users \cup {user} # {}
  BY <1>2, FS_AddElement
<1>4. Cardinality(users \cup {user}) \in Nat \ {0}
  BY <1>3, FS_CardinalityType, FS_EmptySet
<1>5. NamesOf(user, log, rows) = users \cup {user}
  BY <1>1 DEF NamesOf
<1>6. PICK n \in Nat \ {0} : n = ATO!Cardinality(NamesOf(user, log, rows))
  BY <1>4, <1>5 DEF ATO!Cardinality, Cardinality
<1>7. ATO!StuffingScore(failed, n) \in 0..100
  BY DEF ATO!StuffingScore, ATO!AtMost
<1> QED BY <1>6, <1>7

LEMMA FlagsAreFinite ==
  ASSUME NEW flags \in SUBSET ATO!Flags
  PROVE  IsFiniteSet(flags)
<1>1. \A S, x : IsFiniteSet(S) => IsFiniteSet(S \cup {x})
  BY FS_AddElement
<1>2. IsFiniteSet({} \cup {"device"} \cup {"city"} \cup {"addresses"} \cup {"velocity"})
  BY <1>1, FS_EmptySet
<1>3. PICK some : /\ some = {} \cup {"device"} \cup {"city"} \cup {"addresses"} \cup {"velocity"}
                  /\ IsFiniteSet(some)
  BY <1>2
<1>4. IsFiniteSet(some \cup {"address"} \cup {"travel"} \cup {"matched"} \cup {"trusted"})
  BY <1>1, <1>3
<1>5. flags \subseteq some \cup {"address"} \cup {"travel"} \cup {"matched"} \cup {"trusted"}
  BY <1>3 DEF ATO!Flags
<1> QED BY <1>4, <1>5, FS_Subset

LEMMA LoginScoreInRange ==
  ASSUME NEW kind, NEW flags \in SUBSET ATO!Flags,
         \A flag \in flags : ATO!Points[kind][flag] \in Nat
  PROVE  ATO!Score(kind, flags) \in 0..100
<1>1. IsFiniteSet(flags)
  BY FlagsAreFinite
<1>2. PICK f : f = [flag \in flags |-> ATO!Points[kind][flag]]
  OBVIOUS
<1>3. f \in [flags -> Nat] /\ \A flag \in flags : f[flag] = ATO!Points[kind][flag]
  BY <1>2
<1>4. PICK g \in [SUBSET flags -> Nat] : SumsUp(f, SUBSET flags, g)
  BY <1>1, <1>3, SumsExist
<1> DEFINE Adds(i) == i = [s \in SUBSET flags |-> IF s = {} THEN 0
                            ELSE ATO!Points[kind][CHOOSE x \in s : TRUE] + i[s \ {CHOOSE x \in s : TRUE}]]
<1>5. PICK iter :
        /\ iter = (CHOOSE i : Adds(i))
        /\ ATO!MapThenSumSet(LAMBDA flag : ATO!Points[kind][flag], flags) = iter[flags]
  BY DEF ATO!MapThenSumSet, ATO!MapThenFoldSet
<1>6. Adds(g)
  <2>1. ASSUME NEW s \in SUBSET flags, s # {}
        PROVE  f[CHOOSE x \in s : TRUE] = ATO!Points[kind][CHOOSE x \in s : TRUE]
    BY <1>3, <2>1
  <2>2. g = [s \in SUBSET flags |-> IF s = {} THEN 0
               ELSE f[CHOOSE x \in s : TRUE] + g[s \ {CHOOSE x \in s : TRUE}]]
    BY <1>4 DEF SumsUp, OneOf
  <2> QED BY <2>1, <2>2
<1>7. Adds(iter)
  <2> HIDE DEF Adds
  <2> QED BY <1>5, <1>6
<1>8. SumsUp(f, SUBSET flags, iter)
  <2>1. ASSUME NEW s \in SUBSET flags, s # {}
        PROVE  f[CHOOSE x \in s : TRUE] = ATO!Points[kind][CHOOSE x \in s : TRUE]
    BY <1>3, <2>1
  <2> QED BY <1>7, <2>1 DEF SumsUp, OneOf
<1>9. iter[flags] \in Nat
  <2>1. PICK h : h = f
    OBVIOUS
  <2>2. flags \subseteq flags /\ \A x \in flags : h[x] = f[x]
    BY <2>1
  <2>3. SumsUp(h, SUBSET flags, iter)
    BY <1>8, <2>1
  <2> QED BY <1>1, <1>3, <2>2, <2>3, SumOfIs
<1>10. PICK n \in Nat : n = ATO!MapThenSumSet(LAMBDA flag : ATO!Points[kind][flag], flags)
  BY <1>5, <1>9
<1>11. ATO!Score(kind, flags) = ATO!AtMost(n, 100)
  BY <1>10 DEF ATO!Score
<1> QED BY <1>11 DEF ATO!AtMost

-----------------------------------------------------------------------------
(* Rows are only added; what a call or a row rests on stays.               *)
ATOTablesGrow ==
  /\ logins' \in Seq(ATO!Login) /\ Len(logins) <= Len(logins')
  /\ \A i \in DOMAIN logins : logins'[i] = logins[i]
  /\ fingerprints' \in Seq(ATO!Fingerprint) /\ Len(fingerprints) <= Len(fingerprints')
  /\ \A i \in DOMAIN fingerprints : fingerprints'[i] = fingerprints[i]
  /\ failedLogins' \in Seq(ATO!Attempt) /\ Len(failedLogins) <= Len(failedLogins')
  /\ \A i \in DOMAIN failedLogins : failedLogins'[i] = failedLogins[i]
  /\ loginEvents \subseteq loginEvents' /\ loginAlerts \subseteq loginAlerts'

(* A call that has read keeps what it is and has found.                    *)
SameFindings(old, call) ==
  /\ call.req = old.req /\ call.flags = old.flags /\ call.score = old.score
  /\ call.began = old.began

ATOCallsGo ==
  \A k \in DOMAIN loginCalls :
    loginCalls[k].at # "look" =>
      /\ k \in DOMAIN loginCalls' /\ loginCalls'[k].at # "look"
      /\ SameFindings(loginCalls[k], loginCalls'[k])

LEMMA ATODomainsGrow ==
  ASSUME ATOInv, ATOTablesGrow
  PROVE  /\ DOMAIN logins \subseteq DOMAIN logins' /\ DOMAIN logins' = 1..Len(logins')
         /\ DOMAIN fingerprints \subseteq DOMAIN fingerprints'
         /\ DOMAIN fingerprints' = 1..Len(fingerprints')
         /\ DOMAIN failedLogins \subseteq DOMAIN failedLogins'
         /\ DOMAIN failedLogins' = 1..Len(failedLogins')
         /\ Len(logins) \in Nat /\ Len(fingerprints) \in Nat /\ Len(failedLogins) \in Nat
         /\ Len(logins') \in Nat /\ Len(fingerprints') \in Nat /\ Len(failedLogins') \in Nat
<1>1. /\ DOMAIN logins' = 1..Len(logins') /\ Len(logins') \in Nat /\ Len(logins) \in Nat
      /\ DOMAIN logins = 1..Len(logins)
  BY ATOFacts DEF ATOTablesGrow
<1>2. /\ DOMAIN fingerprints' = 1..Len(fingerprints') /\ Len(fingerprints') \in Nat
      /\ DOMAIN fingerprints = 1..Len(fingerprints) /\ Len(fingerprints) \in Nat
  BY ATOFacts DEF ATOTablesGrow
<1>3. /\ DOMAIN failedLogins' = 1..Len(failedLogins') /\ Len(failedLogins') \in Nat
      /\ DOMAIN failedLogins = 1..Len(failedLogins) /\ Len(failedLogins) \in Nat
  BY ATOFacts DEF ATOTablesGrow
<1> QED BY <1>1, <1>2, <1>3 DEF ATOTablesGrow

LEMMA ATORowsStay ==
  ASSUME ATOInv, ATOTablesGrow, NEW req
  PROVE  /\ SameDevice(req) = SameDevice(req)' \cap DOMAIN logins
         /\ SameCity(req) = SameCity(req)' \cap DOMAIN logins
         /\ ATO!DeviceRows(req) = ATO!DeviceRows(req)' \cap DOMAIN fingerprints
         /\ ATO!OnRecord(req) = ATO!OnRecord(req)' \cap DOMAIN failedLogins
<1>1. SameDevice(req) = SameDevice(req)' \cap DOMAIN logins
  BY ATODomainsGrow DEF ATOTablesGrow, SameDevice, ATO!Recent, ATO!OfUser
<1>2. SameCity(req) = SameCity(req)' \cap DOMAIN logins
  BY ATODomainsGrow DEF ATOTablesGrow, SameCity, ATO!Recent, ATO!OfUser
<1>3. ATO!DeviceRows(req) = ATO!DeviceRows(req)' \cap DOMAIN fingerprints
  BY ATODomainsGrow DEF ATOTablesGrow, ATO!DeviceRows, ATO!OfUser
<1>4. ATO!OnRecord(req) = ATO!OnRecord(req)' \cap DOMAIN failedLogins
  BY ATODomainsGrow DEF ATOTablesGrow, ATO!OnRecord
<1> QED BY <1>1, <1>2, <1>3, <1>4

LEMMA SumsKeep ==
  ASSUME ATOInv, ATOTablesGrow, NEW call \in ATO!Call, NEW more \in ATO!Call,
         SameFindings(call, more), BeganEarlier(call), NEW rows, Sums(call, rows)
  PROVE  Sums(more, rows)'
<1>1. rows \subseteq DOMAIN failedLogins /\ IsFiniteSet(rows)
  <2>1. rows \subseteq DOMAIN failedLogins
    BY DEF Sums, ATO!OnRecord
  <2> QED BY <2>1, ATOFacts, Domain, FS_Subset
<1>2. \A i \in rows : /\ failedLogins'[i] = failedLogins[i] /\ failedLogins[i].failed \in Nat
  BY <1>1, ATOFacts DEF ATOTablesGrow, ATO!Attempt
<1>3. ATO!Failed(failedLogins', rows) = ATO!Failed(failedLogins, rows)
  BY <1>1, <1>2, FailedStays
<1>4. {failedLogins'[i].user : i \in rows} = {failedLogins[i].user : i \in rows}
  BY <1>2
<1>a. PICK req : req = call.req /\ more.req = req
  BY DEF SameFindings
<1>5. PICK n \in Nat : /\ req = call.req /\ more.req = req /\ n = call.began.attempts
                      /\ more.began.attempts = n /\ n <= Len(failedLogins)
  BY <1>a DEF SameFindings, BeganEarlier, ATO!Call
<1>6. /\ rows \subseteq ATO!OnRecord(req)' /\ ATO!OnRecord(req)' \cap (1..n) \subseteq rows
  <2>1. 1..n \subseteq DOMAIN failedLogins
    BY <1>5, ATOFacts, ATODomainsGrow
  <2>2. ATO!OnRecord(req) = ATO!OnRecord(req)' \cap DOMAIN failedLogins
    BY ATORowsStay
  <2>3. rows \subseteq ATO!OnRecord(req) /\ ATO!OnRecord(req) \cap (1..n) \subseteq rows
    BY <1>5 DEF Sums
  <2> QED BY <2>1, <2>2, <2>3
<1>7. more.score = ATO!StuffingScore(req.failed + ATO!Failed(failedLogins', rows),
                     Cardinality({req.user} \cup {failedLogins'[i].user : i \in rows}))
  BY <1>3, <1>4, <1>5 DEF Sums, SameFindings
<1>8. ATO!OnRecord(more.req)' = ATO!OnRecord(req)'
  BY <1>5
<1> QED BY <1>5, <1>6, <1>7, <1>8 DEF Sums

(* What a call has found stays found, unless it ends before.               *)
LEMMA ATOGoesOn ==
  ASSUME ATOInv, ATOTablesGrow, NEW c, NEW old \in ATO!Call, NEW call \in ATO!Call,
         ATOCallIsFine(c, old), SameFindings(old, call),
         \/ call.at = old.at
         \/ call.at \in {"error", "lost"}
         \/ old.at \in {"commit", "login", "enrol", "event", "alert"} /\ call.at \in {"event", "alert", "done"}
  PROVE  /\ BeganEarlier(call)' /\ HistoryIsJudged(c, call)'
         /\ call.req.kind = "stuffing" /\ call.at = "commit" =>
              (\E rows \in SUBSET DOMAIN failedLogins : Sums(call, rows))'
         /\ call.at = "enrol" =>
              (ATO!DeviceRows(call.req) \cap (1..call.began.fingerprints) = {})'
         /\ "matched" \in call.flags =>
              (\E i \in ATO!DeviceRows(call.req) : fingerprints[i].fingerprint = call.req.fingerprint)'
<1>1. PICK req, flags : req = call.req /\ old.req = req /\ flags = call.flags /\ old.flags = flags
  BY DEF SameFindings
<1>2. PICK a \in Nat, b \in Nat, n \in Nat :
        /\ call.began.logins = a /\ call.began.fingerprints = b /\ call.began.attempts = n
        /\ old.began.logins = a /\ old.began.fingerprints = b /\ old.began.attempts = n
        /\ a <= Len(logins) /\ b <= Len(fingerprints) /\ n <= Len(failedLogins)
  BY DEF SameFindings, ATO!Call, ATOCallIsFine, BeganEarlier
<1>3. BeganEarlier(call)'
  BY <1>2, ATODomainsGrow DEF BeganEarlier, ATOTablesGrow
<1>4. 1..a \subseteq DOMAIN logins /\ 1..b \subseteq DOMAIN fingerprints
  BY <1>2, ATOFacts, ATODomainsGrow
<1>5. HistoryIsJudged(c, call)'
  <2> SUFFICES ASSUME req.kind \in {"takeover", "login"},
                      call.at \in {"commit", "login", "event", "alert", "done"}
      PROVE  /\ "device" \notin flags => \E i \in SameDevice(req)' : logins'[i].call # c
             /\ "device" \in flags => SameDevice(req)' \cap (1..a) = {}
             /\ "city" \notin flags => \E i \in SameCity(req)' : logins'[i].call # c
             /\ "city" \in flags => SameCity(req)' \cap (1..a) = {}
    BY <1>1, <1>2 DEF HistoryIsJudged
  <2>1. old.at \in {"commit", "login", "event", "alert", "done"}
    <3>1. old.at \in {"commit", "login", "enrol", "event", "alert"} => old.at # "enrol"
      BY <1>1 DEF ATOCallIsFine, ATOCallIsStaged
    <3> QED BY <3>1
  <2>2. /\ "device" \notin flags => \E i \in SameDevice(req) : logins[i].call # c
        /\ "device" \in flags => SameDevice(req) \cap (1..a) = {}
        /\ "city" \notin flags => \E i \in SameCity(req) : logins[i].call # c
        /\ "city" \in flags => SameCity(req) \cap (1..a) = {}
    BY <1>1, <1>2, <2>1 DEF ATOCallIsFine, HistoryIsJudged
  <2>3. /\ SameDevice(req) = SameDevice(req)' \cap DOMAIN logins
        /\ SameCity(req) = SameCity(req)' \cap DOMAIN logins
        /\ \A i \in DOMAIN logins : logins'[i] = logins[i]
    BY ATORowsStay DEF ATOTablesGrow
  <2> QED BY <1>4, <2>2, <2>3
<1>6. ASSUME call.req.kind = "stuffing", call.at = "commit"
      PROVE  (\E rows \in SUBSET DOMAIN failedLogins : Sums(call, rows))'
  <2>1. old.req.kind = "stuffing" /\ old.at = "commit"
    BY <1>1, <1>6
  <2>2. PICK rows \in SUBSET DOMAIN failedLogins : Sums(old, rows)
    BY <2>1 DEF ATOCallIsFine
  <2>3. Sums(call, rows)' /\ rows \in SUBSET DOMAIN failedLogins'
    BY <2>2, SumsKeep, ATODomainsGrow DEF ATOCallIsFine
  <2> QED BY <2>3
<1>7. ASSUME call.at = "enrol"
      PROVE  (ATO!DeviceRows(call.req) \cap (1..call.began.fingerprints) = {})'
  <2>1. ATO!DeviceRows(req) \cap (1..b) = {}
    BY <1>1, <1>2, <1>7 DEF ATOCallIsFine
  <2>2. ATO!DeviceRows(req)' \cap (1..b) = {}
    BY <1>4, <2>1, ATORowsStay
  <2> QED BY <1>1, <1>2, <2>2
<1>8. ASSUME "matched" \in flags
      PROVE  (\E i \in ATO!DeviceRows(call.req) : fingerprints[i].fingerprint = call.req.fingerprint)'
  <2>1. PICK i \in ATO!DeviceRows(req) : fingerprints[i].fingerprint = req.fingerprint
    BY <1>1, <1>8 DEF ATOCallIsFine
  <2>2. i \in ATO!DeviceRows(req)' /\ i \in DOMAIN fingerprints
    BY <2>1, ATORowsStay
  <2>3. fingerprints'[i].fingerprint = req.fingerprint
    BY <2>1, <2>2 DEF ATOTablesGrow
  <2> QED BY <1>1, <2>2, <2>3
<1> QED BY <1>1, <1>3, <1>5, <1>6, <1>7, <1>8

(* The rows that were there keep the call that stored them.                *)
LEMMA ATORowsKeep ==
  ASSUME ATOInv, ATOTablesGrow, ATOCallsGo, loginCalls' \in Seq(ATO!Call)
  PROVE  /\ \A i \in DOMAIN logins : LoginRow(i)'
         /\ \A k \in DOMAIN fingerprints : DeviceRow(k)'
         /\ \A k \in DOMAIN failedLogins : AttemptRow(k)'
<1>1. ASSUME NEW i \in DOMAIN logins PROVE LoginRow(i)'
  <2>1. LoginRow(i) /\ logins'[i] = logins[i]
    BY ATOFacts DEF ATORows, ATOTablesGrow
  <2>2. logins[i].call \in 0..MaxLoginCalls
    BY ATOFacts DEF ATO!Login
  <2> QED BY <2>1, <2>2 DEF LoginRow, ATOCallsGo
<1>2. ASSUME NEW k \in DOMAIN fingerprints PROVE DeviceRow(k)'
  <2>1. DeviceRow(k) /\ fingerprints'[k] = fingerprints[k]
    BY ATOFacts DEF ATORows, ATOTablesGrow
  <2>2. PICK row : row = fingerprints[k] /\ row = fingerprints'[k]
    BY <2>1
  <2>3. PICK c : c = row.call
    OBVIOUS
  <2>4. SUFFICES ASSUME c # 0
        PROVE  /\ c \in DOMAIN loginCalls' /\ loginCalls'[c].at # "look"
               /\ ATO!DeviceRows(row)' \cap (1..loginCalls'[c].began.fingerprints) = {}
    BY <2>2, <2>3 DEF DeviceRow
  <2>5. /\ c \in DOMAIN loginCalls /\ loginCalls[c].at # "look"
        /\ ATO!DeviceRows(row) \cap (1..loginCalls[c].began.fingerprints) = {}
    BY <2>1, <2>2, <2>3, <2>4 DEF DeviceRow
  <2>6. /\ c \in DOMAIN loginCalls' /\ loginCalls'[c].at # "look"
        /\ loginCalls'[c].began = loginCalls[c].began
    BY <2>5 DEF ATOCallsGo, SameFindings
  <2>7. PICK b \in Nat : /\ b = loginCalls[c].began.fingerprints
                         /\ b = loginCalls'[c].began.fingerprints /\ b <= Len(fingerprints)
    <3>1. loginCalls[c] \in ATO!Call /\ BeganEarlier(loginCalls[c])
      BY <2>5, ATOFacts DEF ATOCallIsFine
    <3> QED BY <2>6, <3>1 DEF ATO!Call, BeganEarlier
  <2>8. 1..b \subseteq DOMAIN fingerprints
    BY <2>7, ATOFacts, ATODomainsGrow
  <2>9. ATO!DeviceRows(row) = ATO!DeviceRows(row)' \cap DOMAIN fingerprints
    BY ATORowsStay
  <2> QED BY <2>5, <2>6, <2>7, <2>8, <2>9
<1>3. ASSUME NEW k \in DOMAIN failedLogins PROVE AttemptRow(k)'
  <2>1. AttemptRow(k) /\ failedLogins'[k] = failedLogins[k]
    BY ATOFacts DEF ATORows, ATOTablesGrow
  <2>2. PICK row : row = failedLogins[k] /\ row = failedLogins'[k]
    BY <2>1
  <2>3. PICK c : c = row.call
    OBVIOUS
  <2>4. SUFFICES ASSUME c # 0
        PROVE  /\ c \in DOMAIN loginCalls' /\ loginCalls'[c].at # "look"
               /\ loginCalls'[c].req.kind = "stuffing" /\ c \in loginEvents'
               /\ row = ATO!AttemptOf(c)'
               /\ \E rows \in SUBSET (1..(k - 1)) : Sums(loginCalls[c], rows)'
    BY <2>2, <2>3 DEF AttemptRow
  <2>5. /\ c \in DOMAIN loginCalls /\ loginCalls[c].at # "look"
        /\ loginCalls[c].req.kind = "stuffing" /\ c \in loginEvents
        /\ row = ATO!AttemptOf(c)
        /\ \E rows \in SUBSET (1..(k - 1)) : Sums(loginCalls[c], rows)
    BY <2>1, <2>2, <2>3, <2>4 DEF AttemptRow
  <2>6. /\ c \in DOMAIN loginCalls' /\ loginCalls'[c].at # "look"
        /\ SameFindings(loginCalls[c], loginCalls'[c])
    BY <2>5 DEF ATOCallsGo
  <2>7. PICK old \in ATO!Call : old = loginCalls[c] /\ BeganEarlier(old)
    BY <2>5, ATOFacts DEF ATOCallIsFine
  <2>8. PICK call \in ATO!Call : call = loginCalls'[c]
    BY <2>6, Domain
  <2>9. PICK rows \in SUBSET (1..(k - 1)) : Sums(old, rows)
    BY <2>5, <2>7
  <2>10. SameFindings(old, call)
    BY <2>6, <2>7, <2>8
  <2>11. Sums(call, rows)'
    BY <2>7, <2>9, <2>10, SumsKeep
  <2>12. Sums(loginCalls[c], rows)'
    <3>1. Sums(loginCalls[c], rows)' = Sums(call, rows)'
      BY <2>8
    <3> QED BY <2>11, <3>1
  <2>13. row = ATO!AttemptOf(c)'
    BY <2>5, <2>6 DEF ATO!AttemptOf, SameFindings
  <2> QED BY <2>5, <2>6, <2>9, <2>12, <2>13 DEF ATOTablesGrow, SameFindings
<1> QED BY <1>1, <1>2, <1>3

(* The calls other than the one that goes on.                              *)
LEMMA ATOOthersKeep ==
  ASSUME ATOInv, ATOTablesGrow, NEW k, NEW call \in ATO!Call, ATOCallIsFine(k, call),
         k \in loginEvents' => k \in loginEvents
  PROVE  ATOCallIsFine(k, call)'
<1>1. SameFindings(call, call)
  BY DEF SameFindings
<1>2. /\ BeganEarlier(call)' /\ HistoryIsJudged(k, call)'
      /\ call.req.kind = "stuffing" /\ call.at = "commit" =>
           (\E rows \in SUBSET DOMAIN failedLogins : Sums(call, rows))'
      /\ call.at = "enrol" =>
           (ATO!DeviceRows(call.req) \cap (1..call.began.fingerprints) = {})'
      /\ "matched" \in call.flags =>
           (\E i \in ATO!DeviceRows(call.req) : fingerprints[i].fingerprint = call.req.fingerprint)'
  BY <1>1, ATOGoesOn
<1>3. ATOCallIsStaged(call)'
  BY DEF ATOCallIsFine, ATOCallIsStaged
<1>4. AlertsFollow(k, call)'
  <2>1. AlertsFollow(k, call)
    BY DEF ATOCallIsFine
  <2>2. ATO!Severe(call)' = ATO!Severe(call)
    BY DEF ATO!Severe
  <2> QED BY <2>1, <2>2 DEF AlertsFollow, ATOTablesGrow
<1> QED BY <1>2, <1>3, <1>4 DEF ATOCallIsFine

(* The step of one call, with its rows if it adds some.                    *)
ATOCallGoes(c, call) ==
  /\ loginCalls' \in Seq(ATO!Call) /\ Len(loginCalls') = Len(loginCalls)
  /\ DOMAIN loginCalls' = DOMAIN loginCalls /\ loginCalls'[c] = call
  /\ \A k \in DOMAIN loginCalls : k # c => loginCalls'[k] = loginCalls[k]

ATONewRows ==
  /\ \A i \in DOMAIN logins' \ DOMAIN logins : LoginRow(i)'
  /\ \A k \in DOMAIN fingerprints' \ DOMAIN fingerprints : DeviceRow(k)'
  /\ \A k \in DOMAIN failedLogins' \ DOMAIN failedLogins :
       AttemptRow(k)' /\ failedLogins'[k].call # 0

LEMMA ATOGoes ==
  ASSUME ATOInv, NEW c \in DOMAIN loginCalls, NEW call \in ATO!Call,
         loginCalls' = [loginCalls EXCEPT ![c] = call]
  PROVE  ATOCallGoes(c, call)
BY ATOFacts, Replaced DEF ATOCallGoes

LEMMA ATOStep ==
  ASSUME ATOInv, ATOTablesGrow, ATONewRows,
         NEW c \in DOMAIN loginCalls, NEW call \in ATO!Call, ATOCallGoes(c, call),
         ATOCallIsFine(c, call)',
         loginCalls[c].at # "look" => call.at # "look" /\ SameFindings(loginCalls[c], call),
         loginEvents' \subseteq loginEvents \cup {c}, loginAlerts' \subseteq loginEvents'
  PROVE  ATOInv'
<1>1. ATOCallsGo
  <2> SUFFICES ASSUME NEW k \in DOMAIN loginCalls, loginCalls[k].at # "look"
      PROVE  /\ k \in DOMAIN loginCalls' /\ loginCalls'[k].at # "look"
             /\ SameFindings(loginCalls[k], loginCalls'[k])
    BY DEF ATOCallsGo
  <2>1. SameFindings(loginCalls[k], loginCalls[k])
    BY DEF SameFindings
  <2> QED BY <2>1 DEF ATOCallGoes
<1>2. /\ \A i \in DOMAIN logins : LoginRow(i)'
      /\ \A k \in DOMAIN fingerprints : DeviceRow(k)'
      /\ \A k \in DOMAIN failedLogins : AttemptRow(k)'
  BY <1>1, ATORowsKeep DEF ATOCallGoes
<1>3. LaterAreOfCalls'
  <2> SUFFICES ASSUME NEW i \in DOMAIN failedLogins', NEW k \in DOMAIN failedLogins', i < k,
                      failedLogins'[i].call # 0
      PROVE  failedLogins'[k].call # 0
    BY DEF LaterAreOfCalls
  <2>1. CASE k \in DOMAIN failedLogins
    <3>1. i \in DOMAIN failedLogins
      BY <2>1, ATOFacts, ATODomainsGrow
    <3> QED BY <2>1, <3>1, ATOFacts DEF ATORows, LaterAreOfCalls, ATOTablesGrow
  <2>2. CASE k \notin DOMAIN failedLogins
    BY <2>2 DEF ATONewRows
  <2> QED BY <2>1, <2>2
<1>4. ATORows'
  BY <1>2, <1>3 DEF ATORows, ATONewRows
<1>5. ASSUME NEW k \in DOMAIN loginCalls' PROVE ATOCallIsFine(k, loginCalls[k])'
  <2>1. CASE k = c
    <3>1. ATOCallIsFine(k, loginCalls[k])' = ATOCallIsFine(c, call)'
      BY <2>1 DEF ATOCallGoes
    <3> QED BY <3>1
  <2>2. CASE k # c
    <3>1. PICK other \in ATO!Call : other = loginCalls[k] /\ other = loginCalls'[k]
      BY <2>2, ATOFacts DEF ATOCallGoes
    <3>2. ATOCallIsFine(k, other)
      BY <3>1, ATOFacts DEF ATOCallGoes
    <3>3. ATOCallIsFine(k, other)'
      BY <2>2, <3>2, ATOOthersKeep
    <3>4. ATOCallIsFine(k, loginCalls[k])' = ATOCallIsFine(k, other)'
      BY <3>1
    <3> QED BY <3>3, <3>4
  <2> QED BY <2>1, <2>2
<1>6. ATOTables'
  BY ATOFacts DEF ATOTables, ATOTablesGrow, ATOCallGoes
<1> QED BY <1>4, <1>5, <1>6, ATOFacts DEF ATOInv, ATOCallGoes

ATOSameTables == UNCHANGED <<logins, fingerprints, failedLogins, loginEvents, loginAlerts>>

LEMMA ATOTablesSame ==
  ASSUME ATOInv, ATOSameTables
  PROVE  ATOTablesGrow /\ ATONewRows
<1>1. ATOTablesGrow
  <2>1. Len(logins) \in Nat /\ Len(fingerprints) \in Nat /\ Len(failedLogins) \in Nat
    BY ATOFacts
  <2> QED BY <2>1, ATOFacts DEF ATOTablesGrow, ATOSameTables
<1> QED BY <1>1 DEF ATONewRows, ATOSameTables

(* The statement that reads: nothing on record is the call's own yet.      *)
LEMMA ATOReads ==
  ASSUME ATOInv, ATOSameTables, NEW c \in DOMAIN loginCalls, loginCalls[c].at = "look",
         NEW call \in ATO!Call, ATOCallGoes(c, call),
         call.req = loginCalls[c].req, call.began = loginCalls[c].began,
         call.at \in {"commit", "login", "enrol", "event"}, ATOCallIsStaged(call),
         HistoryIsJudged(c, call),
         call.req.kind = "stuffing" /\ call.at = "commit" =>
           \E rows \in SUBSET DOMAIN failedLogins : Sums(call, rows),
         call.at = "enrol" => ATO!DeviceRows(call.req) \cap (1..call.began.fingerprints) = {},
         "matched" \in call.flags =>
           \E i \in ATO!DeviceRows(call.req) : fingerprints[i].fingerprint = call.req.fingerprint
  PROVE  ATOInv'
<1>1. ATOTablesGrow /\ ATONewRows
  BY ATOTablesSame
<1>2. BeganEarlier(call)
  BY ATOFacts DEF ATOCallIsFine, BeganEarlier
<1>3. AlertsFollow(c, call)
  <2>1. c \notin loginEvents /\ c \notin loginAlerts
    BY ATOFacts DEF ATOCallIsFine, AlertsFollow
  <2> QED BY <2>1 DEF AlertsFollow
<1>4. ATOCallIsFine(c, call)
  BY <1>2, <1>3 DEF ATOCallIsFine
<1>5. ATOCallIsFine(c, call)'
  BY <1>1, <1>4, ATOOthersKeep DEF ATOSameTables
<1>6. loginEvents' \subseteq loginEvents \cup {c} /\ loginAlerts' \subseteq loginEvents'
  BY ATOFacts DEF ATOSameTables
<1> QED BY <1>1, <1>5, <1>6, ATOStep

(* The other statements: the call goes on or ends, with what it has found. *)
LEMMA ATOWrites ==
  ASSUME ATOInv, ATOTablesGrow, ATONewRows,
         NEW c \in DOMAIN loginCalls, NEW call \in ATO!Call, ATOCallGoes(c, call),
         SameFindings(loginCalls[c], call),
         \/ call.at \in {"error", "lost"}
         \/ /\ loginCalls[c].at \in {"commit", "login", "enrol", "event", "alert"}
            /\ call.at \in {"event", "alert", "done"},
         ATOCallIsStaged(call), AlertsFollow(c, call)',
         loginEvents' \subseteq loginEvents \cup {c}, loginAlerts' \subseteq loginEvents'
  PROVE  ATOInv'
<1>1. PICK old \in ATO!Call : old = loginCalls[c] /\ ATOCallIsFine(c, old)
  BY ATOFacts
<1>2. SameFindings(old, call)
  BY <1>1
<1>3. /\ BeganEarlier(call)' /\ HistoryIsJudged(c, call)'
      /\ call.req.kind = "stuffing" /\ call.at = "commit" =>
           (\E rows \in SUBSET DOMAIN failedLogins : Sums(call, rows))'
      /\ call.at = "enrol" =>
           (ATO!DeviceRows(call.req) \cap (1..call.began.fingerprints) = {})'
      /\ "matched" \in call.flags =>
           (\E i \in ATO!DeviceRows(call.req) : fingerprints[i].fingerprint = call.req.fingerprint)'
  BY <1>1, <1>2, ATOGoesOn
<1>4. ATOCallIsStaged(call)'
  BY DEF ATOCallIsStaged
<1>5. ATOCallIsFine(c, call)'
  BY <1>3, <1>4 DEF ATOCallIsFine
<1>6. call.at # "look"
  OBVIOUS
<1> QED BY <1>5, <1>6, ATOStep

ATOLooked(c, flags, score, stage) ==
  \E call \in ATO!Call :
    /\ ATOCallGoes(c, call) /\ call.req = loginCalls[c].req
    /\ call.began = loginCalls[c].began /\ call.at = stage /\ call.flags = flags
    /\ call.score = score /\ ATOSameTables

LEMMA ATOJudged ==
  ASSUME ATOInv, NEW c, c \in DOMAIN loginCalls, NEW flags, flags \in SUBSET ATO!Flags,
         NEW score, score \in 0..100, NEW stage, stage \in ATO!Stages,
         ATO!Judged(c, flags, score, stage)
  PROVE  ATOLooked(c, flags, score, stage)
<1>1. PICK old \in ATO!Call : old = loginCalls[c]
  BY ATOFacts
<1>2. PICK call : call = [old EXCEPT !.flags = flags, !.score = score, !.at = stage]
  OBVIOUS
<1>3. /\ call \in ATO!Call /\ call.req = old.req /\ call.began = old.began /\ call.at = stage
      /\ call.flags = flags /\ call.score = score
  BY <1>2 DEF ATO!Call
<1>4. loginCalls' = [loginCalls EXCEPT ![c] = call]
  BY <1>1, <1>2 DEF ATO!Judged
<1>5. ATOCallGoes(c, call)
  BY <1>3, <1>4, ATOGoes
<1>6. ATOSameTables
  BY DEF ATO!Judged, ATO!tables, ATOSameTables
<1> QED BY <1>1, <1>3, <1>5, <1>6 DEF ATOLooked

(* What the history shows, in terms of the rows.                           *)
LEMMA HistoryFlagsMean ==
  ASSUME NEW req
  PROVE  /\ "device" \in ATO!HistoryFlags(req) <=> SameDevice(req) = {}
         /\ "city" \in ATO!HistoryFlags(req) <=> SameCity(req) = {}
         /\ ATO!HistoryFlags(req) \subseteq {"device", "city", "addresses", "velocity"}
         /\ "velocity" \in ATO!HistoryFlags(req) => req.kind = "takeover"
<1>1. PICK device, city : /\ device = ATO!With(ATO!Recent(req), "device", req.device)
                          /\ city = ATO!With(ATO!Recent(req), "city", req.city)
  OBVIOUS
<1>2. device = SameDevice(req) /\ city = SameCity(req)
  BY <1>1 DEF ATO!With, SameDevice, SameCity
<1>3. PICK many \in BOOLEAN :
        many <=> ATO!Cardinality({logins[i].address : i \in ATO!Recent(req)}) >= 3
  OBVIOUS
<1>4. PICK fast \in BOOLEAN :
        fast <=> req.kind = "takeover" /\ ATO!Cardinality(ATO!Recent(req)) >= ManyLogins
  OBVIOUS
<1>5. ATO!HistoryFlags(req) =
        ((ATO!Flag("device", device = {}) \cup ATO!Flag("city", city = {}))
        \cup ATO!Flag("addresses", many)) \cup ATO!Flag("velocity", fast)
  BY <1>1, <1>3, <1>4 DEF ATO!HistoryFlags, ATO!Flag
<1> QED BY <1>2, <1>4, <1>5 DEF ATO!Flag

LEMMA PointsOfHistory ==
  ASSUME NEW flag \in {"device", "city", "addresses", "velocity"}
  PROVE  /\ ATO!Points["takeover"][flag] \in Nat
         /\ flag # "velocity" => ATO!Points["login"][flag] \in Nat
BY DEF ATO!Points

LEMMA ATOLookAtHistory ==
  ASSUME ATOInv, NEW c \in DOMAIN loginCalls, ATO!LookAtHistory(c)
  PROVE  ATOInv'
<1>1. PICK old \in ATO!Call : old = loginCalls[c] /\ ATOCallIsFine(c, old)
  BY ATOFacts
<1>2. PICK req \in ATO!Request : req = old.req
  BY DEF ATO!Call
<1>3. PICK flags : flags = ATO!HistoryFlags(req)
  OBVIOUS
<1>4. PICK stage : stage = IF req.kind = "takeover" THEN "commit" ELSE "login"
  OBVIOUS
<1>5. PICK score : score = ATO!Score(req.kind, flags)
  OBVIOUS
<1>6. /\ loginCalls[c].at = "look" /\ req.kind \in {"takeover", "login"}
      /\ ATO!Judged(c, flags, score, stage)
  BY <1>1, <1>2, <1>3, <1>4, <1>5 DEF ATO!LookAtHistory
<1>7. flags \in SUBSET ATO!Flags /\ "matched" \notin flags
  BY <1>3, HistoryFlagsMean DEF ATO!Flags
<1>8. score \in 0..100
  <2>1. ASSUME NEW flag \in flags PROVE ATO!Points[req.kind][flag] \in Nat
    <3>1. flag \in {"device", "city", "addresses", "velocity"}
      BY <1>3, HistoryFlagsMean
    <3>2. flag = "velocity" => req.kind = "takeover"
      BY <1>3, HistoryFlagsMean
    <3> QED BY <1>6, <3>1, <3>2, PointsOfHistory
  <2> QED BY <1>5, <1>7, <2>1, LoginScoreInRange
<1>9. stage \in ATO!Stages /\ (stage = "commit" \/ stage = "login")
  BY <1>4 DEF ATO!Stages
<1>a. ATOLooked(c, flags, score, stage)
  BY <1>6, <1>7, <1>8, <1>9, ATOJudged
<1>10. PICK call \in ATO!Call :
         /\ ATOCallGoes(c, call) /\ call.req = loginCalls[c].req
         /\ call.began = loginCalls[c].began /\ call.at = stage /\ call.flags = flags
         /\ call.score = score /\ ATOSameTables
  BY <1>a DEF ATOLooked
<1>11. call.req = req
  BY <1>1, <1>2, <1>10
<1>12. HistoryIsJudged(c, call)
  <2>1. \A i \in DOMAIN logins : logins[i].call # c
    <3> SUFFICES ASSUME NEW i \in DOMAIN logins, logins[i].call = c PROVE FALSE
      OBVIOUS
    <3>1. c # 0 /\ LoginRow(i)
      BY ATOFacts DEF ATORows
    <3> QED BY <1>6, <3>1 DEF LoginRow
  <2>2. SameDevice(req) \subseteq DOMAIN logins /\ SameCity(req) \subseteq DOMAIN logins
    BY DEF SameDevice, SameCity, ATO!Recent
  <2> QED BY <1>3, <1>10, <1>11, <2>1, <2>2, HistoryFlagsMean DEF HistoryIsJudged
<1>13. ATOCallIsStaged(call)
  BY <1>4, <1>6, <1>10, <1>11 DEF ATOCallIsStaged
<1> QED BY <1>6, <1>7, <1>9, <1>10, <1>11, <1>12, <1>13, ATOReads

LEMMA ATOFound ==
  ASSUME ATOInv, NEW c \in DOMAIN loginCalls, loginCalls[c].at = "look",
         loginCalls[c].req.kind \in {"session", "travel"}, NEW flags,
         flags \subseteq {"device", "address", "city", "travel"},
         loginCalls[c].req.kind = "session" => "travel" \notin flags,
         loginCalls[c].req.kind = "travel" => flags \subseteq {"travel"},
         ATO!Judged(c, flags, ATO!Score(loginCalls[c].req.kind, flags), "login")
  PROVE  ATOInv'
<1>1. PICK kind : kind = loginCalls[c].req.kind
  OBVIOUS
<1>2. flags \in SUBSET ATO!Flags /\ "matched" \notin flags
  BY DEF ATO!Flags
<1>3. PICK score : score = ATO!Score(kind, flags)
  OBVIOUS
<1>4. score \in 0..100
  <2>1. ASSUME NEW flag \in flags PROVE ATO!Points[kind][flag] \in Nat
    <3>1. kind = "session" => ATO!Points["session"][flag] \in Nat
      BY <1>1 DEF ATO!Points
    <3>2. kind = "travel" => ATO!Points["travel"][flag] \in Nat
      <4>1. kind = "travel" => flag = "travel"
        BY <1>1
      <4>2. ATO!Points["travel"]["travel"] \in Nat
        BY DEF ATO!Points
      <4> QED BY <4>1, <4>2
    <3> QED BY <1>1, <3>1, <3>2
  <2> QED BY <1>2, <1>3, <2>1, LoginScoreInRange
<1>5. "login" \in ATO!Stages /\ ATO!Judged(c, flags, score, "login")
  BY <1>1, <1>3 DEF ATO!Stages
<1>a. ATOLooked(c, flags, score, "login")
  BY <1>2, <1>4, <1>5, ATOJudged
<1>6. PICK call \in ATO!Call :
        /\ ATOCallGoes(c, call) /\ call.req = loginCalls[c].req
        /\ call.began = loginCalls[c].began /\ call.at = "login" /\ call.flags = flags
        /\ call.score = score /\ ATOSameTables
  BY <1>a DEF ATOLooked
<1>7. call.req.kind \in {"session", "travel"}
  BY <1>6
<1>8. HistoryIsJudged(c, call) /\ ATOCallIsStaged(call)
  BY <1>6, <1>7 DEF HistoryIsJudged, ATOCallIsStaged
<1> QED BY <1>2, <1>6, <1>7, <1>8, ATOReads

LEMMA ATOLookAtPrevious ==
  ASSUME ATOInv, NEW c \in DOMAIN loginCalls, ATO!LookAtPrevious(c)
  PROVE  ATOInv'
<1>1. PICK req : req = loginCalls[c].req
  OBVIOUS
<1>2. loginCalls[c].at = "look" /\ req.kind \in {"session", "travel"}
  BY <1>1 DEF ATO!LookAtPrevious
<1>3. \/ ATO!Judged(c, {}, ATO!Score(req.kind, {}), "login")
      \/ \E i \in ATO!Latest(req) :
           \/ /\ req.kind = "session"
              /\ ATO!Judged(c, ATO!SessionFlags(req, logins[i]),
                            ATO!Score(req.kind, ATO!SessionFlags(req, logins[i])), "login")
           \/ /\ req.kind # "session"
              /\ ATO!Judged(c, ATO!TravelFlags(req, logins[i]),
                            ATO!Score(req.kind, ATO!TravelFlags(req, logins[i])), "login")
  BY <1>1 DEF ATO!LookAtPrevious
<1>4. CASE ATO!Judged(c, {}, ATO!Score(req.kind, {}), "login")
  <2>1. PICK flags : flags = {}
    OBVIOUS
  <2> QED BY <1>1, <1>2, <1>4, <2>1, ATOFound
<1>5. ASSUME NEW i, req.kind = "session", NEW flags, flags = ATO!SessionFlags(req, logins[i]),
             ATO!Judged(c, flags, ATO!Score(req.kind, flags), "login")
      PROVE  ATOInv'
  <2>1. flags \subseteq {"device", "address", "city"}
    BY <1>5 DEF ATO!SessionFlags, ATO!Flag
  <2> QED BY <1>1, <1>2, <1>5, <2>1, ATOFound
<1>6. ASSUME NEW i, req.kind # "session", NEW flags, flags = ATO!TravelFlags(req, logins[i]),
             ATO!Judged(c, flags, ATO!Score(req.kind, flags), "login")
      PROVE  ATOInv'
  <2>1. flags \subseteq {"travel"}
    BY <1>6 DEF ATO!TravelFlags, ATO!Flag
  <2> QED BY <1>1, <1>2, <1>6, <2>1, ATOFound
<1> QED BY <1>3, <1>4, <1>5, <1>6

LEMMA ATOSumUp ==
  ASSUME ATOInv, NEW c \in DOMAIN loginCalls, ATO!SumUp(c)
  PROVE  ATOInv'
<1>1. PICK old \in ATO!Call : old = loginCalls[c] /\ ATOCallIsFine(c, old)
  BY ATOFacts
<1>2. PICK req \in ATO!Request : req = old.req
  BY DEF ATO!Call
<1>3. PICK rows : rows = ATO!OnRecord(req)
  OBVIOUS
<1>4. rows \subseteq DOMAIN failedLogins /\ IsFiniteSet(rows)
  <2>1. rows \subseteq DOMAIN failedLogins
    BY <1>3 DEF ATO!OnRecord
  <2> QED BY <2>1, ATOFacts, Domain, FS_Subset
<1>5. PICK failed \in Nat : failed = req.failed + ATO!Failed(failedLogins, rows)
  <2>1. PICK f : f = [i \in rows |-> failedLogins[i].failed]
    OBVIOUS
  <2>2. f \in [rows -> Nat] /\ \A i \in rows : f[i] = failedLogins[i].failed
    BY <1>4, <2>1, ATOFacts DEF ATO!Attempt
  <2>3. ATO!Failed(failedLogins, rows) \in Nat
    BY <1>4, <2>2, FailedIsSum
  <2>4. req.failed \in Nat
    BY DEF ATO!Request
  <2> QED BY <2>3, <2>4
<1>a. PICK names : names = NamesOf(req.user, failedLogins, rows)
  OBVIOUS
<1>b. names = {req.user} \cup {failedLogins[i].user : i \in rows}
  BY <1>a DEF NamesOf
<1>6. PICK score : score = ATO!StuffingScore(failed, ATO!Cardinality(names))
  OBVIOUS
<1>7. score \in 0..100
  BY <1>4, <1>a, <1>6, StuffingInRange
<1>8. /\ loginCalls[c].at = "look" /\ req.kind = "stuffing"
      /\ ATO!Judged(c, {}, score, "commit")
  BY <1>1, <1>2, <1>3, <1>5, <1>b, <1>6 DEF ATO!SumUp
<1>9. PICK flags : flags = {}
  OBVIOUS
<1>10. flags \in SUBSET ATO!Flags /\ "commit" \in ATO!Stages /\ ATO!Judged(c, flags, score, "commit")
  BY <1>8, <1>9 DEF ATO!Stages
<1>11. ATOLooked(c, flags, score, "commit")
  BY <1>7, <1>10, ATOJudged
<1>12. PICK call \in ATO!Call :
         /\ ATOCallGoes(c, call) /\ call.req = loginCalls[c].req
         /\ call.began = loginCalls[c].began /\ call.at = "commit" /\ call.flags = flags
         /\ call.score = score /\ ATOSameTables
  BY <1>11 DEF ATOLooked
<1>13. call.req = req
  BY <1>1, <1>2, <1>12
<1>14. Sums(call, rows)
  BY <1>3, <1>5, <1>b, <1>6, <1>12, <1>13 DEF Sums, ATO!Cardinality, Cardinality
<1>15. HistoryIsJudged(c, call) /\ ATOCallIsStaged(call)
  BY <1>8, <1>12, <1>13 DEF HistoryIsJudged, ATOCallIsStaged
<1>16. "matched" \notin call.flags
  BY <1>9, <1>12
<1> QED BY <1>4, <1>8, <1>12, <1>14, <1>15, <1>16, ATOReads

LEMMA LastRow ==
  ASSUME NEW n \in Nat, NEW S \in SUBSET (1..n), S # {}
  PROVE  ATO!Max(S) \in S
<1>1. PICK T : T = {n - x : x \in S}
  OBVIOUS
<1>2. T \in SUBSET Nat /\ T # {}
  <2>1. PICK y : y \in S
    OBVIOUS
  <2>2. n - y \in T
    BY <1>1, <2>1
  <2>3. \A x \in S : n - x \in Nat
    OBVIOUS
  <2> QED BY <1>1, <2>2, <2>3
<1>3. PICK t \in T : \A y \in T : t <= y
  BY <1>2, LeastNat
<1>4. PICK x \in S : t = n - x
  BY <1>1
<1>5. \A y \in S : x >= y
  <2> SUFFICES ASSUME NEW y \in S PROVE x >= y
    OBVIOUS
  <2>1. n - y \in T /\ x \in 1..n /\ y \in 1..n
    BY <1>1
  <2>2. t <= n - y
    BY <1>3, <2>1
  <2> QED BY <1>4, <2>1, <2>2
<1> QED BY <1>5 DEF ATO!Max

LEMMA ATOLookAtDevice ==
  ASSUME ATOInv, NEW c \in DOMAIN loginCalls, ATO!LookAtDevice(c)
  PROVE  ATOInv'
<1>1. PICK old \in ATO!Call : old = loginCalls[c] /\ ATOCallIsFine(c, old)
  BY ATOFacts
<1>2. PICK req : req = old.req
  OBVIOUS
<1>3. PICK known : known = ATO!DeviceRows(req)
  OBVIOUS
<1>4. PICK last : last = ATO!Max(known)
  OBVIOUS
<1>5. PICK matched \in BOOLEAN :
        matched <=> known # {} /\ fingerprints[last].fingerprint = req.fingerprint
  OBVIOUS
<1>6. PICK trusted \in BOOLEAN : trusted <=> matched /\ fingerprints[last].trusted = TRUE
  OBVIOUS
<1>7. PICK flags : flags = ATO!Flag("matched", matched) \cup ATO!Flag("trusted", trusted)
  OBVIOUS
<1>8. PICK score : score = IF trusted THEN 0 ELSE 30
  OBVIOUS
<1>9. PICK stage : stage = IF ATO!Enrols(known, matched) THEN "enrol" ELSE "event"
  OBVIOUS
<1>10. known # {} => last \in known
  <2>1. known \in SUBSET (1..Len(fingerprints)) /\ Len(fingerprints) \in Nat
    BY <1>3, ATOFacts, Domain DEF ATO!DeviceRows
  <2> QED BY <1>4, <2>1, LastRow
<1>11. known \subseteq DOMAIN fingerprints
  BY <1>3 DEF ATO!DeviceRows
<1>12. known # {} => fingerprints[last].trusted \in BOOLEAN
  BY <1>10, <1>11, ATOFacts DEF ATO!Fingerprint
<1>13. loginCalls[c].at = "look" /\ req.kind = "device"
  BY <1>1, <1>2 DEF ATO!LookAtDevice
<1>14. ATO!Judged(c, flags, score, stage)
  <2>1. PICK m : m = (known # {} /\ fingerprints[last].fingerprint = req.fingerprint)
    OBVIOUS
  <2>2. m = matched
    BY <1>5, <2>1
  <2>3. PICK t : t = (m /\ fingerprints[last].trusted)
    OBVIOUS
  <2>4. t = trusted
    BY <1>5, <1>6, <1>12, <2>2, <2>3
  <2>5. ATO!Judged(c, ATO!Flag("matched", m) \cup ATO!Flag("trusted", t),
                   IF t THEN 0 ELSE 30, IF ATO!Enrols(known, m) THEN "enrol" ELSE "event")
    BY <1>1, <1>2, <1>3, <1>4, <2>1, <2>3 DEF ATO!LookAtDevice
  <2> QED BY <1>7, <1>8, <1>9, <2>2, <2>4, <2>5
<1>15. /\ flags \in SUBSET ATO!Flags /\ score \in 0..100 /\ stage \in ATO!Stages
       /\ "matched" \in flags => matched
  BY <1>7, <1>8, <1>9 DEF ATO!Flags, ATO!Flag, ATO!Stages
<1>16. ATOLooked(c, flags, score, stage)
  BY <1>14, <1>15, ATOJudged
<1>17. PICK call \in ATO!Call :
         /\ ATOCallGoes(c, call) /\ call.req = loginCalls[c].req
         /\ call.began = loginCalls[c].began /\ call.at = stage /\ call.flags = flags
         /\ call.score = score /\ ATOSameTables
  BY <1>16 DEF ATOLooked
<1>18. call.req = req /\ (call.at = "enrol" \/ call.at = "event")
  BY <1>1, <1>2, <1>9, <1>17
<1>19. HistoryIsJudged(c, call) /\ ATOCallIsStaged(call)
  BY <1>13, <1>18 DEF HistoryIsJudged, ATOCallIsStaged
<1>20. call.at = "enrol" => ATO!DeviceRows(call.req) \cap (1..call.began.fingerprints) = {}
  <2>1. stage = "enrol" => known = {}
    BY <1>9 DEF ATO!Enrols
  <2> QED BY <1>3, <1>17, <1>18, <2>1
<1>21. "matched" \in call.flags =>
         \E i \in ATO!DeviceRows(call.req) : fingerprints[i].fingerprint = call.req.fingerprint
  BY <1>3, <1>5, <1>10, <1>15, <1>17, <1>18
<1> QED BY <1>13, <1>17, <1>18, <1>19, <1>20, <1>21, ATOReads

ATOMoved(c, stages) ==
  \E call \in ATO!Call :
    ATOCallGoes(c, call) /\ call.at \in stages /\ SameFindings(loginCalls[c], call)

LEMMA ATOGoesTo ==
  ASSUME ATOInv, NEW c, c \in DOMAIN loginCalls, NEW stage, stage \in ATO!Stages \cup ATO!Ends,
         ATO!Goes(c, stage)
  PROVE  ATOMoved(c, {stage})
<1>1. PICK old \in ATO!Call : old = loginCalls[c]
  BY ATOFacts
<1>2. PICK call : call = [old EXCEPT !.at = stage]
  OBVIOUS
<1>3. call \in ATO!Call /\ call.at = stage /\ SameFindings(old, call)
  BY <1>2 DEF ATO!Call, SameFindings
<1>4. loginCalls' = [loginCalls EXCEPT ![c] = call]
  BY <1>1, <1>2 DEF ATO!Goes
<1>5. ATOCallGoes(c, call)
  BY <1>3, <1>4, ATOGoes
<1> QED BY <1>1, <1>3, <1>5 DEF ATOMoved

LEMMA ATOOutcome ==
  ASSUME ATOInv, NEW c, c \in DOMAIN loginCalls, NEW stage, stage \in ATO!Stages \cup ATO!Ends,
         ATO!Outcome(c, stage)
  PROVE  ATOMoved(c, {stage, "error"})
<1>1. "error" \in ATO!Stages \cup ATO!Ends
  BY DEF ATO!Ends
<1>2. ATO!Goes(c, stage) \/ ATO!Goes(c, "error")
  BY DEF ATO!Outcome
<1>3. CASE ATO!Goes(c, stage)
  <2>1. ATOMoved(c, {stage})
    BY <1>3, ATOGoesTo
  <2> QED BY <2>1 DEF ATOMoved
<1>4. CASE ATO!Goes(c, "error")
  <2>1. PICK ending : ending = "error"
    OBVIOUS
  <2>2. ATOMoved(c, {ending})
    BY <1>1, <1>4, <2>1, ATOGoesTo
  <2> QED BY <2>1, <2>2 DEF ATOMoved
<1> QED BY <1>2, <1>3, <1>4

(* The table a statement adds a row to, and the ones it leaves.            *)
ATOAdds(more, less, S, row) ==
  /\ more \in Seq(S) /\ Len(more) = Len(less) + 1 /\ DOMAIN more = DOMAIN less \cup {Len(less) + 1}
  /\ Len(less) + 1 \notin DOMAIN less /\ more[Len(less) + 1] = row
  /\ \A i \in DOMAIN less : more[i] = less[i]

LEMMA ATORowAdded ==
  ASSUME NEW S, NEW less \in Seq(S), NEW row \in S, NEW more, more = Append(less, row)
  PROVE  ATOAdds(more, less, S, row)
BY Appended DEF ATOAdds

LEMMA LoginOfCall ==
  ASSUME ATOInv, NEW c \in DOMAIN loginCalls
  PROVE  /\ ATO!LoginOf(c) \in ATO!Login /\ ATO!LoginOf(c).call = c
         /\ ATO!AttemptOf(c) \in ATO!Attempt /\ ATO!AttemptOf(c).call = c
<1>1. loginCalls[c].req \in ATO!Request /\ c \in 0..MaxLoginCalls
  BY ATOFacts, ATOConstants DEF ATO!Call
<1>2. PICK req \in ATO!Request : req = loginCalls[c].req
  BY <1>1
<1> QED BY <1>1, <1>2 DEF ATO!LoginOf, ATO!AttemptOf, ATO!Login, ATO!Attempt, ATO!Request

(* The statement that stores a login: within a transaction or on its own.  *)
LEMMA LoginIsStored ==
  ASSUME ATOInv, NEW c \in DOMAIN loginCalls, NEW call \in ATO!Call, ATOCallGoes(c, call),
         call.at # "look", logins' = Append(logins, ATO!LoginOf(c)),
         UNCHANGED <<fingerprints, failedLogins>>,
         loginEvents \subseteq loginEvents', loginAlerts \subseteq loginAlerts'
  PROVE  ATOTablesGrow /\ ATONewRows
<1>1. PICK row \in ATO!Login : row = ATO!LoginOf(c) /\ row.call = c
  BY LoginOfCall
<1>2. ATOAdds(logins', logins, ATO!Login, row)
  BY <1>1, ATOFacts, ATORowAdded
<1>3. Len(fingerprints) \in Nat /\ Len(failedLogins) \in Nat /\ Len(logins) \in Nat
  BY ATOFacts
<1>4. ATOTablesGrow
  BY <1>2, <1>3, ATOFacts DEF ATOTablesGrow, ATOAdds
<1>5. ASSUME NEW i \in DOMAIN logins' \ DOMAIN logins PROVE LoginRow(i)'
  <2>1. logins'[i].call = c
    BY <1>1, <1>2, <1>5 DEF ATOAdds
  <2> QED BY <2>1 DEF LoginRow, ATOCallGoes
<1>6. ATONewRows
  BY <1>5 DEF ATONewRows
<1> QED BY <1>4, <1>6

LEMMA AttemptIsStored ==
  ASSUME ATOInv, NEW c \in DOMAIN loginCalls, NEW call \in ATO!Call, ATOCallGoes(c, call),
         SameFindings(loginCalls[c], call), call.at # "look",
         loginCalls[c].at = "commit", loginCalls[c].req.kind = "stuffing",
         failedLogins' = Append(failedLogins, ATO!AttemptOf(c)),
         UNCHANGED <<fingerprints, logins>>,
         loginEvents' = loginEvents \cup {c}, loginAlerts \subseteq loginAlerts'
  PROVE  ATOTablesGrow /\ ATONewRows
<1>1. PICK row \in ATO!Attempt : row = ATO!AttemptOf(c) /\ row.call = c
  BY LoginOfCall
<1>2. ATOAdds(failedLogins', failedLogins, ATO!Attempt, row)
  BY <1>1, ATOFacts, ATORowAdded
<1>3. Len(fingerprints) \in Nat /\ Len(failedLogins) \in Nat /\ Len(logins) \in Nat
  BY ATOFacts
<1>4. ATOTablesGrow
  BY <1>2, <1>3, ATOFacts DEF ATOTablesGrow, ATOAdds
<1>5. PICK old \in ATO!Call : old = loginCalls[c] /\ ATOCallIsFine(c, old)
  BY ATOFacts
<1>6. PICK rows \in SUBSET DOMAIN failedLogins : Sums(old, rows)
  BY <1>5 DEF ATOCallIsFine
<1>7. SameFindings(old, call) /\ BeganEarlier(old)
  BY <1>5 DEF ATOCallIsFine
<1>8. Sums(call, rows)'
  BY <1>4, <1>6, <1>7, SumsKeep
<1>9. Sums(loginCalls[c], rows)'
  <2>1. Sums(loginCalls[c], rows)' = Sums(call, rows)'
    BY DEF ATOCallGoes
  <2> QED BY <1>8, <2>1
<1>10. ATO!AttemptOf(c)' = row
  <2>1. loginCalls'[c].req = loginCalls[c].req
    BY DEF ATOCallGoes, SameFindings
  <2> QED BY <1>1, <2>1 DEF ATO!AttemptOf
<1>11. ASSUME NEW k \in DOMAIN failedLogins' \ DOMAIN failedLogins
       PROVE  AttemptRow(k)' /\ failedLogins'[k].call # 0
  <2>1. failedLogins'[k] = row /\ k = Len(failedLogins) + 1
    BY <1>2, <1>11 DEF ATOAdds
  <2>2. rows \in SUBSET (1..(k - 1))
    BY <1>3, <1>6, <2>1, ATOFacts
  <2>3. c \in DOMAIN loginCalls' /\ loginCalls'[c].at # "look" /\ loginCalls'[c].req.kind = "stuffing"
    BY DEF ATOCallGoes, SameFindings
  <2>4. c # 0
    BY ATOFacts
  <2>5. /\ c \in loginEvents' /\ row = ATO!AttemptOf(c)'
        /\ \E some \in SUBSET (1..(k - 1)) : Sums(loginCalls[c], some)'
    BY <1>9, <1>10, <2>2
  <2>6. AttemptRow(k)'
    <3>1. failedLogins'[k].call = c
      BY <1>1, <2>1
    <3> QED BY <2>1, <2>3, <2>5, <3>1 DEF AttemptRow
  <2> QED BY <1>1, <2>1, <2>4, <2>6
<1>12. ATONewRows
  BY <1>11 DEF ATONewRows
<1> QED BY <1>4, <1>12

(* What a transaction adds to the events and the alerts.                   *)
LEMMA AlertsAreAdded ==
  ASSUME ATOInv, NEW c \in DOMAIN loginCalls, NEW call, SameFindings(loginCalls[c], call)
  PROVE  /\ ATO!AlertOf(c) \subseteq {c}
         /\ ATO!Severe(call) => ATO!AlertOf(c) = {c}
         /\ ATO!Severe(call)' = ATO!Severe(call)
BY DEF ATO!AlertOf, ATO!Severe, SameFindings

LEMMA ATOCommit ==
  ASSUME ATOInv, NEW c \in DOMAIN loginCalls, ATO!Commit(c)
  PROVE  ATOInv'
<1>1. PICK kind : kind = loginCalls[c].req.kind
  OBVIOUS
<1>2. /\ loginCalls[c].at = "commit" /\ ATO!Outcome(c, "done")
      /\ logins' = IF kind = "takeover" THEN Append(logins, ATO!LoginOf(c)) ELSE logins
      /\ failedLogins' = IF kind = "stuffing" THEN Append(failedLogins, ATO!AttemptOf(c))
                         ELSE failedLogins
      /\ loginEvents' = loginEvents \cup {c}
      /\ loginAlerts' = loginAlerts \cup ATO!AlertOf(c)
      /\ UNCHANGED fingerprints
  BY <1>1 DEF ATO!Commit
<1>3. kind \in {"takeover", "stuffing"}
  BY <1>1, <1>2, ATOFacts DEF ATOCallIsFine, ATOCallIsStaged
<1>4. PICK ending : ending = "done" /\ ending \in ATO!Stages \cup ATO!Ends /\ ATO!Outcome(c, ending)
  BY <1>2 DEF ATO!Ends
<1>5. ATOMoved(c, {ending, "error"})
  BY <1>4, ATOOutcome
<1>6. PICK call \in ATO!Call :
        /\ ATOCallGoes(c, call) /\ call.at \in {"done", "error"}
        /\ SameFindings(loginCalls[c], call)
  BY <1>4, <1>5 DEF ATOMoved
<1>7. /\ ATO!AlertOf(c) \subseteq {c}
      /\ ATO!Severe(call) => ATO!AlertOf(c) = {c}
      /\ ATO!Severe(call)' = ATO!Severe(call)
  BY <1>6, AlertsAreAdded
<1>8. loginEvents \subseteq loginEvents' /\ loginAlerts \subseteq loginAlerts' /\ call.at # "look"
  BY <1>2, <1>6
<1>9. ATOTablesGrow /\ ATONewRows
  <2>1. CASE kind = "takeover"
    BY <1>2, <1>6, <1>8, <2>1, LoginIsStored
  <2>2. CASE kind = "stuffing"
    BY <1>1, <1>2, <1>6, <1>8, <2>2, AttemptIsStored
  <2> QED BY <1>3, <2>1, <2>2
<1>10. ATOCallIsStaged(call)
  BY <1>6 DEF ATOCallIsStaged
<1>11. AlertsFollow(c, call)'
  <2>1. c \in loginEvents'
    BY <1>2
  <2>2. ATO!Severe(call)' => c \in loginAlerts'
    BY <1>2, <1>7
  <2> QED BY <1>6, <2>1, <2>2 DEF AlertsFollow
<1>12. loginEvents' \subseteq loginEvents \cup {c} /\ loginAlerts' \subseteq loginEvents'
  <2>1. loginAlerts \subseteq loginEvents
    BY ATOFacts
  <2>2. PICK alerted : alerted = ATO!AlertOf(c) /\ alerted \subseteq {c}
    BY <1>7
  <2>3. loginAlerts' = loginAlerts \cup alerted /\ loginEvents' = loginEvents \cup {c}
    BY <1>2, <2>2
  <2> QED BY <2>1, <2>2, <2>3
<1> QED BY <1>2, <1>6, <1>9, <1>10, <1>11, <1>12, ATOWrites

LEMMA ATOStoreLogin ==
  ASSUME ATOInv, NEW c \in DOMAIN loginCalls, ATO!StoreLogin(c)
  PROVE  ATOInv'
<1>1. /\ loginCalls[c].at = "login" /\ ATO!Outcome(c, "event")
      /\ logins' = Append(logins, ATO!LoginOf(c))
      /\ UNCHANGED <<fingerprints, failedLogins, loginEvents, loginAlerts>>
  BY DEF ATO!StoreLogin
<1>2. PICK next : next = "event" /\ next \in ATO!Stages \cup ATO!Ends /\ ATO!Outcome(c, next)
  BY <1>1 DEF ATO!Stages
<1>3. ATOMoved(c, {next, "error"})
  BY <1>2, ATOOutcome
<1>4. PICK call \in ATO!Call :
        /\ ATOCallGoes(c, call) /\ call.at \in {"event", "error"}
        /\ SameFindings(loginCalls[c], call)
  BY <1>2, <1>3 DEF ATOMoved
<1>5. ATOTablesGrow /\ ATONewRows
  BY <1>1, <1>4, LoginIsStored
<1>6. call.req.kind \notin {"takeover", "stuffing"}
  BY <1>1, <1>4, ATOFacts DEF ATOCallIsFine, ATOCallIsStaged, SameFindings
<1>7. ATOCallIsStaged(call) /\ AlertsFollow(c, call)'
  BY <1>4, <1>6 DEF ATOCallIsStaged, AlertsFollow
<1>8. loginEvents' \subseteq loginEvents \cup {c} /\ loginAlerts' \subseteq loginEvents'
  BY <1>1, ATOFacts
<1> QED BY <1>1, <1>4, <1>5, <1>7, <1>8, ATOWrites

LEMMA ATOEnrol ==
  ASSUME ATOInv, NEW c \in DOMAIN loginCalls, ATO!Enrol(c)
  PROVE  ATOInv'
<1>1. PICK req \in ATO!Request : req = loginCalls[c].req
  BY ATOFacts DEF ATO!Call
<1>2. PICK row : row = [tenant |-> req.tenant, user |-> req.user, device |-> req.device,
                        fingerprint |-> req.fingerprint, trusted |-> FALSE, call |-> c]
  OBVIOUS
<1>3. /\ loginCalls[c].at = "enrol" /\ ATO!Outcome(c, "event")
      /\ fingerprints' = Append(fingerprints, row)
      /\ UNCHANGED <<logins, failedLogins, loginEvents, loginAlerts>>
  BY <1>1, <1>2 DEF ATO!Enrol
<1>4. /\ row \in ATO!Fingerprint /\ row.call = c /\ row.tenant = req.tenant
      /\ row.user = req.user /\ row.device = req.device
  <2>1. c \in 0..MaxLoginCalls
    BY ATOFacts, ATOConstants
  <2> QED BY <1>2, <2>1 DEF ATO!Fingerprint, ATO!Request
<1>5. ATOAdds(fingerprints', fingerprints, ATO!Fingerprint, row)
  BY <1>3, <1>4, ATOFacts, ATORowAdded
<1>6. PICK next : next = "event" /\ next \in ATO!Stages \cup ATO!Ends /\ ATO!Outcome(c, next)
  BY <1>3 DEF ATO!Stages
<1>7. ATOMoved(c, {next, "error"})
  BY <1>6, ATOOutcome
<1>8. PICK call \in ATO!Call :
        /\ ATOCallGoes(c, call) /\ call.at \in {"event", "error"}
        /\ SameFindings(loginCalls[c], call)
  BY <1>6, <1>7 DEF ATOMoved
<1>9. ATOTablesGrow
  <2>1. Len(fingerprints) \in Nat /\ Len(failedLogins) \in Nat /\ Len(logins) \in Nat
    BY ATOFacts
  <2> QED BY <1>3, <1>5, <2>1, ATOFacts DEF ATOTablesGrow, ATOAdds
<1>10. PICK b \in Nat : /\ b = loginCalls[c].began.fingerprints /\ b = call.began.fingerprints
                        /\ b <= Len(fingerprints)
  <2>1. loginCalls[c] \in ATO!Call /\ BeganEarlier(loginCalls[c])
    BY ATOFacts DEF ATOCallIsFine
  <2> QED BY <1>8, <2>1 DEF ATO!Call, BeganEarlier, SameFindings
<1>11. ATO!DeviceRows(row)' \cap (1..b) = {}
  <2>1. ATO!DeviceRows(req) \cap (1..b) = {}
    BY <1>1, <1>3, <1>10, ATOFacts DEF ATOCallIsFine
  <2>2. ATO!DeviceRows(row) = ATO!DeviceRows(req)
    BY <1>4 DEF ATO!DeviceRows, ATO!OfUser
  <2>3. ATO!DeviceRows(row) = ATO!DeviceRows(row)' \cap DOMAIN fingerprints
    BY <1>9, ATORowsStay
  <2>4. 1..b \subseteq DOMAIN fingerprints
    BY <1>10, ATOFacts
  <2> QED BY <2>1, <2>2, <2>3, <2>4
<1>12. ASSUME NEW k \in DOMAIN fingerprints' \ DOMAIN fingerprints PROVE DeviceRow(k)'
  <2>1. fingerprints'[k] = row
    BY <1>5, <1>12 DEF ATOAdds
  <2>2. c \in DOMAIN loginCalls' /\ loginCalls'[c] = call /\ call.at # "look"
    BY <1>8 DEF ATOCallGoes
  <2> QED BY <1>4, <1>10, <1>11, <2>1, <2>2 DEF DeviceRow
<1>13. ATONewRows
  BY <1>3, <1>12 DEF ATONewRows
<1>14. call.req.kind = "device"
  BY <1>3, <1>8, ATOFacts DEF ATOCallIsFine, ATOCallIsStaged, SameFindings
<1>15. ATOCallIsStaged(call) /\ AlertsFollow(c, call)'
  BY <1>8, <1>14 DEF ATOCallIsStaged, AlertsFollow
<1>16. loginEvents' \subseteq loginEvents \cup {c} /\ loginAlerts' \subseteq loginEvents'
  BY <1>3, ATOFacts
<1> QED BY <1>3, <1>8, <1>9, <1>13, <1>15, <1>16, ATOWrites

LEMMA ATORecordEvent ==
  ASSUME ATOInv, NEW c \in DOMAIN loginCalls, ATO!RecordEvent(c)
  PROVE  ATOInv'
<1>1. PICK next : next = IF ATO!AlertOf(c) = {} THEN "done" ELSE "alert"
  OBVIOUS
<1>2. /\ loginCalls[c].at = "event" /\ ATO!Outcome(c, next)
      /\ loginEvents' = loginEvents \cup {c}
      /\ UNCHANGED <<logins, fingerprints, failedLogins, loginAlerts>>
  BY <1>1 DEF ATO!RecordEvent
<1>3. next \in ATO!Stages \cup ATO!Ends
  BY <1>1 DEF ATO!Stages, ATO!Ends
<1>4. ATOMoved(c, {next, "error"})
  BY <1>2, <1>3, ATOOutcome
<1>5. PICK call \in ATO!Call :
        /\ ATOCallGoes(c, call) /\ call.at \in {next, "error"}
        /\ SameFindings(loginCalls[c], call)
  BY <1>4 DEF ATOMoved
<1>6. /\ ATO!Severe(call) => ATO!AlertOf(c) = {c}
      /\ ATO!Severe(call)' = ATO!Severe(call)
  BY <1>5, AlertsAreAdded
<1>7. ATOTablesGrow /\ ATONewRows
  <2>1. Len(fingerprints) \in Nat /\ Len(failedLogins) \in Nat /\ Len(logins) \in Nat
    BY ATOFacts
  <2>2. ATOTablesGrow
    BY <1>2, <2>1, ATOFacts DEF ATOTablesGrow
  <2> QED BY <1>2, <2>2 DEF ATONewRows
<1>8. call.req.kind \notin {"takeover", "stuffing"}
  BY <1>2, <1>5, ATOFacts DEF ATOCallIsFine, ATOCallIsStaged, SameFindings
<1>9. call.at \in {"event", "alert", "done"} \/ call.at \in {"error", "lost"}
  BY <1>1, <1>5
<1>10. call.at = "done" => ~ ATO!Severe(call)'
  <2>1. call.at = "done" => ATO!AlertOf(c) = {}
    BY <1>1, <1>5
  <2> QED BY <1>6, <2>1
<1>11. call.at # "look" /\ c \in loginEvents'
  BY <1>2, <1>9
<1>12. AlertsFollow(c, call)'
  BY <1>8, <1>10, <1>11 DEF AlertsFollow
<1>13. ATOCallIsStaged(call)
  BY <1>1, <1>5, <1>8 DEF ATOCallIsStaged
<1>14. loginEvents' \subseteq loginEvents \cup {c} /\ loginAlerts' \subseteq loginEvents'
  BY <1>2, ATOFacts
<1> QED BY <1>2, <1>5, <1>7, <1>9, <1>12, <1>13, <1>14, ATOWrites

LEMMA ATOCreateAlert ==
  ASSUME ATOInv, NEW c \in DOMAIN loginCalls, ATO!CreateAlert(c)
  PROVE  ATOInv'
<1>1. /\ loginCalls[c].at = "alert" /\ ATO!Outcome(c, "done")
      /\ loginAlerts' = loginAlerts \cup {c}
      /\ UNCHANGED <<logins, fingerprints, failedLogins, loginEvents>>
  BY DEF ATO!CreateAlert
<1>2. PICK ending : ending = "done" /\ ending \in ATO!Stages \cup ATO!Ends /\ ATO!Outcome(c, ending)
  BY <1>1 DEF ATO!Ends
<1>3. ATOMoved(c, {ending, "error"})
  BY <1>2, ATOOutcome
<1>4. PICK call \in ATO!Call :
        /\ ATOCallGoes(c, call) /\ call.at \in {"done", "error"}
        /\ SameFindings(loginCalls[c], call)
  BY <1>2, <1>3 DEF ATOMoved
<1>5. ATOTablesGrow /\ ATONewRows
  <2>1. Len(fingerprints) \in Nat /\ Len(failedLogins) \in Nat /\ Len(logins) \in Nat
    BY ATOFacts
  <2>2. ATOTablesGrow
    BY <1>1, <2>1, ATOFacts DEF ATOTablesGrow
  <2> QED BY <1>1, <2>2 DEF ATONewRows
<1>6. c \in loginEvents
  BY <1>1, ATOFacts DEF ATOCallIsFine, AlertsFollow
<1>7. loginEvents' \subseteq loginEvents \cup {c} /\ loginAlerts' \subseteq loginEvents'
  BY <1>1, <1>6, ATOFacts
<1>8. ATOCallIsStaged(call) /\ AlertsFollow(c, call)'
  BY <1>1, <1>4 DEF ATOCallIsStaged, AlertsFollow
<1> QED BY <1>1, <1>4, <1>5, <1>7, <1>8, ATOWrites

LEMMA ATOFails ==
  ASSUME ATOInv, NEW c \in DOMAIN loginCalls, ATO!Fails(c)
  PROVE  ATOInv'
<1>1. ATO!Goes(c, "error") /\ ATOSameTables
  BY DEF ATO!Fails, ATO!tables, ATOSameTables
<1>2. PICK ending : /\ ending = "error" /\ ending \in ATO!Stages \cup ATO!Ends
                    /\ ATO!Goes(c, ending)
  BY <1>1 DEF ATO!Ends
<1>3. ATOMoved(c, {ending})
  BY <1>2, ATOGoesTo
<1>4. PICK call \in ATO!Call :
        /\ ATOCallGoes(c, call) /\ call.at = "error" /\ SameFindings(loginCalls[c], call)
  BY <1>2, <1>3 DEF ATOMoved
<1>5. ATOTablesGrow /\ ATONewRows
  BY <1>1, ATOTablesSame
<1>6. ATOCallIsStaged(call)
  BY <1>4 DEF ATOCallIsStaged
<1>7. AlertsFollow(c, call)'
  <2>1. AlertsFollow(c, loginCalls[c])
    BY ATOFacts DEF ATOCallIsFine
  <2>2. PICK severe \in BOOLEAN : severe <=> ATO!Severe(call)
    OBVIOUS
  <2>3. (ATO!Severe(loginCalls[c]) <=> severe) /\ (ATO!Severe(call)' <=> severe)
    BY <1>4, <2>2 DEF ATO!Severe, SameFindings
  <2> QED BY <1>1, <1>4, <2>1, <2>3 DEF AlertsFollow, ATOSameTables, SameFindings
<1>8. loginEvents' \subseteq loginEvents \cup {c} /\ loginAlerts' \subseteq loginEvents'
  BY <1>1, ATOFacts DEF ATOSameTables
<1> QED BY <1>4, <1>5, <1>6, <1>7, <1>8, ATOWrites

LEMMA ATOStops ==
  ASSUME ATOInv, ATO!Stop
  PROVE  ATOInv'
<1>1. /\ ATOSameTables
      /\ loginCalls' = [c \in DOMAIN loginCalls |->
                          IF c \in ATO!InFlight THEN [loginCalls[c] EXCEPT !.at = "lost"]
                          ELSE loginCalls[c]]
  BY DEF ATO!Stop, ATO!tables, ATOSameTables
<1>2. ASSUME NEW k \in DOMAIN loginCalls
      PROVE  /\ loginCalls'[k] \in ATO!Call /\ SameFindings(loginCalls[k], loginCalls'[k])
             /\ loginCalls'[k].at = loginCalls[k].at \/ loginCalls'[k].at = "lost"
  <2>1. PICK old \in ATO!Call : old = loginCalls[k]
    BY <1>2, ATOFacts
  <2>2. PICK call : call = [old EXCEPT !.at = "lost"]
    OBVIOUS
  <2>3. call \in ATO!Call /\ call.at = "lost" /\ SameFindings(old, call) /\ SameFindings(old, old)
    BY <2>2 DEF ATO!Call, ATO!Ends, SameFindings
  <2>4. loginCalls'[k] = call \/ loginCalls'[k] = old
    BY <1>1, <1>2, <2>1, <2>2
  <2> QED BY <2>1, <2>3, <2>4
<1>3. loginCalls' \in Seq(ATO!Call) /\ Len(loginCalls') = Len(loginCalls)
      /\ DOMAIN loginCalls' = DOMAIN loginCalls
  <2>1. PICK t : t = loginCalls'
    OBVIOUS
  <2>2. t = [i \in DOMAIN loginCalls |-> t[i]]
    BY <1>1, <2>1
  <2>3. \A i \in DOMAIN loginCalls : t[i] \in ATO!Call
    BY <1>2, <2>1
  <2>4. DOMAIN t = DOMAIN loginCalls
    BY <1>1, <2>1
  <2>5. t \in Seq(ATO!Call) /\ Len(t) = Len(loginCalls)
    BY <2>2, <2>3, <2>4, ATOFacts, Mapped
  <2> QED BY <2>1, <2>4, <2>5
<1>4. ATOTablesGrow /\ ATONewRows
  BY <1>1, ATOTablesSame
<1>5. ATOCallsGo
  <2>1. ASSUME NEW k \in DOMAIN loginCalls, loginCalls[k].at # "look"
        PROVE  /\ k \in DOMAIN loginCalls' /\ loginCalls'[k].at # "look"
               /\ SameFindings(loginCalls[k], loginCalls'[k])
    BY <1>2, <1>3, <2>1
  <2> QED BY <2>1 DEF ATOCallsGo
<1>6. ATORows'
  <2>1. /\ \A i \in DOMAIN logins : LoginRow(i)'
        /\ \A k \in DOMAIN fingerprints : DeviceRow(k)'
        /\ \A k \in DOMAIN failedLogins : AttemptRow(k)'
    BY <1>3, <1>4, <1>5, ATORowsKeep
  <2>2. LaterAreOfCalls'
    BY <1>1, ATOFacts DEF ATORows, LaterAreOfCalls, ATOSameTables
  <2> QED BY <1>1, <2>1, <2>2 DEF ATORows, ATOSameTables
<1>7. ASSUME NEW k \in DOMAIN loginCalls' PROVE ATOCallIsFine(k, loginCalls[k])'
  <2>1. PICK old \in ATO!Call : old = loginCalls[k] /\ ATOCallIsFine(k, old)
    BY <1>3, <1>7, ATOFacts
  <2>2. PICK call \in ATO!Call :
          /\ call = loginCalls'[k] /\ SameFindings(old, call)
          /\ call.at = old.at \/ call.at = "lost"
    BY <1>2, <1>3, <1>7, <2>1
  <2>3. /\ BeganEarlier(call)' /\ HistoryIsJudged(k, call)'
        /\ call.req.kind = "stuffing" /\ call.at = "commit" =>
             (\E rows \in SUBSET DOMAIN failedLogins : Sums(call, rows))'
        /\ call.at = "enrol" =>
             (ATO!DeviceRows(call.req) \cap (1..call.began.fingerprints) = {})'
        /\ "matched" \in call.flags =>
             (\E i \in ATO!DeviceRows(call.req) : fingerprints[i].fingerprint = call.req.fingerprint)'
    BY <1>4, <2>1, <2>2, ATOGoesOn
  <2>4. ATOCallIsStaged(call)'
    BY <2>1, <2>2 DEF ATOCallIsFine, ATOCallIsStaged, SameFindings
  <2>5. AlertsFollow(k, call)'
    <3>1. AlertsFollow(k, old)
      BY <2>1 DEF ATOCallIsFine
    <3>2. PICK severe \in BOOLEAN : severe <=> ATO!Severe(call)
      OBVIOUS
    <3>3. (ATO!Severe(old) <=> severe) /\ (ATO!Severe(call)' <=> severe)
      BY <2>2, <3>2 DEF ATO!Severe, SameFindings
    <3> QED BY <1>1, <2>2, <3>1, <3>3 DEF AlertsFollow, ATOSameTables, SameFindings
  <2>6. ATOCallIsFine(k, call)'
    BY <2>3, <2>4, <2>5 DEF ATOCallIsFine
  <2>7. ATOCallIsFine(k, loginCalls[k])' = ATOCallIsFine(k, call)'
    BY <2>2
  <2> QED BY <2>6, <2>7
<1>8. ATOTables'
  BY <1>1, <1>3, ATOFacts DEF ATOTables, ATOSameTables
<1> QED BY <1>3, <1>6, <1>7, <1>8, ATOFacts DEF ATOInv

LEMMA ATOReceives ==
  ASSUME ATOInv, NEW req \in LoginRequests, ATO!Receive(req)
  PROVE  ATOInv'
<1>1. /\ Len(loginCalls) < MaxLoginCalls /\ ATOSameTables
  BY DEF ATO!Receive, ATO!tables, ATOSameTables
<1>2. req \in ATO!Request
  BY ATOConstants
<1>3. PICK began : began = [logins |-> Len(logins), fingerprints |-> Len(fingerprints),
                            attempts |-> Len(failedLogins)]
  OBVIOUS
<1>4. PICK stage : stage = IF req.allowed THEN "look" ELSE "refused"
  OBVIOUS
<1>5. PICK call : call = [req |-> req, at |-> stage, flags |-> {}, score |-> 0, began |-> began]
  OBVIOUS
<1>6. /\ began.logins = Len(logins) /\ began.fingerprints = Len(fingerprints)
      /\ began.attempts = Len(failedLogins)
      /\ began \in [logins : Nat, fingerprints : Nat, attempts : Nat]
  BY <1>3, ATOFacts
<1>7. /\ call \in ATO!Call /\ call.req = req /\ call.at = stage /\ call.flags = {}
      /\ call.began = began
  BY <1>2, <1>4, <1>5, <1>6 DEF ATO!Call, ATO!Stages, ATO!Ends
<1>8. loginCalls' = Append(loginCalls, call)
  BY <1>3, <1>4, <1>5 DEF ATO!Receive
<1>9. PICK n \in Nat : n = Len(loginCalls) + 1
  BY ATOFacts
<1>10. /\ loginCalls' \in Seq(ATO!Call) /\ Len(loginCalls') = n
       /\ DOMAIN loginCalls' = DOMAIN loginCalls \cup {n}
       /\ n \notin DOMAIN loginCalls /\ loginCalls'[n] = call
       /\ \A k \in DOMAIN loginCalls : loginCalls'[k] = loginCalls[k]
  BY <1>7, <1>8, <1>9, ATOFacts, Appended
<1>11. ATOTablesGrow /\ ATONewRows
  BY <1>1, ATOTablesSame
<1>12. ATOCallsGo
  <2>1. ASSUME NEW k \in DOMAIN loginCalls
        PROVE  /\ k \in DOMAIN loginCalls' /\ loginCalls'[k] = loginCalls[k]
               /\ SameFindings(loginCalls[k], loginCalls'[k])
    BY <1>10 DEF SameFindings
  <2> QED BY <2>1 DEF ATOCallsGo
<1>13. ATORows'
  <2>1. /\ \A i \in DOMAIN logins : LoginRow(i)'
        /\ \A k \in DOMAIN fingerprints : DeviceRow(k)'
        /\ \A k \in DOMAIN failedLogins : AttemptRow(k)'
    BY <1>10, <1>11, <1>12, ATORowsKeep
  <2>2. LaterAreOfCalls'
    BY <1>1, ATOFacts DEF ATORows, LaterAreOfCalls, ATOSameTables
  <2> QED BY <1>1, <2>1, <2>2 DEF ATORows, ATOSameTables
<1>14. ATOCallIsFine(n, call)'
  <2>1. BeganEarlier(call)'
    BY <1>1, <1>6, <1>7, ATOFacts DEF BeganEarlier, ATOSameTables
  <2>2. call.at \in {"look", "refused"}
    BY <1>4, <1>7
  <2>3. n \notin loginEvents'
    BY <1>1, <1>10, ATOFacts DEF ATOSameTables
  <2>4. AlertsFollow(n, call)' /\ HistoryIsJudged(n, call)' /\ ATOCallIsStaged(call)'
    BY <2>2, <2>3 DEF AlertsFollow, HistoryIsJudged, ATOCallIsStaged
  <2>5. "matched" \notin call.flags
    BY <1>7
  <2> QED BY <2>1, <2>2, <2>4, <2>5 DEF ATOCallIsFine
<1>15. ASSUME NEW k \in DOMAIN loginCalls' PROVE ATOCallIsFine(k, loginCalls[k])'
  <2>1. CASE k = n
    <3>1. ATOCallIsFine(k, loginCalls[k])' = ATOCallIsFine(n, call)'
      BY <1>10, <2>1
    <3> QED BY <1>14, <3>1
  <2>2. CASE k # n
    <3>1. PICK other \in ATO!Call : other = loginCalls[k] /\ other = loginCalls'[k]
      BY <1>10, <1>15, <2>2, ATOFacts
    <3>2. ATOCallIsFine(k, other)
      BY <1>10, <1>15, <2>2, <3>1, ATOFacts
    <3>3. ATOCallIsFine(k, other)'
      BY <1>1, <1>11, <3>2, ATOOthersKeep DEF ATOSameTables
    <3>4. ATOCallIsFine(k, loginCalls[k])' = ATOCallIsFine(k, other)'
      BY <3>1
    <3> QED BY <3>3, <3>4
  <2> QED BY <2>1, <2>2
<1>16. ATOTables'
  BY <1>1, <1>10, ATOFacts DEF ATOTables, ATOSameTables
<1>17. Len(loginCalls') <= MaxLoginCalls
  BY <1>1, <1>9, <1>10, ATOConstants, ATOFacts
<1> QED BY <1>10, <1>13, <1>15, <1>16, <1>17 DEF ATOInv

LEMMA ATOHandles ==
  ASSUME ATOInv, NEW c \in DOMAIN loginCalls, ATO!Handle(c)
  PROVE  ATOInv'
<1>1. CASE ATO!LookAtHistory(c)
  BY <1>1, ATOLookAtHistory
<1>2. CASE ATO!LookAtPrevious(c)
  BY <1>2, ATOLookAtPrevious
<1>3. CASE ATO!SumUp(c)
  BY <1>3, ATOSumUp
<1>4. CASE ATO!LookAtDevice(c)
  BY <1>4, ATOLookAtDevice
<1>5. CASE ATO!Commit(c)
  BY <1>5, ATOCommit
<1>6. CASE ATO!StoreLogin(c)
  BY <1>6, ATOStoreLogin
<1>7. CASE ATO!Enrol(c)
  BY <1>7, ATOEnrol
<1>8. CASE ATO!RecordEvent(c)
  BY <1>8, ATORecordEvent
<1>9. CASE ATO!CreateAlert(c)
  BY <1>9, ATOCreateAlert
<1>10. CASE ATO!Fails(c)
  BY <1>10, ATOFails
<1> QED BY <1>1, <1>2, <1>3, <1>4, <1>5, <1>6, <1>7, <1>8, <1>9, <1>10 DEF ATO!Handle

LEMMA ATONext == ATOInv /\ [Next]_vars => ATOInv'
<1> SUFFICES ASSUME ATOInv, [Next]_vars PROVE ATOInv'
  OBVIOUS
<1>1. CASE ATO!Next
  BY <1>1, ATOReceives, ATOHandles, ATOStops DEF ATO!Next
<1>2. CASE UNCHANGED loginVars
  <2>1. UNCHANGED loginCalls /\ ATOSameTables
    BY <1>2 DEF loginVars, ATOSameTables
  <2>2. ATOTablesGrow /\ ATONewRows
    BY <2>1, ATOTablesSame
  <2>3. ATOCallsGo
    BY <2>1 DEF ATOCallsGo, SameFindings
  <2>4. ATORows'
    <3>1. /\ \A i \in DOMAIN logins : LoginRow(i)'
          /\ \A k \in DOMAIN fingerprints : DeviceRow(k)'
          /\ \A k \in DOMAIN failedLogins : AttemptRow(k)'
      BY <2>1, <2>2, <2>3, ATOFacts, ATORowsKeep
    <3>2. LaterAreOfCalls'
      BY <2>1, ATOFacts DEF ATORows, LaterAreOfCalls, ATOSameTables
    <3> QED BY <2>1, <3>1, <3>2 DEF ATORows, ATOSameTables
  <2>5. ASSUME NEW k \in DOMAIN loginCalls PROVE ATOCallIsFine(k, loginCalls[k])'
    <3>1. PICK other \in ATO!Call : other = loginCalls[k] /\ ATOCallIsFine(k, other)
      BY ATOFacts
    <3>2. ATOCallIsFine(k, other)'
      BY <2>1, <2>2, <3>1, ATOOthersKeep DEF ATOSameTables
    <3>3. ATOCallIsFine(k, loginCalls[k])' = ATOCallIsFine(k, other)'
      BY <2>1, <3>1
    <3> QED BY <3>2, <3>3
  <2> QED BY <2>1, <2>4, <2>5, ATOFacts DEF ATOInv, ATOTables, ATOSameTables
<1> QED BY <1>1, <1>2, ServicesStep

LEMMA ATOInvHolds == Spec => []ATOInv
BY ATOInit, ATONext, PTL DEF Spec

(* What was known or new to a check, from the invariant.                   *)
LEMMA ATOHistory == ATOInv => ATO!HistoryIsOthers
<1> DEFINE Same(req, field) == {i \in DOMAIN logins : /\ ATO!OfUser(logins[i], req)
                                                      /\ logins[i].time >= - ATO!Window(req.kind)
                                                      /\ logins[i][field] = req[field]}
<1> SUFFICES ASSUME ATOInv, NEW c \in DOMAIN loginCalls,
                    loginCalls[c].req.kind \in {"takeover", "login"}, loginCalls[c].at = "done",
                    NEW field \in {"device", "city"}
    PROVE  /\ field \notin loginCalls[c].flags =>
                \E i \in Same(loginCalls[c].req, field) : logins[i].call # c
           /\ field \in loginCalls[c].flags =>
                Same(loginCalls[c].req, field) \cap (1..loginCalls[c].began.logins) = {}
  BY DEF ATO!HistoryIsOthers
<1>1. PICK call : call = loginCalls[c]
  OBVIOUS
<1>2. HistoryIsJudged(c, call)
  BY <1>1, ATOFacts DEF ATOCallIsFine
<1>3. CASE field = "device"
  <2>1. Same(call.req, field) = SameDevice(call.req)
    BY <1>3 DEF SameDevice, ATO!Recent
  <2> HIDE DEF Same
  <2> QED BY <1>1, <1>2, <1>3, <2>1 DEF HistoryIsJudged
<1>4. CASE field = "city"
  <2>1. Same(call.req, field) = SameCity(call.req)
    BY <1>4 DEF SameCity, ATO!Recent
  <2> HIDE DEF Same
  <2> QED BY <1>1, <1>2, <1>4, <2>1 DEF HistoryIsJudged
<1> QED BY <1>3, <1>4

LEMMA ATOAlerts == ATOInv => ATO!SevereFindingsAreAlerted
<1> SUFFICES ASSUME ATOInv, NEW c \in DOMAIN loginCalls, ATO!Severe(loginCalls[c]),
                    \/ loginCalls[c].at = "done"
                    \/ c \in loginEvents /\ loginCalls[c].req.kind \in {"takeover", "stuffing"}
    PROVE  c \in loginAlerts
  BY DEF ATO!SevereFindingsAreAlerted
<1>1. AlertsFollow(c, loginCalls[c])
  BY ATOFacts DEF ATOCallIsFine
<1> QED BY <1>1 DEF AlertsFollow

(* The last of the rows of an address is of a call; it has summed up all   *)
(* the others, unless one of them came after it began.                     *)
LEMMA ATOBursts == ATOInv => ATO!BurstsAreAlerted
<1> SUFFICES ASSUME ATOInv, NEW tenant \in Tenants, NEW address \in Addresses, NEW rows,
                    rows = {i \in DOMAIN failedLogins : /\ failedLogins[i].tenant = tenant
                                                        /\ failedLogins[i].address = address},
                    \E i \in rows : failedLogins[i].call # 0,
                    ATO!StuffingScore(ATO!Failed(failedLogins, rows),
                      ATO!Cardinality({failedLogins[i].user : i \in rows})) >= 60,
                    ~ \E i, k \in rows :
                        /\ i < k /\ failedLogins[k].call # 0
                        /\ loginCalls[failedLogins[k].call].began.attempts < i
    PROVE  \E i \in rows : failedLogins[i].call \in loginAlerts
  BY DEF ATO!BurstsAreAlerted
<1>1. /\ rows \in SUBSET (1..Len(failedLogins)) /\ Len(failedLogins) \in Nat /\ rows # {}
      /\ IsFiniteSet(rows)
  <2>1. rows \subseteq DOMAIN failedLogins
    OBVIOUS
  <2>2. rows # {}
    OBVIOUS
  <2> QED BY <2>1, <2>2, ATOFacts, Domain, FS_Subset
<1>2. PICK k \in rows : \A i \in rows : i <= k
  <2>1. PICK T : T = {Len(failedLogins) - x : x \in rows}
    OBVIOUS
  <2>2. T \in SUBSET Nat /\ T # {}
    <3>1. PICK y : y \in rows
      BY <1>1
    <3>2. Len(failedLogins) - y \in T
      BY <2>1, <3>1
    <3>3. \A x \in rows : Len(failedLogins) - x \in Nat
      BY <1>1
    <3> QED BY <2>1, <3>2, <3>3
  <2>3. PICK t \in T : \A y \in T : t <= y
    BY <2>2, LeastNat
  <2>4. PICK x \in rows : t = Len(failedLogins) - x
    BY <2>1
  <2>5. ASSUME NEW i \in rows PROVE i <= x
    <3>1. Len(failedLogins) - i \in T
      BY <2>1
    <3>2. t <= Len(failedLogins) - i
      BY <2>3, <3>1
    <3>3. i \in Int /\ x \in Int
      BY <1>1
    <3> QED BY <1>1, <2>4, <3>2, <3>3
  <2> QED BY <2>5
<1>3. PICK c : c = failedLogins[k].call
  OBVIOUS
<1>4. c # 0
  <2>1. PICK i \in rows : failedLogins[i].call # 0
    OBVIOUS
  <2>2. i = k \/ i < k
    BY <1>1, <1>2
  <2> QED BY <1>3, <2>1, <2>2, ATOFacts DEF ATORows, LaterAreOfCalls
<1>5. AttemptRow(k)
  BY ATOFacts DEF ATORows
<1>6. /\ c \in DOMAIN loginCalls /\ loginCalls[c].req.kind = "stuffing" /\ c \in loginEvents
      /\ failedLogins[k] = ATO!AttemptOf(c)
      /\ \E some \in SUBSET (1..(k - 1)) : Sums(loginCalls[c], some)
  BY <1>3, <1>4, <1>5 DEF AttemptRow
<1>7. PICK call \in ATO!Call : call = loginCalls[c] /\ ATOCallIsFine(c, call)
  BY <1>6, ATOFacts
<1>8. PICK some \in SUBSET (1..(k - 1)) : Sums(call, some)
  BY <1>6, <1>7
<1>9. PICK req \in ATO!Request : req = call.req
  BY DEF ATO!Call
<1>10. /\ failedLogins[k].tenant = req.tenant /\ failedLogins[k].address = req.address
       /\ failedLogins[k].user = req.user /\ failedLogins[k].failed = req.failed
  BY <1>6, <1>7, <1>9 DEF ATO!AttemptOf
<1>11. rows = ATO!OnRecord(req)
  <2>1. req.tenant = tenant /\ req.address = address
    BY <1>10
  <2> QED BY <2>1 DEF ATO!OnRecord
<1>12. PICK b \in Nat : b = call.began.attempts
  BY DEF ATO!Call
<1>13. ASSUME NEW i \in rows, i # k PROVE i \in 1..b
  <2>1. i \in Nat /\ k \in Nat /\ i >= 1 /\ i < k
    BY <1>1, <1>2, <1>13
  <2>2. ~ (b < i)
    BY <1>3, <1>4, <1>7, <1>12, <2>1
  <2> QED BY <1>12, <2>1, <2>2
<1>14. some = rows \ {k}
  <2>1. /\ some \subseteq rows /\ rows \cap (1..b) \subseteq some
    BY <1>8, <1>9, <1>11, <1>12 DEF Sums
  <2>2. k \notin some
    BY <1>1
  <2> QED BY <1>13, <2>1, <2>2
<1>15. ATO!Failed(failedLogins, rows) = req.failed + ATO!Failed(failedLogins, some)
  <2>1. \A i \in rows : failedLogins[i].failed \in Nat
    BY ATOFacts DEF ATO!Attempt
  <2> QED BY <1>1, <1>10, <1>14, <2>1, FailedMore
<1>16. {failedLogins[i].user : i \in rows} = {req.user} \cup {failedLogins[i].user : i \in some}
  BY <1>10, <1>14
<1>17. call.score >= 60
  <2>1. call.score = ATO!StuffingScore(req.failed + ATO!Failed(failedLogins, some),
                       Cardinality({req.user} \cup {failedLogins[i].user : i \in some}))
    BY <1>8, <1>9 DEF Sums
  <2> QED BY <1>15, <1>16, <2>1 DEF ATO!Cardinality, Cardinality
<1>18. ATO!Severe(call)
  BY <1>6, <1>7, <1>17 DEF ATO!Severe
<1>19. c \in loginAlerts
  BY <1>6, <1>7, <1>18 DEF ATOCallIsFine, AlertsFollow
<1> QED BY <1>3, <1>19

LEMMA ATODevices == ATOInv => ATO!DevicesKeepTheirFingerprint
<1> SUFFICES ASSUME ATOInv PROVE ATO!DevicesKeepTheirFingerprint
  OBVIOUS
<1>1. ASSUME NEW i \in DOMAIN fingerprints, NEW k \in DOMAIN fingerprints, i < k,
             fingerprints[k].call # 0, k \in ATO!DeviceRows(fingerprints[i])
      PROVE  loginCalls[fingerprints[k].call].began.fingerprints < i
  <2>1. PICK c : c = fingerprints[k].call
    OBVIOUS
  <2>2. /\ c \in DOMAIN loginCalls
        /\ ATO!DeviceRows(fingerprints[k]) \cap (1..loginCalls[c].began.fingerprints) = {}
    BY <1>1, <2>1, ATOFacts DEF ATORows, DeviceRow
  <2>3. PICK b \in Nat : b = loginCalls[c].began.fingerprints
    BY <2>2, ATOFacts DEF ATO!Call
  <2>4. i \in ATO!DeviceRows(fingerprints[k])
    BY <1>1 DEF ATO!DeviceRows, ATO!OfUser
  <2>5. i \notin 1..b
    BY <2>2, <2>3, <2>4
  <2>6. i \in Nat /\ i >= 1
    BY ATOFacts
  <2> QED BY <2>1, <2>3, <2>5, <2>6
<1>2. ASSUME NEW c \in DOMAIN loginCalls, "matched" \in loginCalls[c].flags
      PROVE  \E i \in ATO!DeviceRows(loginCalls[c].req) :
               fingerprints[i].fingerprint = loginCalls[c].req.fingerprint
  BY <1>2, ATOFacts DEF ATOCallIsFine
<1> QED BY <1>1, <1>2 DEF ATO!DevicesKeepTheirFingerprint

(* For any logins, limits and rows of earlier days, and whatever fails: a  *)
(* device or a city is known by what others have stored, what an answer or *)
(* a stored finding calls severe has its alert, a burst of failed logins is*)
(* alerted unless its reports came at once, a device keeps its fingerprint *)
(* (detect_takeover, detect_credential_stuffing, verify_device).           *)
THEOREM TakeoversAreKnown == Spec => []TakeoversAreNoticed
<1>1. ATOInv => TakeoversAreNoticed
  BY ATOHistory, ATOAlerts, ATOBursts, ATODevices
     DEF TakeoversAreNoticed, ATO!TakeoversAreNoticed
<1> QED BY <1>1, ATOInvHolds, PTL

=============================================================================
