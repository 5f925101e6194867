----------------------------- MODULE ClaimsProofs -----------------------------
(***************************************************************************)
(* Theorems about Claims, for any owners, paths, lease durations and       *)
(* bounds.  Every operation acts on the maps as expireLocked leaves them,  *)
(* so the invariant is stated of any pair of maps, and shown once of the   *)
(* reaped pair (lemma Reaping) and once for each operation.                *)
(***************************************************************************)
EXTENDS Claims, TLAPS

(* An entry of the index names a claim in the store that lists the path. *)
Agree(cs, ix) ==
  \A p \in Paths : ix[p] # 0 => ix[p] \in InStore(cs) /\ p \in cs[ix[p]].files

(* A claim in the store is indexed on each of its paths, unless its owner  *)
(* has held two at once.                                                   *)
Listed(cs, ix, cr) ==
  \A c \in InStore(cs) : \A p \in cs[c].files : cs[c].owner \in cr \/ ix[p] = c

(* An owner that has never held two claims at once holds at most one. *)
Single(cs, cr) ==
  \A c, d \in InStore(cs) : cs[c].owner = cs[d].owner => c = d \/ cs[c].owner \in cr

(* Tokens from nextFence on have not been given. *)
Unused(cs, nf) == \A c \in Tokens : c >= nf => cs[c] = NoClaim

Maps(cs, ix) == cs \in [Tokens -> Claim] /\ ix \in [Paths -> 0 .. MaxClaims]

Good(cs, ix, nf, cr) ==
  /\ Maps(cs, ix)
  /\ Agree(cs, ix)
  /\ Listed(cs, ix, cr)
  /\ Single(cs, cr)
  /\ Unused(cs, nf)

Inv == TypeOK /\ Good(claims, byPath, nextFence, crowded)

-----------------------------------------------------------------------------
(* A claim that is not expired is in the store, or was never there. *)
LEMMA NoClaimType == NoClaim \in Claim
  BY DEF NoClaim, Claim

(* What expireLocked leaves: fewer claims, unchanged; the index entries of *)
(* those that stay.                                                        *)
LEMMA ReapedEntry ==
  ASSUME Inv, NEW p \in Paths, ReapedIndex[p] # 0
  PROVE  /\ ReapedIndex[p] = byPath[p]
         /\ byPath[p] \in Tokens
         /\ ~Expired(byPath[p])
         /\ Reaped[byPath[p]] = claims[byPath[p]]
  <1>1. byPath[p] # 0 /\ ReapedIndex[p] = byPath[p]
    BY DEF ReapedIndex
  <1>2. byPath[p] \in InStore(claims) /\ p \in claims[byPath[p]].files
    BY <1>1 DEF Inv, Good, Agree
  <1>3. byPath[p] \in Tokens
    BY <1>2 DEF InStore
  <1>4. ~Expired(byPath[p])
    BY <1>1, <1>2 DEF ReapedIndex
  <1>5. QED
    BY <1>1, <1>3, <1>4 DEF Reaped

LEMMA Reaping ==
  ASSUME Inv
  PROVE  Good(Reaped, ReapedIndex, nextFence, crowded)
  <1>1. Maps(Reaped, ReapedIndex)
    <2>1. Reaped \in [Tokens -> Claim]
      BY NoClaimType DEF Inv, TypeOK, Reaped
    <2>2. 0 \in 0 .. MaxClaims
      BY ClaimsAssumption
    <2>3. ReapedIndex \in [Paths -> 0 .. MaxClaims]
      BY <2>2 DEF Inv, TypeOK, ReapedIndex
    <2>4. QED
      BY <2>1, <2>3 DEF Maps
  <1>2. ASSUME NEW c \in InStore(Reaped)
        PROVE  c \in InStore(claims) /\ Reaped[c] = claims[c] /\ ~Expired(c)
    BY DEF InStore, Reaped, NoClaim
  <1>3. Agree(Reaped, ReapedIndex)
    <2> SUFFICES ASSUME NEW p \in Paths, ReapedIndex[p] # 0
                 PROVE  /\ ReapedIndex[p] \in InStore(Reaped)
                        /\ p \in Reaped[ReapedIndex[p]].files
      BY DEF Agree
    <2>1. byPath[p] \in InStore(claims) /\ p \in claims[byPath[p]].files
      BY ReapedEntry DEF Inv, Good, Agree
    <2>2. QED
      BY <2>1, ReapedEntry DEF InStore
  <1>4. Listed(Reaped, ReapedIndex, crowded)
    <2> SUFFICES ASSUME NEW c \in InStore(Reaped), NEW p \in Reaped[c].files
                 PROVE  Reaped[c].owner \in crowded \/ ReapedIndex[p] = c
      BY DEF Listed
    <2>1. c \in InStore(claims) /\ Reaped[c] = claims[c] /\ ~Expired(c)
      BY <1>2
    <2>2. claims[c].owner \in crowded \/ byPath[p] = c
      BY <2>1 DEF Inv, Good, Listed
    <2>3. p \in Paths
      BY <2>1 DEF Inv, TypeOK, InStore, Claim
    <2>4. QED
      BY <2>1, <2>2, <2>3 DEF ReapedIndex
  <1>5. Single(Reaped, crowded)
    BY <1>2 DEF Single, Inv, Good
  <1>6. Unused(Reaped, nextFence)
    BY DEF Unused, Reaped, Inv, Good
  <1>7. QED
    BY <1>1, <1>3, <1>4, <1>5, <1>6 DEF Good

(* The clean-up of stale index entries in Acquire never finds one. *)
LEMMA NothingStale ==
  ASSUME Inv, NEW F
  PROVE  CheckedIndex(F) = ReapedIndex
  <1>1. \A p \in Paths : ReapedIndex[p] # 0 => ReapedIndex[p] \in InStore(Reaped)
    BY Reaping DEF Good, Agree
  <1>2. \A p \in Paths : CheckedIndex(F)[p] = ReapedIndex[p]
    BY <1>1 DEF CheckedIndex
  <1>3. QED
    BY <1>2 DEF CheckedIndex, ReapedIndex

-----------------------------------------------------------------------------
(* AcquireFresh preserves the invariant. *)
LEMMA FreshPreserves ==
  ASSUME Inv, NEW o \in Owners, NEW F \in SUBSET Paths, AcquireFresh(o, F)
  PROVE  Inv'
  <1> DEFINE R == Reaped
             X == ReapedIndex
             n == nextFence
  <1>1. /\ Good(R, X, n, crowded)
        /\ CheckedIndex(F) = X
        /\ n \in Tokens
    BY Reaping, NothingStale DEF AcquireFresh
  <1>2. PICK ttl \in TTLs :
          claims' = [R EXCEPT ![n] = [owner |-> o, files |-> F, expires |-> now + ttl]]
    BY DEF AcquireFresh
  <1>3. /\ \A p \in F : X[p] = 0
        /\ byPath' = [p \in Paths |-> IF p \in F THEN n ELSE X[p]]
        /\ nextFence' = n + 1
        /\ now' = now
        /\ crowded' = IF OwnedBy(R, o) = {} THEN crowded ELSE crowded \cup {o}
    BY <1>1 DEF AcquireFresh
  <1> DEFINE N == [owner |-> o, files |-> F, expires |-> now + ttl]
  <1>4. N \in Claim /\ N.owner = o /\ N.files = F /\ o # NoOwner
    BY ClaimsAssumption DEF Claim, Inv, TypeOK
  <1>5. R \in [Tokens -> Claim] /\ X \in [Paths -> 0 .. MaxClaims]
    BY <1>1 DEF Good, Maps
  <1>6. claims'[n] = N /\ \A c \in Tokens \ {n} : claims'[c] = R[c]
    BY <1>1, <1>2, <1>5
  <1>7. n \notin InStore(R)
    BY <1>1 DEF Good, Unused, InStore, NoClaim, Tokens, Inv, TypeOK
  <1> HIDE DEF R, X, n, N
  <1>8. InStore(claims') = InStore(R) \cup {n}
    BY <1>1, <1>4, <1>6 DEF InStore
  <1>10. TypeOK'
    BY <1>1, <1>2, <1>3, <1>4, <1>5, ClaimsAssumption DEF TypeOK, Inv, Tokens, N, n
  <1>11. Maps(claims', byPath')
    BY <1>10 DEF TypeOK, Maps
  <1>12. Agree(claims', byPath')
    BY <1>1, <1>3, <1>4, <1>5, <1>6, <1>7, <1>8 DEF Good, Agree, InStore
  <1>13. Listed(claims', byPath', crowded')
    <2> SUFFICES ASSUME NEW c \in InStore(claims'), NEW p \in claims'[c].files
                 PROVE  claims'[c].owner \in crowded' \/ byPath'[p] = c
      BY DEF Listed
    <2>1. CASE c = n
      BY <2>1, <1>3, <1>4, <1>6
    <2>2. CASE c # n
      <3>1. c \in InStore(R) /\ claims'[c] = R[c] /\ c # 0
        BY <2>2, <1>6, <1>8 DEF InStore, Tokens
      <3>2. R[c].owner \in crowded \/ X[p] = c
        BY <3>1, <1>1 DEF Good, Listed
      <3>3. p \in Paths
        BY <3>1, <1>5 DEF InStore, Claim
      <3>4. QED
        BY <3>1, <3>2, <3>3, <1>3
    <2>3. QED
      BY <2>1, <2>2
  <1>14. Single(claims', crowded')
    BY <1>1, <1>3, <1>4, <1>6, <1>7, <1>8 DEF Good, Single, InStore, OwnedBy
  <1>15. Unused(claims', nextFence')
    BY <1>1, <1>3, <1>6 DEF Good, Unused, Tokens, Inv, TypeOK, n
  <1>16. QED
    BY <1>10, <1>11, <1>12, <1>13, <1>14, <1>15 DEF Inv, Good

(* AcquireRenews preserves the invariant: when the owner has held only one *)
(* claim, every indexed path of the request is on it.                      *)
LEMMA RenewalPreserves ==
  ASSUME Inv, NEW o \in Owners, NEW F \in SUBSET Paths, AcquireRenews(o, F)
  PROVE  Inv'
  <1> DEFINE R == Reaped
             X == ReapedIndex
  <1>1. Good(R, X, nextFence, crowded) /\ CheckedIndex(F) = X
    BY Reaping, NothingStale
  <1>2. PICK f \in F, ttl \in TTLs :
          LET c == CheckedIndex(F)[f]
          IN /\ c # 0
             /\ claims' = [Reaped EXCEPT ![c].files = @ \cup F, ![c].expires = now + ttl]
             /\ byPath' = [p \in Paths |-> IF p \in F /\ CheckedIndex(F)[p] = 0
                                           THEN c ELSE CheckedIndex(F)[p]]
    BY DEF AcquireRenews
  <1> DEFINE c == X[f]
  <1>3. /\ c # 0
        /\ claims' = [R EXCEPT ![c].files = @ \cup F, ![c].expires = now + ttl]
        /\ byPath' = [p \in Paths |-> IF p \in F /\ X[p] = 0 THEN c ELSE X[p]]
    BY <1>1, <1>2
  <1>4. R \in [Tokens -> Claim] /\ X \in [Paths -> 0 .. MaxClaims]
    BY <1>1 DEF Good, Maps
  <1>5. c \in InStore(R) /\ c \in Tokens
    BY <1>1, <1>3 DEF Good, Agree, InStore
  <1>6. \A p \in F : X[p] # 0 => R[X[p]].owner = o
    BY <1>1 DEF AcquireRenews, ConflictIn
  <1>7. UNCHANGED <<nextFence, now, crowded>>
    BY DEF AcquireRenews
  <1>8. R[c].owner = o
    BY <1>3, <1>6
  <1>9. now + ttl \in Nat
    BY ClaimsAssumption DEF Inv, TypeOK
  <1> HIDE DEF R, X, c
  <1>10. /\ claims'[c] = [owner |-> o, files |-> R[c].files \cup F, expires |-> now + ttl]
         /\ \A d \in Tokens \ {c} : claims'[d] = R[d]
    BY <1>3, <1>4, <1>5, <1>8 DEF Claim
  <1>11. InStore(claims') = InStore(R)
    BY <1>5, <1>8, <1>10 DEF InStore
  <1>12. claims' \in [Tokens -> Claim]
    <2>1. claims'[c] \in Claim
      BY <1>4, <1>5, <1>9, <1>10 DEF Claim
    <2>2. QED
      BY <2>1, <1>3, <1>4, <1>5, <1>10
  <1>13. byPath' \in [Paths -> 0 .. MaxClaims]
    BY <1>3, <1>4, <1>5 DEF Tokens
  <1>14. Agree(claims', byPath')
    <2> SUFFICES ASSUME NEW p \in Paths, byPath'[p] # 0
                 PROVE  byPath'[p] \in InStore(claims') /\ p \in claims'[byPath'[p]].files
      BY DEF Agree
    <2>1. CASE p \in F /\ X[p] = 0
      <3>1. byPath'[p] = c
        BY <2>1, <1>3
      <3>2. p \in claims'[c].files
        BY <2>1, <1>10
      <3>3. QED
        BY <3>1, <3>2, <1>5, <1>11
    <2>2. CASE ~(p \in F /\ X[p] = 0)
      <3>1. byPath'[p] = X[p] /\ X[p] \in InStore(R) /\ p \in R[X[p]].files
        BY <2>2, <1>1, <1>3 DEF Good, Agree
      <3>2. QED
        BY <3>1, <1>10, <1>11 DEF InStore
    <2>3. QED
      BY <2>1, <2>2
  <1>15. Listed(claims', byPath', crowded')
    <2> SUFFICES ASSUME NEW d \in InStore(claims'), NEW p \in claims'[d].files
                 PROVE  claims'[d].owner \in crowded' \/ byPath'[p] = d
      BY DEF Listed
    <2>1. d \in InStore(R) /\ d \in Tokens /\ d # 0 /\ crowded' = crowded
      BY <1>7, <1>11 DEF InStore, Tokens
    <2>2. claims'[d].owner = R[d].owner
      BY <2>1, <1>8, <1>10
    <2>3. p \in Paths
      BY <1>12, <2>1 DEF Claim
    <2>4. CASE p \in R[d].files
      <3>1. R[d].owner \in crowded \/ X[p] = d
        BY <2>1, <2>4, <1>1 DEF Good, Listed
      <3>2. QED
        BY <3>1, <2>1, <2>2, <2>3, <1>3
    <2>5. CASE p \notin R[d].files
      <3>1. d = c /\ p \in F
        BY <2>1, <2>5, <1>10
      <3>2. CASE X[p] = 0
        BY <3>1, <3>2, <2>3, <1>3
      <3>3. CASE X[p] # 0
        <4>1. R[X[p]].owner = R[c].owner /\ X[p] \in InStore(R)
          BY <3>1, <3>3, <2>3, <1>1, <1>6, <1>8 DEF Good, Agree
        <4>2. X[p] = c \/ R[c].owner \in crowded
          BY <4>1, <1>1, <1>5 DEF Good, Single
        <4>3. QED
          BY <4>2, <3>1, <3>3, <2>1, <2>2, <2>3, <1>3
      <3>4. QED
        BY <3>2, <3>3
    <2>6. QED
      BY <2>4, <2>5
  <1>16. Single(claims', crowded')
    BY <1>1, <1>7, <1>8, <1>10, <1>11 DEF Good, Single, InStore
  <1>17. Unused(claims', nextFence')
    <2>1. c < nextFence
      BY <1>1, <1>4, <1>5 DEF Good, Unused, InStore, NoClaim, Tokens, Inv, TypeOK
    <2>2. QED
      BY <2>1, <1>1, <1>7, <1>10 DEF Good, Unused, Tokens, Inv, TypeOK
  <1>18. QED
    BY <1>7, <1>12, <1>13, <1>14, <1>15, <1>16, <1>17 DEF Inv, TypeOK, Good, Maps

(* Release, Renew and the calls that only reap. *)
LEMMA ReleasePreserves ==
  ASSUME Inv, NEW o \in Owners, NEW e \in Tokens, Release(o, e)
  PROVE  Inv'
  <1> DEFINE R == Reaped
             X == ReapedIndex
  <1>1. Good(R, X, nextFence, crowded)
    BY Reaping
  <1>2. /\ claims' = [R EXCEPT ![e] = NoClaim]
        /\ byPath' = [p \in Paths |-> IF p \in claims[e].files /\ X[p] = e THEN 0 ELSE X[p]]
        /\ UNCHANGED <<nextFence, now, crowded>>
    BY DEF Release
  <1>3. R \in [Tokens -> Claim] /\ X \in [Paths -> 0 .. MaxClaims] /\ 0 \in 0 .. MaxClaims
    BY <1>1, ClaimsAssumption DEF Good, Maps
  <1>4. R[e] = claims[e] /\ R[e].owner # NoOwner
    BY ClaimsAssumption DEF Release, Holds, Reaped, NoClaim
  <1> HIDE DEF R, X
  <1>5. claims'[e] = NoClaim /\ \A d \in Tokens \ {e} : claims'[d] = R[d]
    BY <1>2, <1>3
  <1>6. InStore(claims') = InStore(R) \ {e}
    BY <1>4, <1>5 DEF InStore, NoClaim
  <1>7. claims' \in [Tokens -> Claim] /\ byPath' \in [Paths -> 0 .. MaxClaims]
    BY <1>2, <1>3, NoClaimType
  <1>8. Agree(claims', byPath')
    <2> SUFFICES ASSUME NEW p \in Paths, byPath'[p] # 0
                 PROVE  byPath'[p] \in InStore(claims') /\ p \in claims'[byPath'[p]].files
      BY DEF Agree
    <2>1. /\ byPath'[p] = X[p] /\ ~(p \in R[e].files /\ X[p] = e)
          /\ X[p] \in InStore(R) /\ p \in R[X[p]].files
      BY <1>1, <1>2, <1>4 DEF Good, Agree
    <2>2. X[p] # e
      BY <2>1
    <2>3. QED
      BY <2>1, <2>2, <1>5, <1>6 DEF InStore
  <1>9. Listed(claims', byPath', crowded')
    <2> SUFFICES ASSUME NEW d \in InStore(claims'), NEW p \in claims'[d].files
                 PROVE  claims'[d].owner \in crowded' \/ byPath'[p] = d
      BY DEF Listed
    <2>1. d \in InStore(R) /\ d # e /\ claims'[d] = R[d] /\ p \in Paths
      BY <1>5, <1>6, <1>3 DEF InStore, Claim
    <2>2. R[d].owner \in crowded \/ X[p] = d
      BY <2>1, <1>1 DEF Good, Listed
    <2>3. QED
      BY <2>1, <2>2, <1>2
  <1>10. Single(claims', crowded')
    BY <1>1, <1>2, <1>5, <1>6 DEF Good, Single, InStore
  <1>11. Unused(claims', nextFence')
    BY <1>1, <1>2, <1>5 DEF Good, Unused
  <1>12. QED
    BY <1>2, <1>7, <1>8, <1>9, <1>10, <1>11 DEF Inv, TypeOK, Good, Maps

LEMMA RenewPreserves ==
  ASSUME Inv, NEW o \in Owners, NEW e \in Tokens, Renew(o, e)
  PROVE  Inv'
  <1> DEFINE R == Reaped
             X == ReapedIndex
  <1>1. Good(R, X, nextFence, crowded)
    BY Reaping
  <1>2. PICK ttl \in TTLs : claims' = [R EXCEPT ![e].expires = now + ttl]
    BY DEF Renew
  <1>3. byPath' = X /\ UNCHANGED <<nextFence, now, crowded>>
    BY DEF Renew
  <1>4. R \in [Tokens -> Claim] /\ R[e].owner = o /\ o # NoOwner
    BY <1>1, ClaimsAssumption DEF Good, Maps, Renew, Holds
  <1>5. now + ttl \in Nat
    BY ClaimsAssumption DEF Inv, TypeOK
  <1> HIDE DEF R, X
  <1>6. \A d \in Tokens : claims'[d].owner = R[d].owner /\ claims'[d].files = R[d].files
    BY <1>2, <1>4 DEF Claim
  <1>7. claims' \in [Tokens -> Claim]
    BY <1>2, <1>4, <1>5 DEF Claim
  <1>8. InStore(claims') = InStore(R)
    BY <1>6 DEF InStore
  <1>9. Agree(claims', byPath') /\ Listed(claims', byPath', crowded') /\ Single(claims', crowded')
    BY <1>1, <1>3, <1>6, <1>8 DEF Good, Agree, Listed, Single, InStore
  <1>10. Unused(claims', nextFence')
    <2>1. e < nextFence
      BY <1>1, <1>4 DEF Good, Unused, NoClaim, Tokens, Inv, TypeOK
    <2>2. \A d \in Tokens : d >= nextFence => claims'[d] = R[d]
      BY <2>1, <1>2, <1>4 DEF Tokens, Inv, TypeOK
    <2>3. QED
      BY <2>2, <1>1, <1>3 DEF Good, Unused
  <1>11. QED
    BY <1>1, <1>3, <1>7, <1>9, <1>10 DEF Inv, TypeOK, Good, Maps

LEMMA LookPreserves ==
  ASSUME Inv, claims' = Reaped, byPath' = ReapedIndex,
         UNCHANGED <<nextFence, now, crowded>>
  PROVE  Inv'
  BY Reaping DEF Inv, TypeOK, Good, Maps

-----------------------------------------------------------------------------
LEMMA Initially == Init => Inv
  <1> SUFFICES ASSUME Init PROVE Inv
    OBVIOUS
  <1>1. TypeOK
    BY NoClaimType, ClaimsAssumption DEF Init, TypeOK
  <1>2. InStore(claims) = {}
    BY DEF Init, InStore, NoClaim
  <1>3. Good(claims, byPath, nextFence, crowded)
    BY <1>1, <1>2 DEF Init, TypeOK, Good, Maps, Agree, Listed, Single, Unused
  <1>4. QED
    BY <1>1, <1>3 DEF Inv

LEMMA Preserved == Inv /\ [Next]_vars => Inv'
  <1> SUFFICES ASSUME Inv, [Next]_vars PROVE Inv'
    OBVIOUS
  <1>1. ASSUME NEW o \in Owners, NEW F \in SUBSET Paths \ {{}}, AcquireConflicts(o, F)
        PROVE  Inv'
    BY <1>1, LookPreserves, NothingStale DEF AcquireConflicts
  <1>2. ASSUME NEW o \in Owners, NEW F \in SUBSET Paths \ {{}}, AcquireRenews(o, F)
        PROVE  Inv'
    BY <1>2, RenewalPreserves
  <1>3. ASSUME NEW o \in Owners, NEW F \in SUBSET Paths \ {{}}, AcquireFresh(o, F)
        PROVE  Inv'
    BY <1>3, FreshPreserves
  <1>4. ASSUME NEW o \in Owners, NEW c \in Tokens, Release(o, c)
        PROVE  Inv'
    BY <1>4, ReleasePreserves
  <1>5. ASSUME NEW o \in Owners, NEW c \in Tokens, Renew(o, c)
        PROVE  Inv'
    BY <1>5, RenewPreserves
  <1>6. CASE Look
    BY <1>6, LookPreserves DEF Look
  <1>7. CASE Tick
    BY <1>7 DEF Tick, Inv, TypeOK, Good, Maps, Agree, Listed, Single, Unused, InStore
  <1>8. CASE UNCHANGED vars
    BY <1>8 DEF vars, Inv, TypeOK, Good, Maps, Agree, Listed, Single, Unused, InStore
  <1>9. QED
    BY <1>1, <1>2, <1>3, <1>4, <1>5, <1>6, <1>7, <1>8 DEF Next

LEMMA Invariance == Spec => []Inv
  BY Initially, Preserved, PTL DEF Spec

-----------------------------------------------------------------------------
(* Every value stays of its type. *)
THEOREM TypeCorrect == Spec => []TypeOK
  BY Invariance, PTL DEF Inv

(* The index and the claims always agree, whatever overlapping claims an   *)
(* owner piles up.                                                         *)
THEOREM IndexIsSound == Spec => []IndexSound
  <1>1. Inv => IndexSound
    BY DEF Inv, Good, Agree, IndexSound
  <1>2. QED
    BY <1>1, Invariance, PTL

(* Owners that never hold two claims at once never share a path. *)
THEOREM SinglyExclusive == Spec => []ExclusiveSingly
  <1>1. Inv => ExclusiveSingly
    <2> SUFFICES ASSUME Inv, NEW c \in Tokens, NEW d \in Tokens, Overlap(c, d),
                        claims[c].owner \notin crowded, claims[d].owner \notin crowded
                 PROVE  FALSE
      BY DEF ExclusiveSingly
    <2>1. PICK p \in claims[c].files : p \in claims[d].files
      BY DEF Overlap
    <2>2. c \in InStore(claims) /\ d \in InStore(claims)
      BY DEF Overlap, LiveClaim
    <2>3. byPath[p] = c /\ byPath[p] = d
      BY <2>1, <2>2 DEF Inv, Good, Listed
    <2>4. QED
      BY <2>3 DEF Overlap
  <1>2. QED
    BY <1>1, Invariance, PTL

-----------------------------------------------------------------------------
(* A claim that is not expired stays indexed on the paths it is indexed on *)
(* until it is released.                                                   *)
LEMMA StepKeepsIndex == Inv /\ [Next]_vars => [KeepsIndex]_vars
  <1> SUFFICES ASSUME Inv, Next PROVE KeepsIndex
    OBVIOUS
  <1> SUFFICES ASSUME NEW p \in Paths, byPath[p] # 0, ~Expired(byPath[p])
               PROVE  \/ byPath'[p] = byPath[p]
                      \/ byPath'[p] = 0 /\ claims'[byPath[p]] = NoClaim
    BY DEF KeepsIndex
  <1>1. ReapedIndex[p] = byPath[p]
    BY DEF ReapedIndex
  <1>2. ASSUME NEW o \in Owners, NEW F \in SUBSET Paths \ {{}}, AcquireConflicts(o, F)
        PROVE  byPath'[p] = byPath[p]
    BY <1>1, <1>2, NothingStale DEF AcquireConflicts
  <1>3. ASSUME NEW o \in Owners, NEW F \in SUBSET Paths \ {{}}, AcquireRenews(o, F)
        PROVE  byPath'[p] = byPath[p]
    BY <1>1, <1>3, NothingStale DEF AcquireRenews
  <1>4. ASSUME NEW o \in Owners, NEW F \in SUBSET Paths \ {{}}, AcquireFresh(o, F)
        PROVE  byPath'[p] = byPath[p]
    BY <1>1, <1>4, NothingStale DEF AcquireFresh
  <1>5. ASSUME NEW o \in Owners, NEW c \in Tokens, Release(o, c)
        PROVE  byPath'[p] = byPath[p] \/ (byPath'[p] = 0 /\ claims'[byPath[p]] = NoClaim)
    <2>1. Reaped \in [Tokens -> Claim]
      BY Reaping DEF Good, Maps
    <2>2. claims'[c] = NoClaim
      BY <1>5, <2>1 DEF Release
    <2>3. QED
      BY <1>1, <1>5, <2>2 DEF Release
  <1>6. ASSUME NEW o \in Owners, NEW c \in Tokens, Renew(o, c)
        PROVE  byPath'[p] = byPath[p]
    BY <1>1, <1>6 DEF Renew
  <1>7. CASE Look
    BY <1>1, <1>7 DEF Look
  <1>8. CASE Tick
    BY <1>8 DEF Tick
  <1>9. QED
    BY <1>2, <1>3, <1>4, <1>5, <1>6, <1>7, <1>8 DEF Next

(* The release or renewal of another claim never unindexes a live one. *)
THEOREM IndexStays == Spec => IndexKept
  BY Invariance, StepKeepsIndex, PTL DEF Spec, IndexKept

(* No call extends an expired claim or hands out its token again. *)
LEMMA StepRevivesNothing == Inv /\ [Next]_vars => [RevivesNothing]_vars
  <1> SUFFICES ASSUME Inv, Next PROVE RevivesNothing
    OBVIOUS
  <1> SUFFICES ASSUME NEW e \in Tokens, e < nextFence, Expired(e)
               PROVE  claims'[e] \in {claims[e], NoClaim}
    BY DEF RevivesNothing
  <1>1. /\ Reaped[e] = NoClaim
        /\ Reaped \in [Tokens -> Claim]
        /\ Reaped[e].owner = NoOwner
    BY Reaping DEF Reaped, Good, Maps, NoClaim
  <1>2. ASSUME NEW o \in Owners, NEW F \in SUBSET Paths \ {{}}, AcquireConflicts(o, F)
        PROVE  claims'[e] = NoClaim
    BY <1>1, <1>2 DEF AcquireConflicts
  <1>3. ASSUME NEW o \in Owners, NEW F \in SUBSET Paths \ {{}}, AcquireRenews(o, F)
        PROVE  claims'[e] = NoClaim
    <2>1. PICK f \in F, ttl \in TTLs :
            LET c == CheckedIndex(F)[f]
            IN /\ c # 0
               /\ claims' = [Reaped EXCEPT ![c].files = @ \cup F, ![c].expires = now + ttl]
      BY <1>3 DEF AcquireRenews
    <2>2. CheckedIndex(F)[f] # e
      BY <1>1, <2>1, Reaping, NothingStale DEF Good, Agree, InStore
    <2>3. QED
      BY <1>1, <2>1, <2>2
  <1>4. ASSUME NEW o \in Owners, NEW F \in SUBSET Paths \ {{}}, AcquireFresh(o, F)
        PROVE  claims'[e] = NoClaim
    <2>1. e # nextFence
      BY DEF Inv, TypeOK, Tokens
    <2>2. QED
      BY <1>1, <1>4, <2>1 DEF AcquireFresh
  <1>5. ASSUME NEW o \in Owners, NEW c \in Tokens, Release(o, c)
        PROVE  claims'[e] = NoClaim
    BY <1>1, <1>5 DEF Release
  <1>6. ASSUME NEW o \in Owners, NEW c \in Tokens, Renew(o, c)
        PROVE  claims'[e] = NoClaim
    <2>1. c # e
      BY <1>1, <1>6, ClaimsAssumption DEF Renew, Holds
    <2>2. QED
      BY <1>1, <1>6, <2>1 DEF Renew
  <1>7. CASE Look
    BY <1>1, <1>7 DEF Look
  <1>8. CASE Tick
    BY <1>8 DEF Tick
  <1>9. QED
    BY <1>2, <1>3, <1>4, <1>5, <1>6, <1>7, <1>8 DEF Next

(* An expired claim stays expired until it is reaped, whoever calls. *)
THEOREM NoRevival == Spec => ExpiredStaysExpired
  BY Invariance, StepRevivesNothing, PTL DEF Spec, ExpiredStaysExpired
=============================================================================
