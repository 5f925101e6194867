-------------------------------- MODULE Claims --------------------------------
(***************************************************************************)
(* Path leases with fencing tokens (src/internal/broker/claims.go): an     *)
(* owner acquires a set of repository paths for a while, extends the lease *)
(* by acquiring or renewing, and releases it.  Every method holds          *)
(* ClaimStore.mu throughout and first reaps what has expired, so each is   *)
(* one action.                                                             *)
(*                                                                         *)
(* A fresh claim draws a random id and the next fencing token, and keeps   *)
(* both for life: the token names the claim here.  Paths are normalised    *)
(* ones; files that normalise alike are one path.  The intent is left out. *)
(***************************************************************************)
EXTENDS Naturals

CONSTANTS
  Owners,      \* sessions that claim
  NoOwner,     \* the owner of a claim that is not in the store
  Paths,       \* normalised repository paths
  TTLs,        \* lease durations callers ask for
  MaxClaims,   \* bound: fresh claims
  MaxClock     \* bound: the clock stops here

ASSUME ClaimsAssumption ==
  /\ NoOwner \notin Owners
  /\ TTLs \subseteq Nat \ {0}
  /\ MaxClaims \in Nat
  /\ MaxClock \in Nat

VARIABLES
  claims,     \* ClaimStore.claims, by token
  byPath,     \* ClaimStore.byPath; 0 for a path nobody holds
  nextFence,  \* ClaimStore.nextFence
  now,        \* ClaimStore.now
  crowded     \* history: owners that have held two claims at once

vars == <<claims, byPath, nextFence, now, crowded>>

Tokens  == 1 .. MaxClaims
Claim   == [owner : Owners \cup {NoOwner}, files : SUBSET Paths, expires : Nat]
NoClaim == [owner |-> NoOwner, files |-> {}, expires |-> 0]

InStore(cs)  == {c \in Tokens : cs[c].owner # NoOwner}
OwnedBy(cs, o) == {c \in Tokens : cs[c].owner = o}

(* expireLocked: what every method sees of the two maps. *)
Expired(c) == now > claims[c].expires

Reaped == [c \in Tokens |-> IF Expired(c) THEN NoClaim ELSE claims[c]]

ReapedIndex ==
  [p \in Paths |-> IF /\ byPath[p] # 0
                      /\ Expired(byPath[p])
                      /\ p \in claims[byPath[p]].files
                   THEN 0 ELSE byPath[p]]

(* The index as the conflict check of Acquire leaves it: an entry of a     *)
(* requested path whose claim is not in the store is removed.              *)
CheckedIndex(F) ==
  [p \in Paths |-> IF p \in F /\ ReapedIndex[p] \notin InStore(Reaped)
                   THEN 0 ELSE ReapedIndex[p]]

-----------------------------------------------------------------------------
Init ==
  /\ claims = [c \in Tokens |-> NoClaim]
  /\ byPath = [p \in Paths |-> 0]
  /\ nextFence = 1
  /\ now = 1
  /\ crowded = {}

(* Mutant: a request conflicts only if all its paths do. *)
ConflictOnAll(o, F) == \A p \in F : LET c == CheckedIndex(F)[p]
                                    IN c # 0 /\ Reaped[c].owner # o
ConflictIn(o, F) == \E p \in F : LET c == CheckedIndex(F)[p]
                                 IN c # 0 /\ Reaped[c].owner # o

(* Acquire of a path another owner holds changes nothing but what it       *)
(* reaps.                                                                  *)
AcquireConflicts(o, F) ==
  /\ ConflictIn(o, F)
  /\ claims' = Reaped
  /\ byPath' = CheckedIndex(F)
  /\ UNCHANGED <<nextFence, now, crowded>>

(* Acquire of a path one already holds extends the claim of the first such *)
(* path of the request, whose order is any: it gains all the files, and    *)
(* the index entries only of those that had none.                          *)
AcquireRenews(o, F) ==
  /\ ~ConflictIn(o, F)
  /\ \E f \in F, ttl \in TTLs :
       LET c == CheckedIndex(F)[f]
       IN /\ c # 0
          /\ claims' = [Reaped EXCEPT ![c].files = @ \cup F, ![c].expires = now + ttl]
          /\ byPath' = [p \in Paths |-> IF p \in F /\ CheckedIndex(F)[p] = 0
                                      THEN c ELSE CheckedIndex(F)[p]]
  /\ UNCHANGED <<nextFence, now, crowded>>

(* Acquire of free paths only: a fresh claim under the next token. *)
AcquireFresh(o, F) ==
  /\ \A p \in F : CheckedIndex(F)[p] = 0
  /\ nextFence \in Tokens
  /\ \E ttl \in TTLs :
       claims' = [Reaped EXCEPT ![nextFence] =
                    [owner |-> o, files |-> F, expires |-> now + ttl]]
  /\ byPath' = [p \in Paths |-> IF p \in F THEN nextFence ELSE ReapedIndex[p]]
  /\ nextFence' = nextFence + 1
  /\ crowded' = IF OwnedBy(Reaped, o) = {} THEN crowded ELSE crowded \cup {o}
  /\ UNCHANGED now

(* Release and Renew of any claim id by any owner: a claim that has been   *)
(* reaped is not found, another owner's is forbidden.                      *)
Holds(o, c) == Reaped[c].owner = o

(* Mutants: the index is not cleaned; it is cleaned of other claims too. *)
ReleaseLeavesIndex(o, c) ==
  /\ Holds(o, c)
  /\ claims' = [Reaped EXCEPT ![c] = NoClaim]
  /\ byPath' = ReapedIndex
  /\ UNCHANGED <<nextFence, now, crowded>>

ReleaseClearsPaths(o, c) ==
  /\ Holds(o, c)
  /\ claims' = [Reaped EXCEPT ![c] = NoClaim]
  /\ byPath' = [p \in Paths |-> IF p \in claims[c].files THEN 0 ELSE ReapedIndex[p]]
  /\ UNCHANGED <<nextFence, now, crowded>>

Release(o, c) ==
  /\ Holds(o, c)
  /\ claims' = [Reaped EXCEPT ![c] = NoClaim]
  /\ byPath' = [p \in Paths |-> IF p \in claims[c].files /\ ReapedIndex[p] = c
                             THEN 0 ELSE ReapedIndex[p]]
  /\ UNCHANGED <<nextFence, now, crowded>>

(* Mutant: the claim is looked up before the expired ones are reaped. *)
RenewUnreaped(o, c) ==
  /\ claims[c].owner = o
  /\ \E ttl \in TTLs : claims' = [claims EXCEPT ![c].expires = now + ttl]
  /\ UNCHANGED <<byPath, nextFence, now, crowded>>

Renew(o, c) ==
  /\ Holds(o, c)
  /\ \E ttl \in TTLs : claims' = [Reaped EXCEPT ![c].expires = now + ttl]
  /\ byPath' = ReapedIndex
  /\ UNCHANGED <<nextFence, now, crowded>>

(* List, ValidateForTask, and a Release or Renew that is refused: the      *)
(* expired claims go and nothing else changes.                             *)
Look ==
  /\ claims' = Reaped
  /\ byPath' = ReapedIndex
  /\ UNCHANGED <<nextFence, now, crowded>>

Tick ==
  /\ now < MaxClock
  /\ now' = now + 1
  /\ UNCHANGED <<claims, byPath, nextFence, crowded>>

Next ==
  \/ \E o \in Owners, F \in SUBSET Paths \ {{}} :
       AcquireConflicts(o, F) \/ AcquireRenews(o, F) \/ AcquireFresh(o, F)
  \/ \E o \in Owners, c \in Tokens : Release(o, c) \/ Renew(o, c)
  \/ Look \/ Tick

Spec == Init /\ [][Next]_vars

-----------------------------------------------------------------------------
(* The type invariant. *)
TypeOK ==
  /\ claims \in [Tokens -> Claim]
  /\ byPath \in [Paths -> 0 .. MaxClaims]
  /\ nextFence \in Nat \ {0}
  /\ now \in Nat
  /\ crowded \subseteq Owners

(* The index and the claims agree: an entry names a claim that is in the   *)
(* store and lists the path, so the clean-up of stale entries in Acquire   *)
(* (claims.go:117-121) never finds one and no entry outlives its claim.    *)
IndexSound ==
  \A p \in Paths : byPath[p] # 0 =>
     /\ byPath[p] \in InStore(claims)
     /\ p \in claims[byPath[p]].files

(* A live claim is one whose time has not run out, reaped or not. *)
LiveClaim(c) == c \in InStore(claims) /\ ~Expired(c)

(* Live claims of two owners that share a path. *)
Overlap(c, d) ==
  /\ LiveClaim(c) /\ LiveClaim(d)
  /\ claims[c].owner # claims[d].owner
  /\ claims[c].files \cap claims[d].files # {}

(* A claim "blocks other agents from acquiring the same paths until the    *)
(* claim is released or expires" (claims.go:14-17), for owners that never  *)
(* hold two claims at once: the path of a live claim of such an owner is   *)
(* never leased to another such owner.                                     *)
ExclusiveSingly ==
  \A c, d \in Tokens :
    Overlap(c, d) => {claims[c].owner, claims[d].owner} \cap crowded # {}

(* No call disturbs a path whose claim is live -- not the renewal of a     *)
(* second claim on it, nor the release of a claim that lists the path but  *)
(* is not the indexed one (claims.go:190-195): the index entry stays until *)
(* that very claim leaves the store.                                       *)
KeepsIndex ==
  \A p \in Paths :
    LET c == byPath[p] IN
    (c # 0 /\ ~Expired(c)) => \/ byPath'[p] = c
                              \/ byPath'[p] = 0 /\ claims'[c] = NoClaim

IndexKept == [][KeepsIndex]_vars

(* A stale holder is refused: an expired claim, reaped yet or not, is      *)
(* never extended again, and its token is never given to another claim     *)
(* (claims.go:18-19 and 174-176).                                          *)
RevivesNothing ==
  \A c \in Tokens :
    (c < nextFence /\ Expired(c)) => claims'[c] \in {claims[c], NoClaim}

ExpiredStaysExpired == [][RevivesNothing]_vars

=============================================================================
