---------------------------- MODULE EventRegistry ----------------------------
(***************************************************************************)
(* conduit::EventRegistry (include/conduit/serialization.hpp): a copy-on-  *)
(* write registry of event types.  add_descriptor() copies the current     *)
(* version under the shared lock, adds its descriptor to the copy outside  *)
(* any lock, and publishes the copy under the unique lock; decoding pins   *)
(* one version.  Every listen<T>() and publish<T>() goes through           *)
(* add_descriptor(), on whatever thread calls it.                          *)
(***************************************************************************)
EXTENDS Naturals, FiniteSets, TLAPS

CONSTANTS
    Adders,     \* threads that call add_descriptor()
    Readers,    \* threads that call decode_json() / decode_cbor()
    Types,      \* event types, each with one descriptor
    NoType      \* "no type"

ASSUME ThreadsDistinct == Adders \cap Readers = {}
ASSUME NoTypeAssumption == NoType \notin Types

VARIABLES
    registry,   \* registry_: the types of the active version
    pc,         \* where each thread is
    snap,       \* the version a thread has pinned (next, for an adder)
    kind,       \* the type a thread adds or decodes
    found,      \* did the last decode of a reader know its type?
    settled,    \* types whose registration overlapped no other (history)
    owed        \* was the type settled when the decode began? (history)

vars == <<registry, pc, snap, kind, found, settled, owed>>

Threads == Adders \cup Readers

Init ==
    /\ registry = {}
    /\ pc = [t \in Threads |-> "idle"]
    /\ snap = [t \in Threads |-> {}]
    /\ kind = [t \in Threads |-> NoType]
    /\ found = [r \in Readers |-> TRUE]
    /\ settled = {}
    /\ owed = [r \in Readers |-> FALSE]

\* Variant: the current version is not copied into the new one.
AddSnapshotFresh(a, k) ==
    /\ pc[a] = "idle"
    /\ pc' = [pc EXCEPT ![a] = "swap"]
    /\ snap' = [snap EXCEPT ![a] = {k}]
    /\ kind' = [kind EXCEPT ![a] = k]
    /\ UNCHANGED <<registry, found, settled, owed>>

\* snapshot() under the shared lock, then the copy with the new descriptor.
AddSnapshot(a, k) ==
    /\ pc[a] = "idle"
    /\ pc' = [pc EXCEPT ![a] = "swap"]
    /\ snap' = [snap EXCEPT ![a] = registry \cup {k}]
    /\ kind' = [kind EXCEPT ![a] = k]
    /\ UNCHANGED <<registry, found, settled, owed>>

\* The adder's version becomes the active one under the unique lock.
AddSwap(a) ==
    /\ pc[a] = "swap"
    /\ registry' = snap[a]
    /\ pc' = [pc EXCEPT ![a] = "idle"]
    /\ settled' = IF \A b \in Adders \ {a} : pc[b] = "idle"
                  THEN settled \cup {kind[a]} ELSE settled
    /\ snap' = [snap EXCEPT ![a] = {}]
    /\ kind' = [kind EXCEPT ![a] = NoType]
    /\ UNCHANGED <<found, owed>>

\* Variant: the reader does not pin the active version.
DecodeUnpinned(r, k) ==
    /\ pc[r] = "idle"
    /\ pc' = [pc EXCEPT ![r] = "decode"]
    /\ kind' = [kind EXCEPT ![r] = k]
    /\ owed' = [owed EXCEPT ![r] = k \in settled]
    /\ UNCHANGED <<registry, snap, found, settled>>

DecodeSnapshot(r, k) ==
    /\ pc[r] = "idle"
    /\ pc' = [pc EXCEPT ![r] = "decode"]
    /\ snap' = [snap EXCEPT ![r] = registry]
    /\ kind' = [kind EXCEPT ![r] = k]
    /\ owed' = [owed EXCEPT ![r] = k \in settled]
    /\ UNCHANGED <<registry, found, settled>>

\* An unknown kind makes parcel throw, which surfaces as SerializationError.
Decode(r) ==
    /\ pc[r] = "decode"
    /\ found' = [found EXCEPT ![r] = kind[r] \in snap[r]]
    /\ pc' = [pc EXCEPT ![r] = "idle"]
    /\ snap' = [snap EXCEPT ![r] = {}]
    /\ kind' = [kind EXCEPT ![r] = NoType]
    /\ UNCHANGED <<registry, settled, owed>>

Next ==
    \/ \E a \in Adders : AddSwap(a) \/ \E k \in Types : AddSnapshot(a, k)
    \/ \E r \in Readers : Decode(r) \/ \E k \in Types : DecodeSnapshot(r, k)

Spec == Init /\ [][Next]_vars

-----------------------------------------------------------------------------
\* The state has its declared types: every snapshot is a set of event types.
TypeOK ==
    /\ registry \in SUBSET Types /\ settled \in SUBSET Types
    /\ pc \in [Threads -> {"idle", "swap", "decode"}]
    /\ snap \in [Threads -> SUBSET Types]
    /\ kind \in [Threads -> Types \cup {NoType}]
    /\ found \in [Readers -> BOOLEAN] /\ owed \in [Readers -> BOOLEAN]

\* A type whose add_descriptor() overlapped no other add_descriptor() stays
\* registered for good, however many registrations follow, in parallel or not.
SettledStays == settled \subseteq registry

\* A decode that begins after its type was settled always knows the type.
DecodeKnowsSettled ==
    \A r \in Readers : owed[r] /\ pc[r] = "idle" => found[r]

\* "Safe to call from any thread": a type is in the registry from the moment
\* its add_descriptor() returns, and no registration removes another.
RegistryGrows == [][registry \subseteq registry']_registry

-----------------------------------------------------------------------------
(* Proofs, for any number of threads and event types *)

\* Every version still to be published holds all the settled types.
PinnedHoldSettled == \A a \in Adders : pc[a] = "swap" => settled \cup {kind[a]} \subseteq snap[a]

\* A decode under way that was promised its type holds a version with it.
DecodeHoldsOwed == \A r \in Readers : pc[r] = "decode" /\ owed[r] => kind[r] \in snap[r]

\* Adders do not decode, and an adder in flight names a real type.
AddersSwapOnly ==
    \A a \in Adders : pc[a] # "decode" /\ (pc[a] = "swap" => kind[a] \in Types)

\* The inductive invariant.
IndInv ==
    /\ TypeOK /\ AddersSwapOnly /\ SettledStays /\ PinnedHoldSettled
    /\ DecodeHoldsOwed /\ DecodeKnowsSettled

\* Every step of an adder or a reader keeps the inductive invariant.
LEMMA IndInvStep == IndInv /\ [Next]_vars => IndInv'
  <1> SUFFICES ASSUME IndInv, [Next]_vars PROVE IndInv'
    OBVIOUS
  <1> USE ThreadsDistinct DEF Threads
  <1>i. /\ TypeOK /\ AddersSwapOnly /\ SettledStays /\ PinnedHoldSettled
        /\ DecodeHoldsOwed /\ DecodeKnowsSettled
    BY DEF IndInv
  <1>1. ASSUME NEW a \in Adders, NEW k \in Types, AddSnapshot(a, k) PROVE IndInv'
    <2>1. TypeOK' /\ AddersSwapOnly' /\ SettledStays'
      BY <1>1, <1>i DEF AddSnapshot, TypeOK, AddersSwapOnly, SettledStays
    <2>2. PinnedHoldSettled'
      BY <1>1, <1>i DEF AddSnapshot, TypeOK, SettledStays, PinnedHoldSettled
    <2>3. DecodeHoldsOwed' /\ DecodeKnowsSettled'
      BY <1>1, <1>i DEF AddSnapshot, TypeOK, DecodeHoldsOwed, DecodeKnowsSettled
    <2> QED
      BY <2>1, <2>2, <2>3 DEF IndInv
  <1>2. ASSUME NEW a \in Adders, AddSwap(a) PROVE IndInv'
    <2>1. TypeOK' /\ AddersSwapOnly'
      BY <1>2, <1>i DEF AddSwap, TypeOK, AddersSwapOnly
    <2>2. SettledStays'
      BY <1>2, <1>i DEF AddSwap, TypeOK, SettledStays, PinnedHoldSettled
    <2>3. PinnedHoldSettled'
      BY <1>2, <1>i DEF AddSwap, TypeOK, AddersSwapOnly, PinnedHoldSettled
    <2>4. DecodeHoldsOwed' /\ DecodeKnowsSettled'
      BY <1>2, <1>i DEF AddSwap, TypeOK, DecodeHoldsOwed, DecodeKnowsSettled
    <2> QED
      BY <2>1, <2>2, <2>3, <2>4 DEF IndInv
  <1>3. ASSUME NEW r \in Readers, NEW k \in Types, DecodeSnapshot(r, k) PROVE IndInv'
    <2>1. TypeOK' /\ AddersSwapOnly' /\ SettledStays' /\ PinnedHoldSettled'
      BY <1>3, <1>i DEF DecodeSnapshot, TypeOK, AddersSwapOnly, SettledStays, PinnedHoldSettled
    <2>2. DecodeHoldsOwed' /\ DecodeKnowsSettled'
      BY <1>3, <1>i DEF DecodeSnapshot, TypeOK, SettledStays, DecodeHoldsOwed, DecodeKnowsSettled
    <2> QED
      BY <2>1, <2>2 DEF IndInv
  <1>4. ASSUME NEW r \in Readers, Decode(r) PROVE IndInv'
    <2>1. TypeOK' /\ AddersSwapOnly' /\ SettledStays' /\ PinnedHoldSettled'
      BY <1>4, <1>i DEF Decode, TypeOK, AddersSwapOnly, SettledStays, PinnedHoldSettled
    <2>2. DecodeHoldsOwed'
      BY <1>4, <1>i DEF Decode, TypeOK, DecodeHoldsOwed
    <2>3. DecodeKnowsSettled'
      <3> SUFFICES ASSUME NEW q \in Readers, owed'[q], pc'[q] = "idle" PROVE found'[q]
        BY DEF DecodeKnowsSettled
      <3>1. CASE q = r
        BY <3>1, <1>4, <1>i DEF Decode, TypeOK, DecodeHoldsOwed
      <3>2. CASE q # r
        BY <3>2, <1>4, <1>i DEF Decode, TypeOK, DecodeKnowsSettled
      <3> QED
        BY <3>1, <3>2
    <2> QED
      BY <2>1, <2>2, <2>3 DEF IndInv
  <1>5. CASE UNCHANGED vars
    BY <1>5, <1>i DEF vars, IndInv, TypeOK, AddersSwapOnly, SettledStays, PinnedHoldSettled,
       DecodeHoldsOwed, DecodeKnowsSettled
  <1> QED
    BY <1>1, <1>2, <1>3, <1>4, <1>5 DEF Next

\* The inductive invariant holds in every reachable state.
THEOREM Invariance == Spec => []IndInv
  <1>1. Init => IndInv
    BY ThreadsDistinct DEF Init, IndInv, TypeOK, Threads, AddersSwapOnly, SettledStays,
       PinnedHoldSettled, DecodeHoldsOwed, DecodeKnowsSettled
  <1> QED
    BY <1>1, IndInvStep, PTL DEF Spec

\* What can be relied on despite the copy made outside the unique lock: a
\* registration that overlapped no other is never undone.
THEOREM SettledIsPermanent == Spec => []SettledStays
  <1>1. IndInv => SettledStays
    BY DEF IndInv
  <1> QED
    BY <1>1, Invariance, PTL

\* A decode that begins after its type was settled finds the type, whatever
\* registrations run meanwhile.
THEOREM DecodeSucceeds == Spec => []DecodeKnowsSettled
  <1>1. IndInv => DecodeKnowsSettled
    BY DEF IndInv
  <1> QED
    BY <1>1, Invariance, PTL
=============================================================================
