--------------------------- MODULE EnrollmentProof ---------------------------
(***************************************************************************)
(* Proofs about tokens, keys and the key set in memory, for every number   *)
(* of orgs, machines, tokens and requests and every deployment.            *)
(***************************************************************************)
EXTENDS Enrollment, TLAPS, WellFoundedInduction

USE EnrollmentAssumption

-----------------------------------------------------------------------------
(***************************************************************************)
(* The inductive invariant.                                                *)
(***************************************************************************)

\* What a request knows at each of its stages, and that a key is minted once.
RequestOK(r) ==
    /\ req[r].pc \in {"new", "bound", "consume", "save"} => key[r] = NoKey
    /\ req[r].pc \in {"bound", "consume", "save", "row"} => req[r].t \in Tokens
    /\ req[r].pc \notin {"new", "done"} => req[r].m \in Machines /\ req[r].o \in Orgs

\* A key that exists is a key of a machine for an org, minted with a token that
\* has been used, and is listed by its age.
KeyOK(k) ==
    \/ key[k] = NoKey
    \/ /\ key[k].st # "none"
       /\ key[k].m \in Machines /\ key[k].o \in Orgs /\ key[k].t \in Tokens
       /\ tok[key[k].t].used
       /\ \E i \in DOMAIN minted : minted[i] = k

ShapeInv == TypeOK /\ \A r \in Reqs : RequestOK(r) /\ KeyOK(r)

\* Without overlap one request runs at a time.
OneRuns == ~mode.overlap => \A q, r \in Reqs : Running(q) /\ Running(r) => q = r

\* The token a transaction is about to save has no key yet: no other
\* transaction came between its read and its save.
TokenInv ==
    /\ OneKeyPerToken
    /\ \A r \in Reqs : req[r].pc = "save" =>
          /\ ~mode.serial
          /\ ~mode.overlap => \A k \in Reqs : key[k].st # "none" => key[k].t # req[r].t

\* The accepted keys of the machine that is enrolling are of the org it enrolls
\* into.
WorkspaceInv ==
    /\ OneWorkspace
    /\ ~mode.overlap /\ ~mode.fails =>
          \A r \in Reqs : req[r].pc \in {"consume", "save"} =>
              \A k \in Reqs : key[k].st = "active" /\ key[k].m = req[r].m => key[k].o = req[r].o

\* The memory is behind the store only while a request that changed the store
\* has its reload before it.
CacheInv ==
    ~mode.overlap /\ ~mode.fails =>
        /\ \A r \in Reqs : req[r].pc = "swap" => copy[r] = ActiveAgentKeys
        /\ (\A r \in Reqs : req[r].pc \notin {"drop", "revoke", "load", "swap"})
              => cache = ActiveAgentKeys

Rest == OneRuns /\ TokenInv /\ WorkspaceInv /\ CacheInv

IInv == ShapeInv /\ Rest

-----------------------------------------------------------------------------
(***************************************************************************)
(* The newest key.                                                         *)
(***************************************************************************)

\* A set of numbers has a least one.
LEMMA Least ==
    ASSUME NEW T \in SUBSET Nat, T # {}
    PROVE  \E x \in T : \A y \in T : x <= y
<1>1. PICK x \in T : \A y \in T : ~(<<y, x>> \in OpToRel(<, Nat))
  BY NatLessThanWellFounded, WFMin
<1>2. \A y \in T : ~(y < x)
  BY <1>1 DEF OpToRel
<1> QED
  BY <1>2

\* A bounded set of numbers has a greatest one.
LEMMA Greatest ==
    ASSUME NEW n \in Nat, NEW T \in SUBSET (1 .. n), T # {}
    PROVE  \E x \in T : \A y \in T : y <= x
<1> DEFINE U == {n - x : x \in T}
<1>1. PICK t \in T : TRUE
  OBVIOUS
<1>2. n - t \in U /\ U \in SUBSET Nat
  OBVIOUS
<1> HIDE DEF U
<1>3. PICK u \in U : \A v \in U : u <= v
  BY <1>2, Least
<1>4. PICK x \in T : u = n - x
  BY <1>3 DEF U
<1>5. ASSUME NEW y \in T PROVE y <= x
  <2>1. n - y \in U
    BY DEF U
  <2> QED
    BY <1>3, <1>4, <2>1
<1> QED
  BY <1>5

\* AgentKeyByMachine finds a key whenever the machine has an accepted one
\* (store/enrollment.go), and what it finds is one.
LEMMA NewestKey ==
    ASSUME ShapeInv, NEW m \in Machines
    PROVE  /\ \A k \in AgentKeyByMachine(m) :
                 k \in Reqs /\ key[k].m = m /\ key[k].st = "active"
           /\ (\E k \in Reqs : key[k].m = m /\ key[k].st = "active")
                 => AgentKeyByMachine(m) # {}
<1> DEFINE mine == {i \in DOMAIN minted : key[minted[i]].m = m /\ key[minted[i]].st = "active"}
<1>1. minted \in Seq(Reqs) /\ Len(minted) \in Nat /\ DOMAIN minted = 1 .. Len(minted)
  BY DEF ShapeInv, TypeOK
<1>2. AgentKeyByMachine(m) = {minted[i] : i \in {j \in mine : \A l \in mine : l <= j}}
  BY DEF AgentKeyByMachine
<1>3. mine \in SUBSET (1 .. Len(minted))
  BY <1>1
<1>4. \A i \in mine : minted[i] \in Reqs /\ key[minted[i]].m = m /\ key[minted[i]].st = "active"
  BY <1>1
<1>5. ASSUME NEW k \in Reqs, key[k].m = m, key[k].st = "active"
      PROVE  mine # {}
  <2>1. PICK i \in DOMAIN minted : minted[i] = k
    BY <1>5 DEF ShapeInv, KeyOK, NoKey
  <2> QED
    BY <1>5, <2>1
<1> HIDE DEF mine
<1>6. mine # {} => AgentKeyByMachine(m) # {}
  <2> SUFFICES ASSUME mine # {} PROVE AgentKeyByMachine(m) # {}
    OBVIOUS
  <2>1. PICK x \in mine : \A y \in mine : y <= x
    BY <1>1, <1>3, Greatest
  <2>2. minted[x] \in AgentKeyByMachine(m)
    BY <1>2, <2>1
  <2> QED
    BY <2>2
<1> QED
  BY <1>2, <1>4, <1>5, <1>6
-----------------------------------------------------------------------------
(***************************************************************************)
(* Types, and what requests and keys look like.                            *)
(***************************************************************************)

\* The types of the variables without what relates them.
Bits == [exists : BOOLEAN, revoked : BOOLEAN, used : BOOLEAN]
Keys == [st : {"none", "active", "revoked", "deleted"}, m : Machines \cup {NoMachine},
         o : Orgs \cup {NoOrg}, t : Tokens \cup {NoToken}]
Requests == [pc : PCs, m : Machines \cup {NoMachine}, o : Orgs \cup {NoOrg},
             t : Tokens \cup {NoToken}]

StoreTypes ==
    /\ mode \in Modes
    /\ tok \in [Tokens -> Bits] /\ expired \subseteq Tokens
    /\ key \in [Reqs -> Keys] /\ minted \in Seq(Reqs)
    /\ row \in [Machines -> Orgs \cup {NoOrg}]

MemoryTypes ==
    /\ cache \in [Reqs -> Orgs \cup {NoOrg}]
    /\ copy \in [Reqs -> [Reqs -> Orgs \cup {NoOrg}]]
    /\ agentKey \in [Machines -> SUBSET Reqs]
    /\ conn \in [Machines -> Orgs \cup {NoOrg}]
    /\ live \in [Machines -> SUBSET Orgs]

ReqTypes == req \in [Reqs -> Requests]

Shape ==
    /\ StoreTypes /\ MemoryTypes /\ ReqTypes
    /\ \A r \in Reqs : RequestOK(r)
    /\ \A k \in Reqs : KeyOK(k)

LEMMA ShapeSplit == Shape <=> ShapeInv
<1>1. StoreTypes /\ MemoryTypes /\ ReqTypes /\ (\A k \in Reqs : KeyOK(k))
      <=> TypeOK /\ \A k \in Reqs : KeyOK(k)
  BY DEF StoreTypes, MemoryTypes, ReqTypes, Bits, Keys, Requests, TypeOK, KeyOK, NoKey
<1> QED
  BY <1>1 DEF Shape, ShapeInv

\* Request r moves on to the stage p.
Moved(r, p) ==
    /\ req' \in [Reqs -> Requests]
    /\ req'[r].pc = p
    /\ req'[r].m = req[r].m /\ req'[r].o = req[r].o /\ req'[r].t = req[r].t
    /\ \A q \in Reqs \ {r} : req'[q] = req[q]

LEMMA GotoMoves ==
    ASSUME ReqTypes, NEW r \in Reqs, NEW p \in PCs, Goto(r, p)
    PROVE  Moved(r, p)
  BY DEF ReqTypes, Requests, Goto, Moved

\* Nothing is lost from what a key refers to.
Grows ==
    /\ \A t \in Tokens : tok[t].used => tok'[t].used
    /\ \A i \in DOMAIN minted : i \in DOMAIN minted' /\ minted'[i] = minted[i]

\* A key stays the key of its machine and its token.
KeyKept(k) ==
    \/ key'[k] = key[k]
    \/ /\ key[k] # NoKey
       /\ key'[k].st # "none" /\ key'[k].m = key[k].m /\ key'[k].t = key[k].t
       /\ key'[k].o \in Orgs

LEMMA KeyFrame ==
    ASSUME Grows, NEW k \in Reqs, KeyOK(k), KeyKept(k)
    PROVE  KeyOK(k)'
  BY DEF Grows, KeyOK, KeyKept

LEMMA RequestFrame ==
    ASSUME NEW r \in Reqs, RequestOK(r), req'[r] = req[r], key[r] = NoKey => key'[r] = NoKey
    PROVE  RequestOK(r)'
  BY DEF RequestOK

\* A step of one request that mints no key.
LEMMA MoveFrame ==
    ASSUME Shape, NEW r \in Reqs, NEW p \in PCs, Moved(r, p), Grows,
           \A k \in Reqs : KeyKept(k),
           \/ p = "done"
           \/ req[r].pc \notin {"new", "done"} /\ p \in {"load", "swap", "revoke"}
           \/ req[r].pc \notin {"new", "done"} /\ p = "row" /\ req[r].t \in Tokens
           \/ req[r].pc \in {"bound", "consume"} /\ p \in {"consume", "save"}
    PROVE  ReqTypes' /\ (\A q \in Reqs : RequestOK(q)') /\ (\A k \in Reqs : KeyOK(k)')
<1>1. \A k \in Reqs : KeyOK(k)'
  BY KeyFrame DEF Shape
<1>2. \A k \in Reqs : key[k] = NoKey => key'[k] = NoKey
  BY DEF KeyKept
<1>3. ASSUME NEW q \in Reqs PROVE RequestOK(q)'
  <2>1. CASE q = r
    BY <1>2, <2>1 DEF Shape, Moved, RequestOK
  <2>2. CASE q # r
    BY <1>2, <2>2, RequestFrame DEF Shape, Moved
  <2> QED
    BY <2>1, <2>2
<1> QED
  BY <1>1, <1>3 DEF Moved, ReqTypes

\* A step that starts a request.
LEMMA StartFrame ==
    ASSUME Shape, NEW r \in Reqs, req[r].pc = "new",
           NEW p \in {"bound", "drop", "load"}, NEW m \in Machines, NEW o \in Orgs,
           NEW t \in Tokens \cup {NoToken}, p = "bound" => t \in Tokens,
           req' = [req EXCEPT ![r] = [pc |-> p, m |-> m, o |-> o, t |-> t]],
           Grows, \A k \in Reqs : KeyKept(k)
    PROVE  ReqTypes' /\ (\A q \in Reqs : RequestOK(q)') /\ (\A k \in Reqs : KeyOK(k)')
<1>1. \A k \in Reqs : KeyOK(k)'
  BY KeyFrame DEF Shape
<1>2. \A k \in Reqs : key[k] = NoKey => key'[k] = NoKey
  BY DEF KeyKept
<1>3. [pc |-> p, m |-> m, o |-> o, t |-> t] \in Requests
  BY DEF Requests, PCs
<1>4. /\ req' \in [Reqs -> Requests]
      /\ req'[r] = [pc |-> p, m |-> m, o |-> o, t |-> t]
      /\ \A q \in Reqs \ {r} : req'[q] = req[q]
  BY <1>3 DEF Shape, ReqTypes
<1>5. ASSUME NEW q \in Reqs PROVE RequestOK(q)'
  <2>1. CASE q = r
    BY <1>2, <1>4, <2>1 DEF Shape, RequestOK
  <2>2. CASE q # r
    BY <1>2, <1>4, <2>2, RequestFrame DEF Shape
  <2> QED
    BY <2>1, <2>2
<1> QED
  BY <1>1, <1>4, <1>5 DEF ReqTypes

\* Request r mints its key from a row it has read.
Minted(r) ==
    /\ key' \in [Reqs -> Keys]
    /\ key'[r].st = "active" /\ key'[r].m = req[r].m /\ key'[r].o = req[r].o
    /\ key'[r].t = req[r].t
    /\ \A k \in Reqs \ {r} : key'[k] = key[k]
    /\ tok' \in [Tokens -> Bits] /\ tok'[req[r].t].used
    /\ minted' \in Seq(Reqs) /\ (\E i \in DOMAIN minted' : minted'[i] = r)
    /\ Grows
    /\ Moved(r, "load")

LEMMA MintFacts ==
    ASSUME Shape, NEW r \in Reqs, req[r].pc \in {"consume", "save"}, NEW read \in Bits,
           SaveAndMint(r, read)
    PROVE  Minted(r)
<1>1. req[r].t \in Tokens /\ req[r].m \in Machines /\ req[r].o \in Orgs
  BY DEF Shape, RequestOK
<1>2. [st |-> "active", m |-> req[r].m, o |-> req[r].o, t |-> req[r].t] \in Keys
  BY <1>1 DEF Keys
<1>3. /\ key' \in [Reqs -> Keys]
      /\ key'[r] = [st |-> "active", m |-> req[r].m, o |-> req[r].o, t |-> req[r].t]
      /\ \A k \in Reqs \ {r} : key'[k] = key[k]
  BY <1>2 DEF SaveAndMint, Shape, StoreTypes
<1>4. [read EXCEPT !.used = TRUE] \in Bits /\ [read EXCEPT !.used = TRUE].used
  BY DEF Bits
<1>5. /\ tok' \in [Tokens -> Bits] /\ tok'[req[r].t].used
      /\ \A t \in Tokens : tok[t].used => tok'[t].used
  BY <1>1, <1>4 DEF SaveAndMint, Shape, StoreTypes
<1>6. /\ minted' \in Seq(Reqs) /\ Len(minted) + 1 \in DOMAIN minted'
      /\ minted'[Len(minted) + 1] = r
      /\ \A i \in DOMAIN minted : i \in DOMAIN minted' /\ minted'[i] = minted[i]
  BY DEF SaveAndMint, Shape, StoreTypes
<1>7. Moved(r, "load")
  BY GotoMoves DEF SaveAndMint, Shape, PCs
<1> QED
  BY <1>3, <1>5, <1>6, <1>7 DEF Minted, Grows

LEMMA MintFrame ==
    ASSUME Shape, NEW r \in Reqs, req[r].pc \in {"consume", "save"}, Minted(r)
    PROVE  ReqTypes' /\ (\A q \in Reqs : RequestOK(q)') /\ (\A k \in Reqs : KeyOK(k)')
<1>1. req[r].t \in Tokens /\ req[r].m \in Machines /\ req[r].o \in Orgs
  BY DEF Shape, RequestOK
<1>2. ASSUME NEW k \in Reqs PROVE KeyOK(k)'
  <2>1. CASE k = r
    BY <1>1, <2>1 DEF Minted, KeyOK
  <2>2. CASE k # r
    BY <2>2, KeyFrame DEF Shape, Minted, KeyKept
  <2> QED
    BY <2>1, <2>2
<1>3. ASSUME NEW q \in Reqs PROVE RequestOK(q)'
  <2>1. CASE q = r
    BY <1>1, <2>1 DEF Minted, Moved, RequestOK
  <2>2. CASE q # r
    BY <2>2, RequestFrame DEF Shape, Minted, Moved
  <2> QED
    BY <2>1, <2>2
<1> QED
  BY <1>2, <1>3 DEF Minted, Moved, ReqTypes

LEMMA ShapeInit == Init => Shape
<1> SUFFICES ASSUME Init PROVE Shape
  OBVIOUS
<1>1. StoreTypes /\ MemoryTypes /\ ReqTypes
  BY DEF Init, StoreTypes, MemoryTypes, ReqTypes, Bits, Keys, Requests, NoRow, NoKey, Fresh,
         NoKeys, PCs
<1>2. \A r \in Reqs : RequestOK(r) /\ KeyOK(r)
  BY DEF Init, RequestOK, KeyOK, Fresh
<1> QED
  BY <1>1, <1>2 DEF Shape

LEMMA ShapeStep == Shape /\ [Next]_vars => Shape'
<1> SUFFICES ASSUME Shape, [Next]_vars PROVE Shape'
  OBVIOUS
<1> USE DEF storeVars, agentVars
<1> DEFINE ReqsOK == ReqTypes' /\ (\A q \in Reqs : RequestOK(q)') /\ (\A k \in Reqs : KeyOK(k)')
<1>a. ASSUME UNCHANGED <<req, key>>, Grows PROVE ReqsOK
  BY <1>a, KeyFrame, RequestFrame DEF Shape, ReqTypes, KeyKept
<1>b. ASSUME UNCHANGED <<tok, key, minted>> PROVE Grows /\ \A k \in Reqs : KeyKept(k)
  BY <1>b DEF Grows, KeyKept
<1>c. ASSUME UNCHANGED <<tok, minted>> PROVE Grows
  BY <1>c DEF Grows
<1> SUFFICES StoreTypes' /\ MemoryTypes' /\ ReqsOK
  BY DEF Shape
<1> HIDE DEF ReqsOK
<1>k. ASSUME NEW k \in Reqs
      PROVE  /\ key[k] \in Keys
             /\ [key[k] EXCEPT !.st = "revoked"] \in Keys
             /\ [key[k] EXCEPT !.st = "deleted"] \in Keys
             /\ \A o \in Orgs : [key[k] EXCEPT !.o = o] \in Keys
  BY DEF Shape, StoreTypes, Keys
<1>1. CASE TokenStep
  <2>1. StoreTypes' /\ MemoryTypes' /\ Grows
    <3>1. ASSUME NEW t \in Tokens, CreateEnrollToken(t) PROVE StoreTypes' /\ MemoryTypes' /\ Grows
      <4>1. tok[t] = NoRow /\ tok' = [tok EXCEPT ![t] = [tok[t] EXCEPT !.exists = TRUE]]
        BY <3>1 DEF CreateEnrollToken
      <4>2. [tok[t] EXCEPT !.exists = TRUE] \in Bits /\ ~tok[t].used
        <5>1. tok[t] \in Bits
          BY DEF Shape, StoreTypes
        <5>2. ~tok[t].used
          BY <4>1 DEF NoRow
        <5> QED
          BY <5>1, <5>2 DEF Bits
      <4>3. tok' \in [Tokens -> Bits] /\ \A u \in Tokens : tok[u].used => tok'[u].used
        BY <4>1, <4>2 DEF Shape, StoreTypes
      <4> QED
        BY <3>1, <4>3 DEF CreateEnrollToken, Shape, StoreTypes, MemoryTypes, Grows
    <3>2. ASSUME NEW t \in Tokens, RevokeEnrollToken(t) PROVE StoreTypes' /\ MemoryTypes' /\ Grows
      <4>1. tok' = [tok EXCEPT ![t] = [tok[t] EXCEPT !.revoked = TRUE]]
        BY <3>2 DEF RevokeEnrollToken
      <4>2. /\ [tok[t] EXCEPT !.revoked = TRUE] \in Bits
            /\ [tok[t] EXCEPT !.revoked = TRUE].used = tok[t].used
        BY DEF Bits, Shape, StoreTypes
      <4>3. tok' \in [Tokens -> Bits] /\ \A u \in Tokens : tok[u].used => tok'[u].used
        BY <4>1, <4>2 DEF Shape, StoreTypes
      <4> QED
        BY <3>2, <4>3 DEF RevokeEnrollToken, Shape, StoreTypes, MemoryTypes, Grows
    <3>3. ASSUME NEW t \in Tokens, Expire(t) PROVE StoreTypes' /\ MemoryTypes' /\ Grows
      BY <3>3 DEF Expire, Shape, StoreTypes, MemoryTypes, Bits, Grows
    <3>4. ASSUME PruneExpiredTokens PROVE StoreTypes' /\ MemoryTypes' /\ Grows
      BY <3>4 DEF PruneExpiredTokens, Shape, StoreTypes, MemoryTypes, Bits, Grows, NoRow
    <3> QED
      BY <1>1, <3>1, <3>2, <3>3, <3>4 DEF TokenStep
  <2>2. UNCHANGED <<req, key>>
    BY <1>1 DEF TokenStep, CreateEnrollToken, RevokeEnrollToken, Expire, PruneExpiredTokens
  <2> QED
    BY <1>a, <2>1, <2>2
<1>2. ASSUME NEW r \in Reqs, NEW t \in Tokens, NEW m \in Machines, EnrollStarts(r, t, m)
      PROVE  StoreTypes' /\ MemoryTypes' /\ ReqsOK
  <2>1. ReqsOK
    BY <1>2, <1>b, StartFrame DEF EnrollStarts, MayStart, ReqsOK
  <2> QED
    BY <1>2, <2>1 DEF EnrollStarts, Shape, StoreTypes, MemoryTypes
<1>3. ASSUME NEW r \in Reqs, CheckMachine(r) PROVE StoreTypes' /\ MemoryTypes' /\ ReqsOK
  <2>1. PICK p \in {"done", "consume"} : Goto(r, p)
    BY <1>3 DEF CheckMachine
  <2>2. ReqsOK
    BY <1>3, <1>b, <2>1, GotoMoves, MoveFrame DEF CheckMachine, ReqsOK, Shape, PCs
  <2> QED
    BY <1>3, <2>2 DEF CheckMachine, Shape, StoreTypes, MemoryTypes
<1>4. ASSUME NEW r \in Reqs, Consume(r) PROVE StoreTypes' /\ MemoryTypes' /\ ReqsOK
  <2>1. CASE SaveAndMint(r, tok[req[r].t])
    <3>1. tok[req[r].t] \in Bits
      BY <1>4 DEF Consume, Shape, StoreTypes, RequestOK
    <3>2. Minted(r) /\ req[r].pc \in {"consume", "save"}
      BY <1>4, <2>1, <3>1, MintFacts DEF Consume
    <3> QED
      BY <1>4, <3>2, MintFrame DEF Consume, Minted, ReqsOK, Shape, StoreTypes, MemoryTypes
  <2>2. CASE Goto(r, "done") /\ UNCHANGED <<tok, key, minted>>
    <3>1. ReqsOK
      BY <1>b, <2>2, GotoMoves, MoveFrame DEF ReqsOK, Shape, PCs
    <3> QED
      BY <1>4, <2>2, <3>1 DEF Consume, Shape, StoreTypes, MemoryTypes
  <2> QED
    BY <1>4, <2>1, <2>2 DEF Consume
<1>5. ASSUME NEW r \in Reqs, ConsumeReads(r) PROVE StoreTypes' /\ MemoryTypes' /\ ReqsOK
  <2>1. PICK p \in {"done", "save"} : Goto(r, p)
    BY <1>5 DEF ConsumeReads
  <2>2. ReqsOK
    BY <1>5, <1>b, <2>1, GotoMoves, MoveFrame DEF ConsumeReads, ReqsOK, Shape, PCs
  <2> QED
    BY <1>5, <2>2 DEF ConsumeReads, Shape, StoreTypes, MemoryTypes
<1>6. ASSUME NEW r \in Reqs, ConsumeSaves(r) PROVE StoreTypes' /\ MemoryTypes' /\ ReqsOK
  <2>1. CASE SaveAndMint(r, [exists |-> TRUE, revoked |-> FALSE, used |-> FALSE])
    <3>1. [exists |-> TRUE, revoked |-> FALSE, used |-> FALSE] \in Bits
      BY DEF Bits
    <3>2. Minted(r) /\ req[r].pc \in {"consume", "save"}
      BY <1>6, <2>1, <3>1, MintFacts DEF ConsumeSaves
    <3> QED
      BY <1>6, <3>2, MintFrame DEF ConsumeSaves, Minted, ReqsOK, Shape, StoreTypes, MemoryTypes
  <2>2. CASE Goto(r, "done") /\ UNCHANGED <<tok, key, minted>>
    <3>1. ReqsOK
      BY <1>b, <2>2, GotoMoves, MoveFrame DEF ReqsOK, Shape, PCs
    <3> QED
      BY <1>6, <2>2, <3>1 DEF ConsumeSaves, Shape, StoreTypes, MemoryTypes
  <2> QED
    BY <1>6, <2>1, <2>2 DEF ConsumeSaves
<1>r. ASSUME NEW r \in Reqs
      PROVE  /\ AfterReload(r) \in PCs
             /\ AfterReload(r) = "done" \/ (AfterReload(r) = "row" /\ req[r].t \in Tokens)
  <2>1. req[r].t \in Tokens \cup {NoToken}
    BY DEF Shape, ReqTypes, Requests
  <2> QED
    BY <2>1 DEF AfterReload, PCs
<1>7. ASSUME NEW r \in Reqs, ReloadReads(r) PROVE StoreTypes' /\ MemoryTypes' /\ ReqsOK
  <2>1. PICK p \in {"swap", AfterReload(r)} : Goto(r, p)
    BY <1>7 DEF ReloadReads
  <2>2. ReqsOK
    BY <1>7, <1>b, <1>r, <2>1, GotoMoves, MoveFrame DEF ReloadReads, ReqsOK, Shape, PCs
  <2>3. ActiveAgentKeys \in [Reqs -> Orgs \cup {NoOrg}]
    BY DEF ActiveAgentKeys, Shape, StoreTypes, Keys
  <2>4. copy' \in [Reqs -> [Reqs -> Orgs \cup {NoOrg}]]
    BY <1>7, <2>3 DEF ReloadReads, Shape, MemoryTypes
  <2> QED
    BY <1>7, <2>2, <2>4 DEF ReloadReads, Shape, StoreTypes, MemoryTypes
<1>8. ASSUME NEW r \in Reqs, ReloadSwaps(r) PROVE StoreTypes' /\ MemoryTypes' /\ ReqsOK
  <2>1. Goto(r, AfterReload(r))
    BY <1>8 DEF ReloadSwaps
  <2>2. ReqsOK
    BY <1>8, <1>b, <1>r, <2>1, GotoMoves, MoveFrame DEF ReloadSwaps, ReqsOK, Shape
  <2> QED
    BY <1>8, <2>2 DEF ReloadSwaps, Shape, StoreTypes, MemoryTypes, NoKeys
<1>9. ASSUME NEW r \in Reqs, EnrollAnswers(r) PROVE StoreTypes' /\ MemoryTypes' /\ ReqsOK
  <2>1. ReqsOK
    BY <1>9, <1>b, GotoMoves, MoveFrame DEF EnrollAnswers, ReqsOK, Shape, PCs
  <2>2. req[r].m \in Machines /\ req[r].o \in Orgs
    BY <1>9 DEF EnrollAnswers, Shape, RequestOK
  <2> QED
    BY <1>9, <2>1, <2>2 DEF EnrollAnswers, SaveRow, Shape, StoreTypes, MemoryTypes
<1>10. ASSUME NEW r \in Reqs, NEW m \in Machines, NEW o \in Orgs, DeleteStarts(r, m, o)
       PROVE  StoreTypes' /\ MemoryTypes' /\ ReqsOK
  <2>1. key' \in [Reqs -> Keys]
    BY <1>10, <1>k DEF DeleteStarts, Shape, StoreTypes
  <2>2. \A k \in Reqs : KeyKept(k)
    BY <1>10 DEF DeleteStarts, KeysOf, Shape, StoreTypes, Keys, KeyOK, KeyKept, NoKey
  <2>3. ReqsOK
    BY <1>10, <1>c, <2>2, StartFrame DEF DeleteStarts, MayStart, ReqsOK
  <2> QED
    BY <1>10, <2>1, <2>3 DEF DeleteStarts, Shape, StoreTypes, MemoryTypes
<1>11. ASSUME NEW r \in Reqs, NEW m \in Machines, NEW o \in Orgs, ReassignStarts(r, m, o)
       PROVE  StoreTypes' /\ MemoryTypes' /\ ReqsOK
  <2>1. key' \in [Reqs -> Keys]
    <3>1. key' = [k \in Reqs |-> IF k \in KeysOf(m) THEN [key[k] EXCEPT !.o = o] ELSE key[k]]
          \/ key' = key
      BY <1>11 DEF ReassignStarts
    <3>2. \A k \in Reqs : key[k] \in Keys /\ [key[k] EXCEPT !.o = o] \in Keys
      BY <1>k
    <3> QED
      BY <3>1, <3>2 DEF Shape, StoreTypes
  <2>2. \A k \in Reqs : KeyKept(k)
    BY <1>11 DEF ReassignStarts, KeysOf, Shape, StoreTypes, Keys, KeyOK, KeyKept, NoKey
  <2>3. ReqsOK
    BY <1>11, <1>c, <2>2, StartFrame DEF ReassignStarts, MayStart, ReqsOK
  <2> QED
    BY <1>11, <2>1, <2>3 DEF ReassignStarts, Shape, StoreTypes, MemoryTypes
<1>12. ASSUME NEW r \in Reqs, DeleteDropsLive(r) PROVE StoreTypes' /\ MemoryTypes' /\ ReqsOK
  <2>1. ReqsOK
    BY <1>12, <1>b, GotoMoves, MoveFrame DEF DeleteDropsLive, ReqsOK, Shape, PCs
  <2> QED
    BY <1>12, <2>1 DEF DeleteDropsLive, Shape, StoreTypes, MemoryTypes
<1>13. ASSUME NEW r \in Reqs, DeleteRevokes(r) PROVE StoreTypes' /\ MemoryTypes' /\ ReqsOK
  <2>1. key' \in [Reqs -> Keys]
    <3>1. \/ key' = [k \in Reqs |-> IF k \in KeysOf(req[r].m)
                                    THEN [key[k] EXCEPT !.st = "revoked"] ELSE key[k]]
          \/ key' = key
      BY <1>13 DEF DeleteRevokes, RevokeThen
    <3> QED
      BY <1>k, <3>1 DEF Shape, StoreTypes
  <2>2. \A k \in Reqs : KeyKept(k)
    <3>1. req[r].m \in Machines
      BY <1>13 DEF DeleteRevokes, RevokeThen, Shape, RequestOK
    <3> QED
      BY <1>13, <3>1
         DEF DeleteRevokes, RevokeThen, KeysOf, Shape, StoreTypes, Keys, KeyOK, KeyKept, NoKey
  <2>3. ReqsOK
    BY <1>13, <1>c, <2>2, GotoMoves, MoveFrame DEF DeleteRevokes, RevokeThen, ReqsOK, Shape, PCs
  <2> QED
    BY <1>13, <2>1, <2>3 DEF DeleteRevokes, RevokeThen, Shape, StoreTypes, MemoryTypes
<1>14. ASSUME NEW m \in Machines, Connect(m) \/ Heartbeat(m) \/ Disconnect(m)
       PROVE  StoreTypes' /\ MemoryTypes' /\ ReqsOK
  <2>1. UNCHANGED <<req, key, tok, minted, mode, expired, cache, copy, agentKey>>
    BY <1>14 DEF Connect, Heartbeat, Disconnect
  <2>2. ReqsOK
    BY <1>a, <1>c, <2>1
  <2>3. \A k \in agentKey[m] : cache[k] \in Orgs \cup {NoOrg}
    BY DEF Shape, MemoryTypes
  <2>4. conn[m] \in Orgs \cup {NoOrg}
    BY DEF Shape, MemoryTypes
  <2>5. row' \in [Machines -> Orgs \cup {NoOrg}]
    BY <1>14, <2>3, <2>4 DEF Connect, Heartbeat, Disconnect, SaveRow, Shape, StoreTypes
  <2>6. conn' \in [Machines -> Orgs \cup {NoOrg}] /\ live' \in [Machines -> SUBSET Orgs]
    <3>1. CASE Connect(m)
      BY <3>1, <2>3 DEF Connect, Shape, MemoryTypes
    <3>2. CASE Heartbeat(m) \/ Disconnect(m)
      BY <3>2 DEF Heartbeat, Disconnect, Shape, MemoryTypes
    <3> QED
      BY <1>14, <3>1, <3>2
  <2> QED
    BY <2>1, <2>2, <2>5, <2>6 DEF Shape, StoreTypes, MemoryTypes
<1>15. ASSUME ServerRestarts PROVE StoreTypes' /\ MemoryTypes' /\ ReqsOK
  <2>1. ReqTypes'
    <3>1. \A r \in Reqs : req[r] \in Requests /\ [req[r] EXCEPT !.pc = "done"] \in Requests
      BY DEF Shape, ReqTypes, Requests, PCs
    <3> QED
      BY <1>15, <3>1 DEF ServerRestarts, ReqTypes
  <2>2. ASSUME NEW q \in Reqs PROVE RequestOK(q)'
    BY <1>15 DEF ServerRestarts, Shape, ReqTypes, Requests, Running, RequestOK
  <2>3. \A k \in Reqs : KeyOK(k)'
    BY <1>15, <1>b, KeyFrame DEF ServerRestarts, Shape
  <2>4. ActiveAgentKeys \in [Reqs -> Orgs \cup {NoOrg}]
    BY DEF ActiveAgentKeys, Shape, StoreTypes, Keys
  <2>5. StoreTypes' /\ MemoryTypes'
    BY <1>15, <2>4 DEF ServerRestarts, Shape, StoreTypes, MemoryTypes, NoKeys
  <2> QED
    BY <2>1, <2>2, <2>3, <2>5 DEF ReqsOK
<1>16. CASE UNCHANGED vars
  BY <1>16, <1>a, <1>c DEF vars, Shape, StoreTypes, MemoryTypes
<1> QED
  BY <1>1, <1>2, <1>3, <1>4, <1>5, <1>6, <1>7, <1>8, <1>9, <1>10, <1>11, <1>12, <1>13,
     <1>14, <1>15, <1>16 DEF Next, RequestStep

-----------------------------------------------------------------------------
(***************************************************************************)
(* What the parts of the invariant need from a step.                       *)
(***************************************************************************)

LEMMA OneRunsMove ==
    ASSUME OneRuns, UNCHANGED mode, NEW r \in Reqs, Running(r),
           \A q \in Reqs \ {r} : req'[q] = req[q]
    PROVE  OneRuns' /\ (~mode.overlap => \A q \in Reqs \ {r} : ~Running(q)')
  BY DEF OneRuns, Running

LEMMA OneRunsStart ==
    ASSUME OneRuns, UNCHANGED mode, NEW r \in Reqs, MayStart(r),
           \A q \in Reqs \ {r} : req'[q] = req[q]
    PROVE  OneRuns' /\ (~mode.overlap => \A q \in Reqs \ {r} : ~Running(q)')
  BY DEF OneRuns, MayStart, Running

\* No key is minted and no transaction reads a token.
LEMMA TokenFrame ==
    ASSUME Shape, TokenInv, UNCHANGED mode, \A k \in Reqs : KeyKept(k),
           \A q \in Reqs : req'[q].pc = "save" => req[q].pc = "save" /\ req'[q].t = req[q].t
    PROVE  TokenInv'
<1>1. \A k \in Reqs : key'[k].st # "none" => key[k].st # "none" /\ key'[k].t = key[k].t
  BY DEF Shape, KeyKept, KeyOK
<1> QED
  BY <1>1 DEF TokenInv, OneKeyPerToken

\* Request r mints a key: its token has none yet.
LEMMA TokenMint ==
    ASSUME Shape, TokenInv, UNCHANGED mode, NEW r \in Reqs, Minted(r), OneRuns,
           req[r].pc \in {"consume", "save"},
           mode.serial \/ ~mode.overlap =>
               \A k \in Reqs : key[k].st # "none" => key[k].t # req[r].t
    PROVE  TokenInv'
<1>1. OneKeyPerToken'
  BY DEF OneKeyPerToken, TokenInv, Minted
<1>2. ~mode.overlap => \A q \in Reqs \ {r} : ~Running(q)
  BY DEF OneRuns, Running
<1>3. ASSUME NEW q \in Reqs, req'[q].pc = "save"
      PROVE  ~mode.serial /\ mode.overlap
  BY <1>2, <1>3 DEF TokenInv, Minted, Moved, Running
<1> QED
  BY <1>1, <1>3 DEF TokenInv

\* No key becomes accepted, or changes its org, and no request passes the check.
LEMMA WorkspaceFrame ==
    ASSUME WorkspaceInv, UNCHANGED mode,
           \A k \in Reqs : key'[k].st = "active" =>
               key[k].st = "active" /\ key'[k].m = key[k].m /\ key'[k].o = key[k].o,
           \A q \in Reqs : req'[q].pc \in {"consume", "save"} =>
               /\ req[q].pc \in {"consume", "save"}
               /\ req'[q].m = req[q].m /\ req'[q].o = req[q].o
    PROVE  WorkspaceInv'
  BY DEF WorkspaceInv, OneWorkspace

LEMMA WorkspaceMint ==
    ASSUME WorkspaceInv, OneRuns, UNCHANGED mode, NEW r \in Reqs, Minted(r),
           req[r].pc \in {"consume", "save"}
    PROVE  WorkspaceInv'
<1> SUFFICES ASSUME ~mode.overlap, ~mode.fails PROVE WorkspaceInv'
  BY DEF WorkspaceInv, OneWorkspace
<1>1. OneWorkspace'
  BY DEF WorkspaceInv, OneWorkspace, Minted
<1>2. \A q \in Reqs : req'[q].pc \notin {"consume", "save"}
  BY DEF OneRuns, Running, Minted, Moved
<1> QED
  BY <1>1, <1>2 DEF WorkspaceInv

Dirty == {"drop", "revoke", "load", "swap"}

\* Neither the accepted keys nor the memory change, and no request ends a reload.
LEMMA CacheFrame ==
    ASSUME CacheInv, UNCHANGED <<mode, key, cache>>,
           \A q \in Reqs : req'[q].pc = "swap" => req[q].pc = "swap" /\ copy'[q] = copy[q],
           (\A q \in Reqs : req'[q].pc \notin Dirty) => \A q \in Reqs : req[q].pc \notin Dirty
    PROVE  CacheInv'
<1>1. ActiveAgentKeys' = ActiveAgentKeys
  BY DEF ActiveAgentKeys
<1> QED
  BY <1>1 DEF CacheInv, Dirty

\* The store may change: the request that changes it will reload.
LEMMA CacheDirty ==
    ASSUME UNCHANGED mode, NEW r \in Reqs, req'[r].pc \in {"drop", "revoke", "load"},
           ~mode.overlap => \A q \in Reqs \ {r} : ~Running(q)'
    PROVE  CacheInv'
  BY DEF CacheInv, Running

-----------------------------------------------------------------------------
(***************************************************************************)
(* The rest of the invariant.                                              *)
(***************************************************************************)
LEMMA RestInit == Init => Rest
<1> SUFFICES ASSUME Init PROVE Rest
  OBVIOUS
<1>1. \A r \in Reqs : req[r].pc = "new" /\ ~Running(r) /\ key[r].st = "none"
  BY DEF Init, Fresh, NoKey, Running
<1>2. cache = ActiveAgentKeys
  BY <1>1 DEF Init, ActiveAgentKeys, NoKeys
<1> QED
  BY <1>1, <1>2 DEF Rest, OneRuns, TokenInv, OneKeyPerToken, WorkspaceInv, OneWorkspace, CacheInv

\* A request moves on and leaves keys and memory alone.
LEMMA RestMove ==
    ASSUME Shape, Rest, NEW r \in Reqs, Running(r), NEW p \in PCs, Moved(r, p),
           UNCHANGED <<mode, key, cache, copy>>, p \notin {"consume", "save", "swap"},
           req[r].pc \in Dirty => p \in Dirty
    PROVE  Rest'
<1>1. OneRuns'
  BY OneRunsMove DEF Moved, Rest
<1>2. TokenInv'
  BY TokenFrame DEF Moved, Rest, KeyKept
<1>3. WorkspaceInv'
  BY WorkspaceFrame DEF Moved, Rest
<1>4. CacheInv'
  BY CacheFrame DEF Moved, Rest, Dirty
<1> QED
  BY <1>1, <1>2, <1>3, <1>4 DEF Rest

\* A transaction that mints a key.
LEMMA RestMint ==
    ASSUME Shape, Rest, NEW r \in Reqs, Minted(r), req[r].pc \in {"consume", "save"},
           UNCHANGED mode,
           mode.serial \/ ~mode.overlap =>
               \A k \in Reqs : key[k].st # "none" => key[k].t # req[r].t
    PROVE  Rest'
<1>1. OneRuns' /\ (~mode.overlap => \A q \in Reqs \ {r} : ~Running(q)')
  BY OneRunsMove DEF Minted, Moved, Rest, Running
<1>2. TokenInv'
  BY TokenMint DEF Rest
<1>3. WorkspaceInv'
  BY WorkspaceMint DEF Rest
<1>4. CacheInv'
  BY <1>1, CacheDirty DEF Minted, Moved
<1> QED
  BY <1>1, <1>2, <1>3, <1>4 DEF Rest

LEMMA RestStep == Shape /\ Rest /\ [Next]_vars => Rest'
<1> SUFFICES ASSUME Shape, Rest, [Next]_vars PROVE Rest'
  OBVIOUS
<1> USE DEF storeVars, agentVars
<1>a. ReqTypes /\ Modes \subseteq AllModes /\ mode \in Modes
  BY DEF Shape, StoreTypes
<1>1. ASSUME UNCHANGED <<mode, key, req, cache, copy>> PROVE Rest'
  <2>1. OneRuns'
    BY <1>1 DEF Rest, OneRuns, Running
  <2>2. TokenInv'
    BY <1>1, TokenFrame DEF Rest, KeyKept
  <2>3. WorkspaceInv'
    BY <1>1, WorkspaceFrame DEF Rest
  <2>4. CacheInv'
    BY <1>1, CacheFrame DEF Rest
  <2> QED
    BY <2>1, <2>2, <2>3, <2>4 DEF Rest
<1>2. ASSUME NEW r \in Reqs, NEW t \in Tokens, NEW m \in Machines, EnrollStarts(r, t, m)
      PROVE  Rest'
  <2>1. /\ req[r].pc = "new" /\ req'[r].pc = "bound"
        /\ \A q \in Reqs \ {r} : req'[q] = req[q]
        /\ UNCHANGED <<mode, key, cache, copy>>
    BY <1>a, <1>2 DEF EnrollStarts, MayStart, ReqTypes
  <2>2. OneRuns'
    BY <1>2, <2>1, OneRunsStart DEF EnrollStarts, Rest
  <2>3. TokenInv'
    BY <2>1, TokenFrame DEF Rest, KeyKept
  <2>4. WorkspaceInv'
    BY <2>1, WorkspaceFrame DEF Rest
  <2>5. CacheInv'
    BY <2>1, CacheFrame DEF Rest, Dirty
  <2> QED
    BY <2>2, <2>3, <2>4, <2>5 DEF Rest
<1>3. ASSUME NEW r \in Reqs, CheckMachine(r) PROVE Rest'
  <2>1. PICK p \in {"done", "consume"} : Goto(r, p)
    BY <1>3 DEF CheckMachine
  <2>2. Moved(r, p) /\ Running(r) /\ UNCHANGED <<mode, key, cache, copy>> /\ req[r].pc = "bound"
    BY <1>a, <1>3, <2>1, GotoMoves DEF CheckMachine, Running, PCs
  <2>3. OneRuns' /\ (~mode.overlap => \A q \in Reqs \ {r} : ~Running(q)')
    BY <2>2, OneRunsMove DEF Moved, Rest
  <2>4. TokenInv'
    BY <2>2, TokenFrame DEF Moved, Rest, KeyKept
  <2>5. CacheInv'
    BY <2>2, CacheFrame DEF Moved, Rest, Dirty
  <2>6. WorkspaceInv'
    <3> SUFFICES ASSUME ~mode.overlap, ~mode.fails PROVE WorkspaceInv'
      BY <2>2 DEF WorkspaceInv, OneWorkspace
    <3>1. OneWorkspace'
      BY <2>2 DEF Rest, WorkspaceInv, OneWorkspace
    <3>2. ASSUME NEW q \in Reqs, req'[q].pc \in {"consume", "save"}
          PROVE  q = r /\ p = "consume" /\ req'[q].m = req[r].m /\ req'[q].o = req[r].o
      BY <2>2, <2>3, <3>2 DEF Moved, Running
    <3>3. ASSUME p = "consume", NEW k \in Reqs, key[k].st = "active", key[k].m = req[r].m
          PROVE  key[k].o = req[r].o
      <4>1. req[r].m \in Machines
        BY <2>2 DEF Shape, RequestOK
      <4>2. \A l \in AgentKeyByMachine(req[r].m) :
               l \in Reqs /\ key[l].m = req[r].m /\ key[l].st = "active"
        BY <4>1, ShapeSplit, NewestKey
      <4>3. AgentKeyByMachine(req[r].m) # {}
        BY <3>3, <4>1, ShapeSplit, NewestKey
      <4>4. \A l \in AgentKeyByMachine(req[r].m) : key[l].o = req[r].o
        <5>1. req'[r].pc = "consume"
          BY <2>2, <3>3 DEF Moved
        <5>2. ~(Goto(r, "done"))
          BY <1>a, <5>1, GotoMoves DEF Moved, PCs
        <5> QED
          BY <1>3, <5>2 DEF CheckMachine
      <4> QED
        BY <3>3, <4>2, <4>3, <4>4 DEF Rest, WorkspaceInv, OneWorkspace
    <3> QED
      BY <2>2, <3>1, <3>2, <3>3 DEF WorkspaceInv
  <2> QED
    BY <2>3, <2>4, <2>5, <2>6 DEF Rest
<1>t. ASSUME NEW r \in Reqs, req[r].pc \in {"consume", "save"}, Active(req[r].t)
      PROVE  \A k \in Reqs : key[k].st # "none" => key[k].t # req[r].t
  BY <1>t DEF Active, Shape, KeyOK, NoKey
<1>4. ASSUME NEW r \in Reqs, Consume(r) PROVE Rest'
  <2>1. req[r].pc = "consume" /\ Running(r) /\ UNCHANGED <<mode, cache, copy>>
    BY <1>4 DEF Consume, Running
  <2>2. CASE Active(req[r].t) /\ SaveAndMint(r, tok[req[r].t])
    <3>1. tok[req[r].t] \in Bits
      BY <2>1 DEF Shape, StoreTypes, RequestOK
    <3>2. Minted(r)
      BY <2>1, <2>2, <3>1, MintFacts
    <3> QED
      BY <1>t, <2>1, <2>2, <3>2, RestMint
  <2>3. CASE Goto(r, "done") /\ UNCHANGED <<tok, key, minted>>
    <3>1. Moved(r, "done")
      BY <1>a, <2>3, GotoMoves DEF PCs
    <3> QED
      BY <2>1, <2>3, <3>1, RestMove DEF PCs, Dirty
  <2> QED
    BY <1>4, <2>2, <2>3 DEF Consume
<1>5. ASSUME NEW r \in Reqs, ConsumeReads(r) PROVE Rest'
  <2>1. PICK p \in {"done", "save"} : Goto(r, p) /\ (p = "save" => Active(req[r].t))
    BY <1>5 DEF ConsumeReads
  <2>2. /\ Moved(r, p) /\ Running(r) /\ UNCHANGED <<mode, key, cache, copy>>
        /\ req[r].pc = "consume" /\ ~mode.serial
    BY <1>a, <1>5, <2>1, GotoMoves DEF ConsumeReads, Running, PCs
  <2>3. OneRuns'
    BY <2>2, OneRunsMove DEF Moved, Rest
  <2>4. CacheInv'
    BY <2>2, CacheFrame DEF Moved, Rest, Dirty
  <2>5. WorkspaceInv'
    BY <2>2, WorkspaceFrame DEF Moved, Rest
  <2>6. TokenInv'
    <3>1. ASSUME NEW q \in Reqs, req'[q].pc = "save"
          PROVE  ~mode.overlap => \A k \in Reqs : key[k].st # "none" => key[k].t # req'[q].t
      <4>1. CASE q = r
        BY <1>t, <2>1, <2>2, <3>1, <4>1 DEF Moved
      <4>2. CASE q # r
        BY <2>2, <3>1, <4>2 DEF Moved, Rest, TokenInv
      <4> QED
        BY <4>1, <4>2
    <3>2. OneKeyPerToken'
      BY <2>2 DEF Rest, TokenInv, OneKeyPerToken
    <3> QED
      BY <2>2, <3>1, <3>2 DEF TokenInv
  <2> QED
    BY <2>3, <2>4, <2>5, <2>6 DEF Rest
<1>6. ASSUME NEW r \in Reqs, ConsumeSaves(r) PROVE Rest'
  <2>1. req[r].pc = "save" /\ Running(r) /\ UNCHANGED <<mode, cache, copy>>
    BY <1>6 DEF ConsumeSaves, Running
  <2>2. CASE SaveAndMint(r, [exists |-> TRUE, revoked |-> FALSE, used |-> FALSE])
    <3>1. [exists |-> TRUE, revoked |-> FALSE, used |-> FALSE] \in Bits
      BY DEF Bits
    <3>2. Minted(r)
      BY <2>1, <2>2, <3>1, MintFacts
    <3> QED
      BY <2>1, <3>2, RestMint DEF Rest, TokenInv
  <2>3. CASE Goto(r, "done") /\ UNCHANGED <<tok, key, minted>>
    <3>1. Moved(r, "done")
      BY <1>a, <2>3, GotoMoves DEF PCs
    <3> QED
      BY <2>1, <2>3, <3>1, RestMove DEF PCs, Dirty
  <2> QED
    BY <1>6, <2>2, <2>3 DEF ConsumeSaves
<1>r. ASSUME NEW r \in Reqs PROVE AfterReload(r) \in {"done", "row"}
  BY DEF AfterReload
<1>7. ASSUME NEW r \in Reqs, ReloadReads(r) PROVE Rest'
  <2>1. PICK p \in {"swap", "done", "row"} : /\ Goto(r, p)
                                             /\ p = "swap" => copy' = [copy EXCEPT ![r] = ActiveAgentKeys]
                                             /\ p # "swap" => mode.fails /\ copy' = copy
    BY <1>7, <1>r DEF ReloadReads
  <2>2. Moved(r, p) /\ Running(r) /\ UNCHANGED <<mode, key, cache>> /\ req[r].pc = "load"
    BY <1>a, <1>7, <2>1, GotoMoves DEF ReloadReads, Running, PCs
  <2>3. OneRuns' /\ (~mode.overlap => \A q \in Reqs \ {r} : ~Running(q)')
    BY <2>2, OneRunsMove DEF Moved, Rest
  <2>4. TokenInv'
    BY <2>2, TokenFrame DEF Moved, Rest, KeyKept
  <2>5. WorkspaceInv'
    BY <2>2, WorkspaceFrame DEF Moved, Rest
  <2>6. CacheInv'
    <3> SUFFICES ASSUME ~mode.overlap, ~mode.fails PROVE CacheInv'
      BY <2>2 DEF CacheInv
    <3>1. p = "swap" /\ copy'[r] = ActiveAgentKeys /\ ActiveAgentKeys' = ActiveAgentKeys
      BY <2>1, <2>2 DEF Shape, MemoryTypes, ActiveAgentKeys
    <3>2. \A q \in Reqs \ {r} : req'[q].pc # "swap"
      BY <2>3 DEF Running
    <3> QED
      BY <2>2, <3>1, <3>2 DEF CacheInv, Moved
  <2> QED
    BY <2>3, <2>4, <2>5, <2>6 DEF Rest
<1>8. ASSUME NEW r \in Reqs, ReloadSwaps(r) PROVE Rest'
  <2>1. PICK p \in {"done", "row"} : Goto(r, p)
    BY <1>8, <1>r DEF ReloadSwaps
  <2>2. Moved(r, p) /\ Running(r) /\ UNCHANGED <<mode, key>> /\ req[r].pc = "swap" /\ cache' = copy[r]
    BY <1>a, <1>8, <2>1, GotoMoves DEF ReloadSwaps, Running, PCs
  <2>3. OneRuns' /\ (~mode.overlap => \A q \in Reqs \ {r} : ~Running(q)')
    BY <2>2, OneRunsMove DEF Moved, Rest
  <2>4. TokenInv'
    BY <2>2, TokenFrame DEF Moved, Rest, KeyKept
  <2>5. WorkspaceInv'
    BY <2>2, WorkspaceFrame DEF Moved, Rest
  <2>6. CacheInv'
    <3> SUFFICES ASSUME ~mode.overlap, ~mode.fails PROVE CacheInv'
      BY <2>2 DEF CacheInv
    <3>1. copy[r] = ActiveAgentKeys /\ ActiveAgentKeys' = ActiveAgentKeys
      BY <2>2 DEF Rest, CacheInv, ActiveAgentKeys
    <3>2. \A q \in Reqs : req'[q].pc # "swap"
      BY <2>2, <2>3 DEF Running, Moved
    <3> QED
      BY <2>2, <3>1, <3>2 DEF CacheInv
  <2> QED
    BY <2>3, <2>4, <2>5, <2>6 DEF Rest
<1>9. ASSUME NEW r \in Reqs, EnrollAnswers(r) PROVE Rest'
  <2>1. Moved(r, "done")
    BY <1>a, <1>9, GotoMoves DEF EnrollAnswers, PCs
  <2> QED
    BY <1>9, <2>1, RestMove DEF EnrollAnswers, Running, PCs, Dirty
<1>10. ASSUME NEW r \in Reqs, NEW m \in Machines, NEW o \in Orgs, DeleteStarts(r, m, o)
       PROVE  Rest'
  <2>1. /\ req[r].pc = "new" /\ req'[r].pc = "drop"
        /\ \A q \in Reqs \ {r} : req'[q] = req[q]
        /\ UNCHANGED mode
    BY <1>a, <1>10 DEF DeleteStarts, MayStart, ReqTypes
  <2>2. \A k \in Reqs : key'[k].st = "active" => key'[k] = key[k]
    BY <1>10 DEF DeleteStarts, Shape, StoreTypes, Keys
  <2>3. \A k \in Reqs : KeyKept(k)
    BY <1>10 DEF DeleteStarts, KeysOf, Shape, StoreTypes, Keys, KeyOK, KeyKept, NoKey
  <2>4. OneRuns' /\ (~mode.overlap => \A q \in Reqs \ {r} : ~Running(q)')
    BY <1>10, <2>1, OneRunsStart DEF DeleteStarts, Rest
  <2>5. TokenInv'
    BY <2>1, <2>3, TokenFrame DEF Rest
  <2>6. WorkspaceInv'
    BY <2>1, <2>2, WorkspaceFrame DEF Rest
  <2>7. CacheInv'
    BY <2>1, <2>4, CacheDirty
  <2> QED
    BY <2>4, <2>5, <2>6, <2>7 DEF Rest
<1>11. ASSUME NEW r \in Reqs, NEW m \in Machines, NEW o \in Orgs, ReassignStarts(r, m, o)
       PROVE  Rest'
  <2>1. /\ req[r].pc = "new" /\ req'[r].pc = "load"
        /\ \A q \in Reqs \ {r} : req'[q] = req[q]
        /\ UNCHANGED mode
    BY <1>a, <1>11 DEF ReassignStarts, MayStart, ReqTypes
  <2>3. \A k \in Reqs : KeyKept(k)
    BY <1>11 DEF ReassignStarts, KeysOf, Shape, StoreTypes, Keys, KeyOK, KeyKept, NoKey
  <2>4. OneRuns' /\ (~mode.overlap => \A q \in Reqs \ {r} : ~Running(q)')
    BY <1>11, <2>1, OneRunsStart DEF ReassignStarts, Rest
  <2>5. TokenInv'
    BY <2>1, <2>3, TokenFrame DEF Rest
  <2>6. WorkspaceInv'
    <3> SUFFICES ASSUME ~mode.overlap, ~mode.fails PROVE WorkspaceInv'
      BY <2>1 DEF WorkspaceInv, OneWorkspace
    <3>1. \A q \in Reqs : req'[q].pc \notin {"consume", "save"}
      BY <2>1, <2>4 DEF Running
    <3>2. key' = [k \in Reqs |-> IF k \in KeysOf(m) THEN [key[k] EXCEPT !.o = o] ELSE key[k]]
      BY <1>11 DEF ReassignStarts
    <3>3. ASSUME NEW k \in Reqs
          PROVE  /\ key'[k].st = key[k].st /\ key'[k].m = key[k].m
                 /\ key[k].st = "active" => key'[k].o = IF key[k].m = m THEN o ELSE key[k].o
      <4>1. key[k] \in Keys
        BY DEF Shape, StoreTypes
      <4> QED
        BY <3>2, <4>1 DEF Keys, KeysOf
    <3>4. OneWorkspace'
      BY <2>1, <3>3 DEF Rest, WorkspaceInv, OneWorkspace
    <3> QED
      BY <3>1, <3>4 DEF WorkspaceInv
  <2>7. CacheInv'
    BY <2>1, <2>4, CacheDirty
  <2> QED
    BY <2>4, <2>5, <2>6, <2>7 DEF Rest
<1>12. ASSUME NEW r \in Reqs, DeleteDropsLive(r) PROVE Rest'
  <2>1. Moved(r, "revoke")
    BY <1>a, <1>12, GotoMoves DEF DeleteDropsLive, PCs
  <2> QED
    BY <1>12, <2>1, RestMove DEF DeleteDropsLive, Running, PCs, Dirty
<1>13. ASSUME NEW r \in Reqs, DeleteRevokes(r) PROVE Rest'
  <2>1. Moved(r, "load") /\ Running(r) /\ UNCHANGED mode /\ req[r].pc = "revoke"
    BY <1>a, <1>13, GotoMoves DEF DeleteRevokes, RevokeThen, Running, PCs
  <2>2. \A k \in Reqs : key'[k].st = "active" => key'[k] = key[k]
    BY <1>13 DEF DeleteRevokes, RevokeThen, Shape, StoreTypes, Keys
  <2>3. \A k \in Reqs : KeyKept(k)
    <3>1. req[r].m \in Machines
      BY <2>1 DEF Shape, RequestOK
    <3> QED
      BY <1>13, <3>1
         DEF DeleteRevokes, RevokeThen, KeysOf, Shape, StoreTypes, Keys, KeyOK, KeyKept, NoKey
  <2>4. OneRuns' /\ (~mode.overlap => \A q \in Reqs \ {r} : ~Running(q)')
    BY <2>1, OneRunsMove DEF Moved, Rest
  <2>5. TokenInv'
    BY <2>1, <2>3, TokenFrame DEF Moved, Rest
  <2>6. WorkspaceInv'
    BY <2>1, <2>2, WorkspaceFrame DEF Moved, Rest
  <2>7. CacheInv'
    BY <2>1, <2>4, CacheDirty DEF Moved
  <2> QED
    BY <2>4, <2>5, <2>6, <2>7 DEF Rest
<1>15. ASSUME ServerRestarts PROVE Rest'
  <2>1. \A q \in Reqs : req'[q].pc \in {"new", "done"}
    BY <1>15 DEF ServerRestarts, Running, Shape, ReqTypes, Requests
  <2>2. UNCHANGED <<mode, key>> /\ (~mode.fails => cache' = ActiveAgentKeys)
    BY <1>15 DEF ServerRestarts
  <2>3. OneRuns'
    BY <2>1 DEF OneRuns, Running
  <2>4. TokenInv'
    BY <2>1, <2>2, TokenFrame DEF Rest, KeyKept
  <2>5. WorkspaceInv'
    BY <2>1, <2>2, WorkspaceFrame DEF Rest
  <2>6. CacheInv'
    BY <2>1, <2>2 DEF CacheInv, ActiveAgentKeys
  <2> QED
    BY <2>3, <2>4, <2>5, <2>6 DEF Rest
<1>16. CASE TokenStep
  BY <1>1, <1>16 DEF TokenStep, CreateEnrollToken, RevokeEnrollToken, Expire, PruneExpiredTokens
<1>17. ASSUME NEW m \in Machines, Connect(m) \/ Heartbeat(m) \/ Disconnect(m) PROVE Rest'
  BY <1>1, <1>17 DEF Connect, Heartbeat, Disconnect
<1>18. CASE UNCHANGED vars
  BY <1>1, <1>18 DEF vars
<1> QED
  BY <1>2, <1>3, <1>4, <1>5, <1>6, <1>7, <1>8, <1>9, <1>10, <1>11, <1>12, <1>13,
     <1>15, <1>16, <1>17, <1>18 DEF Next, RequestStep

-----------------------------------------------------------------------------
(***************************************************************************)
(* The theorems.                                                           *)
(***************************************************************************)
\* The inductive invariant: what requests and keys look like and what a
\* request in progress may rely on, between any two transactions of the
\* handlers of server/enroll.go, handlers.go and admin_handlers.go.
THEOREM Inductive == Spec => []IInv
<1>1. Init => IInv
  BY ShapeInit, RestInit, ShapeSplit DEF IInv
<1>2. IInv /\ [Next]_vars => IInv'
  <2>1. Shape' => ShapeInv'
    BY ShapeSplit, PTL
  <2> QED
    BY <2>1, ShapeStep, RestStep, ShapeSplit DEF IInv
<1> QED
  BY <1>1, <1>2, PTL DEF Spec

\* Whatever requests overlap, fail or are cut off, the variables of the store,
\* the server and the agents have their types and a key is there only with a
\* token that is marked as used (ConsumeEnrollToken, DeleteMachine,
\* ReassignMachine, RevokeAgentKeysForMachine, PruneExpiredTokens).
THEOREM EnrollmentTypes == Spec => []TypeOK
<1>1. IInv => TypeOK
  BY DEF IInv, ShapeInv
<1> QED
  BY <1>1, Inductive, PTL

\* ConsumeEnrollToken mints at most one key per token, for any number of
\* requests, wherever the store serialises its transactions or enrollments do
\* not overlap.
THEOREM TokenCorrect == Spec => []OneKeyPerToken
<1>1. IInv => OneKeyPerToken
  BY DEF IInv, Rest, TokenInv
<1> QED
  BY <1>1, Inductive, PTL

\* The check of handleEnroll, which looks only at the newest accepted key of
\* the machine, keeps all its accepted keys in one org, through reassignment,
\* deletion and restarts, when requests do not overlap and the store answers.
THEOREM WorkspaceCorrect == Spec => []OneWorkspace
<1>1. IInv => OneWorkspace
  BY DEF IInv, Rest, WorkspaceInv
<1> QED
  BY <1>1, Inductive, PTL

\* reloadAgentKeys leaves in memory exactly the keys of the store once no
\* request is in progress, when requests do not overlap and the store answers.
THEOREM CacheCorrect == Spec => []CacheCurrent
<1>1. IInv => CacheCurrent
  BY DEF IInv, Rest, CacheInv, CacheCurrent, Quiet, Running
<1> QED
  BY <1>1, Inductive, PTL
=============================================================================
