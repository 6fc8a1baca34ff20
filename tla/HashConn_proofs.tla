--------------------------- MODULE HashConn_proofs ---------------------------
(***************************************************************************)
(* The connection table, for every set of descriptors and addresses and    *)
(* every table size: its inductive invariant, the lookup property, the     *)
(* absence of leaks, and that it implements the abstract map.              *)
(***************************************************************************)
EXTENDS HashConn, SequenceTheorems, FiniteSetTheorems, TLAPS

USE FdAssumption, ConnAssumption, ConnectionsAssumption, TableSizeAssumption

(* A descriptor always has a slot (modhash, hash_conn.c:34).               *)
LEMMA SlotOfFd == \A fd \in Fd : modhash(fd) \in Slot
BY DEF modhash, Slot

(* The search of a list stops at the only node with the key (the loop of   *)
(* hash_conn_get, hash_conn.c:93).                                         *)
LEMMA PositionFound ==
  ASSUME NEW list \in Seq(Node), NEW fd, NEW k \in 1 .. Len(list),
         list[k].key = fd,
         \A j \in 1 .. Len(list) : list[j].key = fd => j = k
  PROVE  position(list, fd) = k
<1> DEFINE I == {i \in 1 .. Len(list) : list[i].key = fd}
<1>1. I = {k}  OBVIOUS
<1>2. Min(I) = k
  BY <1>1 DEF Min
<1>3. position(list, fd) = IF I # {} THEN Min(I) ELSE 0
  BY DEF position, SelectInSeq
<1> QED BY <1>1, <1>2, <1>3

(* Unlinking the node at a position shifts the later ones by one (the      *)
(* three cases of list_conn_delete, list_conn.c:31).                       *)
LEMMA RemoveAtProperties ==
  ASSUME NEW S, NEW list \in Seq(S), NEW k \in 1 .. Len(list)
  PROVE  /\ RemoveAt(list, k) \in Seq(S)
         /\ Len(RemoveAt(list, k)) = Len(list) - 1
         /\ \A i \in 1 .. Len(list) - 1 :
              RemoveAt(list, k)[i] = list[IF i < k THEN i ELSE i + 1]
<1> DEFINE front == SubSeq(list, 1, k - 1)
           back == SubSeq(list, k + 1, Len(list))
<1>0. Len(list) \in Nat /\ k \in Nat /\ \A i \in 1 .. Len(list) : list[i] \in S
  BY LenProperties, ElementOfSeq
<1>1. /\ front \in Seq(S) /\ Len(front) = k - 1
      /\ \A i \in 1 .. k - 1 : front[i] = list[i]
  BY <1>0, SubSeqProperties
<1>2. /\ back \in Seq(S) /\ Len(back) = Len(list) - k
      /\ \A i \in 1 .. Len(list) - k : back[i] = list[k + i]
  <2>1. /\ SubSeq(list, k + 1, Len(list)) \in Seq(S)
        /\ Len(SubSeq(list, k + 1, Len(list))) = 
              IF k + 1 <= Len(list) THEN Len(list) - (k + 1) + 1 ELSE 0
        /\ \A i \in 1 .. Len(list) - (k + 1) + 1 :
              SubSeq(list, k + 1, Len(list))[i] = list[k + 1 + i - 1]
    BY <1>0, SubSeqProperties
  <2> QED BY <2>1, <1>0
<1>3. /\ front \o back \in Seq(S)
      /\ Len(front \o back) = Len(list) - 1
      /\ \A i \in 1 .. Len(list) - 1 :
           (front \o back)[i] = IF i <= k - 1 THEN front[i] ELSE back[i - (k - 1)]
  <2>1. front \in Seq(S) /\ back \in Seq(S)
    BY <1>1, <1>2
  <2> HIDE DEF front, back
  <2>2. /\ front \o back \in Seq(S)
        /\ Len(front \o back) = Len(front) + Len(back)
        /\ \A i \in 1 .. Len(front) + Len(back) :
             (front \o back)[i] = IF i <= Len(front) THEN front[i] ELSE back[i - Len(front)]
    BY <2>1, ConcatProperties
  <2>3. Len(front) = k - 1 /\ Len(back) = Len(list) - k
    BY <1>1, <1>2
  <2>4. Len(front) + Len(back) = Len(list) - 1
    BY <2>3, <1>0
  <2> QED BY <2>2, <2>3, <2>4
<1>4. RemoveAt(list, k) = front \o back
  BY DEF RemoveAt
<1> HIDE DEF front, back
<1>5. ASSUME NEW i \in 1 .. Len(list) - 1
      PROVE  (front \o back)[i] = list[IF i < k THEN i ELSE i + 1]
  <2>1. CASE i < k
    BY <2>1, <1>0, <1>1, <1>3
  <2>2. CASE ~(i < k)
    <3>1. i - (k - 1) \in 1 .. Len(list) - k
      BY <2>2, <1>0
    <3>2. back[i - (k - 1)] = list[k + (i - (k - 1))]
      BY <3>1, <1>2
    <3>3. k + (i - (k - 1)) = i + 1
      BY <1>0
    <3>4. ~(i <= k - 1)
      BY <2>2, <1>0
    <3>5. (front \o back)[i] = back[i - (k - 1)]
      BY <3>4, <1>3
    <3> QED BY <2>2, <3>2, <3>3, <3>5
  <2> QED BY <2>1, <2>2
<1> QED BY <1>3, <1>4, <1>5

-----------------------------------------------------------------------------
(* hash_conn_init leaves every slot with its unused head.                  *)
LEMMA InitIInv == Init => IInv
<1> SUFFICES ASSUME Init PROVE IInv
  OBVIOUS
<1> USE DEF Init
<1>1. EmptyHead \in Node /\ <<EmptyHead>> \in Seq(Node) /\ Len(<<EmptyHead>>) = 1
  BY DEF EmptyHead, Node
<1>2. Allocated = {}
  BY DEF Allocated
<1>3. TypeOK
  BY <1>1 DEF TypeOK, NoFd
<1>4. DepthIsLength /\ LiveNodes /\ KeysDistinct
  BY <1>1 DEF DepthIsLength, LiveNodes, KeysDistinct
<1>5. EveryoneListed /\ BufsOfLive
  BY <1>2 DEF EveryoneListed, BufsOfLive
<1>6. Counted
  BY <1>2, FS_EmptySet DEF Counted
<1> QED BY <1>3, <1>4, <1>5, <1>6 DEF IInv

(* hash_conn_add puts the new record where the search finds it, on an      *)
(* empty slot over what the head held before.                              *)
LEMMA AddIInv ==
  ASSUME NEW fd \in Fd, NEW c \in Conn, IInv, Add(fd, c)
  PROVE  IInv'
<1> DEFINE s == modhash(fd)
           node == [key |-> fd, val |-> c]
           new == added(chain[s], depth[s], node)
<1> USE DEF IInv
<1>0. /\ s \in Slot /\ node \in Node
      /\ chain[s] \in Seq(Node) /\ Len(chain[s]) \in Nat /\ depth[s] \in Nat
  <2>1. s \in Slot
    BY SlotOfFd
  <2>2. node \in Node
    BY DEF Node
  <2>3. chain[s] \in Seq(Node) /\ depth[s] \in Nat
    BY <2>1 DEF TypeOK
  <2> QED BY <2>1, <2>2, <2>3, LenProperties
<1>1. /\ phase = "running" /\ phase' = phase
      /\ fd \notin open /\ open' = open \cup {fd}
      /\ owner[c] = NoFd /\ owner' = [owner EXCEPT ![c] = fd]
      /\ bufs' = bufs \cup {c}
      /\ chain' = [chain EXCEPT ![s] = new]
      /\ depth' = [depth EXCEPT ![s] = depth[s] + 1]
      /\ elenum' = elenum + 1
  BY DEF Add, Allocated
<1>2. fd # NoFd
  BY DEF NoFd
<1> HIDE DEF s
<1>3. /\ new \in Seq(Node)
      /\ Len(new) = IF depth[s] = 0 THEN 1 ELSE Len(chain[s]) + 1
      /\ Len(new) = depth[s] + 1
      /\ new[Len(new)] = node
      /\ \A i \in 1 .. Len(new) - 1 : depth[s] # 0 /\ i \in 1 .. Len(chain[s]) /\ new[i] = chain[s][i]
  <2> HIDE DEF node
  <2>1. CASE depth[s] = 0
    BY <2>1, <1>0 DEF added
  <2>2. CASE depth[s] # 0
    <3>1. new = Append(chain[s], node)
      BY <2>2 DEF added
    <3>2. Len(chain[s]) = depth[s]
      BY <2>2, <1>0 DEF DepthIsLength
    <3> QED BY <3>1, <3>2, <2>2, <1>0
  <2> QED BY <2>1, <2>2
<1> HIDE DEF new
<1>4. /\ chain'[s] = new /\ depth'[s] = depth[s] + 1
      /\ \A t \in Slot : t # s => chain'[t] = chain[t] /\ depth'[t] = depth[t]
  BY <1>0, <1>1 DEF TypeOK
<1>5. owner'[c] = fd /\ \A d \in Conn : d # c => owner'[d] = owner[d]
  BY <1>1 DEF TypeOK
<1>6. Allocated' = Allocated \cup {c} /\ c \notin Allocated
  BY <1>1, <1>2, <1>5 DEF Allocated
<1>7. TypeOK'
  <2>1. chain' \in [Slot -> Seq(Node)] /\ depth' \in [Slot -> Nat]
    BY <1>0, <1>1, <1>3 DEF TypeOK
  <2>2. owner' \in [Conn -> Fd \cup {NoFd}]
    BY <1>1 DEF TypeOK
  <2> QED BY <2>1, <2>2, <1>1 DEF TypeOK
<1>8. DepthIsLength'
  BY <1>0, <1>3, <1>4 DEF DepthIsLength
<1>9. LiveNodes'
  <2> SUFFICES ASSUME NEW t \in Slot, depth'[t] # 0, NEW i \in 1 .. Len(chain'[t])
               PROVE  /\ chain'[t][i].key \in open'
                      /\ modhash(chain'[t][i].key) = t
                      /\ chain'[t][i].val \in Conn
                      /\ owner'[chain'[t][i].val] = chain'[t][i].key
    BY DEF LiveNodes, modhash
  <2>1. CASE t = s /\ i = Len(new)
    <3>1. chain'[t][i] = node
      BY <2>1, <1>3, <1>4
    <3>2. chain'[t][i].key = fd /\ chain'[t][i].val = c
      BY <3>1
    <3>3. modhash(fd) = t
      BY <2>1 DEF s
    <3> QED BY <3>2, <3>3, <1>1, <1>5
  <2>2. CASE ~(t = s /\ i = Len(new))
    <3>1. depth[t] # 0 /\ i \in 1 .. Len(chain[t]) /\ chain'[t][i] = chain[t][i]
      BY <2>2, <1>0, <1>3, <1>4
    <3>2. /\ chain[t][i].key \in open
          /\ modhash(chain[t][i].key) = t
          /\ chain[t][i].val \in Conn
          /\ owner[chain[t][i].val] = chain[t][i].key
      BY <3>1 DEF LiveNodes
    <3>3. chain[t][i].key # NoFd
      BY <3>2 DEF TypeOK, NoFd
    <3> QED BY <3>1, <3>2, <3>3, <1>1, <1>5
  <2> QED BY <2>1, <2>2
<1>10. KeysDistinct'
  <2> SUFFICES ASSUME NEW t \in Slot, depth'[t] # 0,
                      NEW i \in 1 .. Len(chain'[t]), NEW j \in 1 .. Len(chain'[t]),
                      chain'[t][i].key = chain'[t][j].key
               PROVE  i = j
    BY DEF KeysDistinct
  <2>1. CASE t # s
    BY <2>1, <1>4 DEF KeysDistinct
  <2>2. CASE t = s
    <3>1. \A k \in 1 .. Len(new) - 1 : new[k].key # fd
      <4> SUFFICES ASSUME NEW k \in 1 .. Len(new) - 1 PROVE new[k].key # fd
        OBVIOUS
      <4>1. depth[s] # 0 /\ k \in 1 .. Len(chain[s]) /\ new[k] = chain[s][k]
        BY <1>3
      <4>2. chain[s][k].key \in open
        BY <4>1, <1>0 DEF LiveNodes
      <4> QED BY <4>1, <4>2, <1>1
    <3>2. CASE i = Len(new) \/ j = Len(new)
      BY <3>1, <3>2, <2>2, <1>3, <1>4, <1>0
    <3>3. CASE i # Len(new) /\ j # Len(new)
      <4>1. i \in 1 .. Len(new) - 1 /\ j \in 1 .. Len(new) - 1
        BY <3>3, <2>2, <1>4, <1>3, <1>0
      <4>2. /\ depth[s] # 0
            /\ i \in 1 .. Len(chain[s]) /\ new[i] = chain[s][i]
            /\ j \in 1 .. Len(chain[s]) /\ new[j] = chain[s][j]
        BY <4>1, <1>3
      <4>3. chain[s][i].key = chain[s][j].key
        BY <4>2, <2>2, <1>4
      <4> QED BY <4>2, <4>3, <1>0 DEF KeysDistinct
    <3> QED BY <3>2, <3>3
  <2> QED BY <2>1, <2>2
<1>11. EveryoneListed'
  <2>1. ASSUME NEW f \in open'
        PROVE  \E i \in 1 .. Len(chain'[modhash(f)]) :
                  depth'[modhash(f)] # 0 /\ chain'[modhash(f)][i].key = f
    <3>0. f \in Fd /\ modhash(f) \in Slot
      BY <1>1, SlotOfFd DEF TypeOK
    <3>1. CASE f = fd
      <4>1. Len(new) \in 1 .. Len(chain'[s]) /\ depth'[s] # 0 /\ chain'[s][Len(new)].key = f
        BY <3>1, <1>0, <1>3, <1>4
      <4> QED BY <4>1, <3>1 DEF s
    <3>2. CASE f # fd
      <4>1. PICK i \in 1 .. Len(chain[modhash(f)]) :
                depth[modhash(f)] # 0 /\ chain[modhash(f)][i].key = f
        BY <3>2, <1>1 DEF EveryoneListed
      <4>2. CASE modhash(f) # s
        BY <4>1, <4>2, <3>0, <1>4
      <4>3. CASE modhash(f) = s
        <5>1. i \in 1 .. Len(new) - 1 /\ depth'[s] # 0
          BY <4>1, <4>3, <1>0, <1>3, <1>4
        <5>2. new[i] = chain[s][i] /\ i \in 1 .. Len(new)
          BY <5>1, <1>3, <1>0
        <5> QED BY <5>1, <5>2, <4>1, <4>3, <1>4
      <4> QED BY <4>2, <4>3
    <3> QED BY <3>1, <3>2
  <2>2. \A d \in Allocated' : owner'[d] \in open'
    BY <1>1, <1>5, <1>6 DEF EveryoneListed, Allocated
  <2>3. \A d, e \in Allocated' : owner'[d] = owner'[e] => d = e
    BY <1>1, <1>5, <1>6 DEF EveryoneListed, Allocated
  <2>4. EveryoneListed' <=>
          /\ \A f \in open' : \E i \in 1 .. Len(chain'[modhash(f)]) :
                  depth'[modhash(f)] # 0 /\ chain'[modhash(f)][i].key = f
          /\ \A d \in Allocated' : owner'[d] \in open'
          /\ \A d, e \in Allocated' : owner'[d] = owner'[e] => d = e
    BY DEF EveryoneListed, modhash
  <2> QED BY <2>1, <2>2, <2>3, <2>4
<1>12. BufsOfLive'
  BY <1>1, <1>6 DEF BufsOfLive
<1>13. Counted'
  BY <1>1, <1>6, FS_AddElement DEF Counted, TypeOK
<1> QED BY <1>7, <1>8, <1>9, <1>10, <1>11, <1>12, <1>13

(* hash_conn_delete frees the record of the descriptor and no other, and   *)
(* the lists keep every other record.                                      *)
LEMMA DeleteIInv ==
  ASSUME NEW fd \in Fd, IInv, Delete(fd)
  PROVE  IInv'
<1> DEFINE s == modhash(fd)
           list == chain[s]
<1> USE DEF IInv
<1>0. s \in Slot /\ list \in Seq(Node) /\ Len(list) \in Nat /\ depth[s] \in Nat
  <2>1. s \in Slot
    BY SlotOfFd
  <2>2. list \in Seq(Node) /\ depth[s] \in Nat
    BY <2>1 DEF TypeOK
  <2> QED BY <2>1, <2>2, LenProperties
<1>1. phase = "running" /\ phase' = phase /\ fd \in open /\ open' = open \ {fd}
  BY DEF Delete
<1>2. PICK k \in 1 .. Len(list) : depth[s] # 0 /\ list[k].key = fd
  BY <1>1 DEF EveryoneListed
<1>3. \A j \in 1 .. Len(list) : list[j].key = fd => j = k
  BY <1>0, <1>2 DEF KeysDistinct
<1> DEFINE c == list[k].val
           new == removed(list, fd)
<1>4. position(list, fd) = k
  BY <1>0, <1>2, <1>3, PositionFound
<1>5. hash_conn_get(fd) = c
  BY <1>4, <1>2 DEF hash_conn_get
<1>6. c \in Conn /\ owner[c] = fd
  BY <1>0, <1>2 DEF LiveNodes
<1>7. /\ owner' = [d \in Conn |-> IF d = c THEN NoFd ELSE owner[d]]
      /\ bufs' = bufs \ {c}
      /\ chain' = [chain EXCEPT ![s] = new]
      /\ depth' = [depth EXCEPT ![s] = depth[s] - 1]
      /\ elenum' = elenum - 1
  <2>1. k # 0
    BY <1>2
  <2>2. (IF position(chain[s], fd) = 0 THEN {} ELSE {hash_conn_get(fd)}) = {c}
    BY <2>1, <1>4, <1>5
  <2> HIDE DEF c
  <2> QED BY <2>2, <1>2 DEF Delete, removed
<1> HIDE DEF s, c
<1>8. Len(list) = depth[s]
  BY <1>0, <1>2 DEF DepthIsLength
<1>9. /\ new \in Seq(Node)
      /\ Len(new) = IF depth[s] = 1 THEN 1 ELSE depth[s] - 1
      /\ depth[s] # 1 => \A i \in 1 .. Len(list) - 1 :
                            new[i] = list[IF i < k THEN i ELSE i + 1]
  <2>1. new = IF Len(list) = 1 THEN list ELSE RemoveAt(list, k)
    BY <1>2, <1>4 DEF removed
  <2>2. /\ RemoveAt(list, k) \in Seq(Node)
        /\ Len(RemoveAt(list, k)) = Len(list) - 1
        /\ \A i \in 1 .. Len(list) - 1 :
              RemoveAt(list, k)[i] = list[IF i < k THEN i ELSE i + 1]
    BY <1>0, <1>2, RemoveAtProperties
  <2> HIDE DEF new, list
  <2> QED BY <2>1, <2>2, <1>0, <1>8
<1> HIDE DEF new
<1>10. /\ chain'[s] = new /\ depth'[s] = depth[s] - 1
       /\ \A t \in Slot : t # s => chain'[t] = chain[t] /\ depth'[t] = depth[t]
  BY <1>0, <1>7 DEF TypeOK
<1>11. owner'[c] = NoFd /\ \A d \in Conn : d # c => owner'[d] = owner[d]
  BY <1>6, <1>7
<1>12. fd # NoFd /\ c \in Allocated /\ Allocated' = Allocated \ {c}
  <2>1. fd # NoFd
    BY DEF NoFd
  <2> QED BY <2>1, <1>6, <1>11 DEF Allocated
\* The nodes of the new lists are nodes of the old ones, under another key.
<1>13. ASSUME NEW t \in Slot, depth'[t] # 0
       PROVE  /\ depth[t] # 0
              /\ \A i \in 1 .. Len(chain'[t]) :
                   LET old == IF t = s /\ ~(i < k) THEN i + 1 ELSE i
                   IN  /\ old \in 1 .. Len(chain[t])
                       /\ chain'[t][i] = chain[t][old]
                       /\ chain[t][old].key # fd
  <2>1. CASE t # s
    <3>1. \A i \in 1 .. Len(chain[t]) : chain[t][i].key # fd
      BY <2>1, <1>10, <1>13 DEF LiveNodes, s
    <3> QED BY <2>1, <3>1, <1>10, <1>13
  <2>2. CASE t = s
    <3>1. depth[s] # 0 /\ depth[s] # 1 /\ Len(new) = Len(list) - 1
      BY <2>2, <1>0, <1>8, <1>9, <1>10, <1>13
    <3>2. ASSUME NEW i \in 1 .. Len(new)
          PROVE  LET old == IF ~(i < k) THEN i + 1 ELSE i
                 IN  old \in 1 .. Len(list) /\ new[i] = list[old] /\ list[old].key # fd
      <4>1. new[i] = list[IF i < k THEN i ELSE i + 1]
        BY <3>1, <1>9
      <4>2. (IF ~(i < k) THEN i + 1 ELSE i) \in 1 .. Len(list)
        BY <3>1, <1>0, <1>2
      <4>3. (IF ~(i < k) THEN i + 1 ELSE i) # k
        BY <3>1, <1>0, <1>2
      <4> QED BY <4>1, <4>2, <4>3, <1>3
    <3> QED BY <2>2, <3>1, <3>2, <1>10
  <2> QED BY <2>1, <2>2
<1>14. TypeOK'
  <2>1. chain' \in [Slot -> Seq(Node)] /\ depth' \in [Slot -> Nat]
    BY <1>0, <1>2, <1>7, <1>9 DEF TypeOK
  <2>2. owner' \in [Conn -> Fd \cup {NoFd}]
    BY <1>7 DEF TypeOK
  <2>3. elenum' \in Nat
    <3>1. elenum # 0
      <4>1. Cardinality(open) = 0 <=> open = {}
        BY FS_EmptySet DEF Counted
      <4> QED BY <4>1, <1>1 DEF Counted
    <3> QED BY <3>1, <1>7 DEF TypeOK
  <2> QED BY <2>1, <2>2, <2>3, <1>1, <1>7 DEF TypeOK
<1>15. DepthIsLength'
  BY <1>0, <1>2, <1>9, <1>10 DEF DepthIsLength
<1>16. LiveNodes'
  <2> SUFFICES ASSUME NEW t \in Slot, depth'[t] # 0, NEW i \in 1 .. Len(chain'[t])
               PROVE  /\ chain'[t][i].key \in open'
                      /\ modhash(chain'[t][i].key) = t
                      /\ chain'[t][i].val \in Conn
                      /\ owner'[chain'[t][i].val] = chain'[t][i].key
    BY DEF LiveNodes, modhash
  <2>1. PICK old \in 1 .. Len(chain[t]) :
            chain'[t][i] = chain[t][old] /\ chain[t][old].key # fd
    BY <1>13
  <2>2. depth[t] # 0
    BY <1>13
  <2>3. /\ chain[t][old].key \in open
        /\ modhash(chain[t][old].key) = t
        /\ chain[t][old].val \in Conn
        /\ owner[chain[t][old].val] = chain[t][old].key
    BY <2>2 DEF LiveNodes
  <2>4. chain[t][old].val # c
    BY <2>1, <2>3, <1>6
  <2> QED BY <2>1, <2>3, <2>4, <1>1, <1>11
<1>17. KeysDistinct'
  <2> SUFFICES ASSUME NEW t \in Slot, depth'[t] # 0,
                      NEW i \in 1 .. Len(chain'[t]), NEW j \in 1 .. Len(chain'[t]),
                      chain'[t][i].key = chain'[t][j].key
               PROVE  i = j
    BY DEF KeysDistinct
  <2> DEFINE oi == IF t = s /\ ~(i < k) THEN i + 1 ELSE i
             oj == IF t = s /\ ~(j < k) THEN j + 1 ELSE j
  <2>1. /\ oi \in 1 .. Len(chain[t]) /\ chain'[t][i] = chain[t][oi]
        /\ oj \in 1 .. Len(chain[t]) /\ chain'[t][j] = chain[t][oj]
        /\ depth[t] # 0
    BY <1>13
  <2>2. oi = oj
    <3> HIDE DEF oi, oj
    <3> QED BY <2>1 DEF KeysDistinct
  <2> QED BY <2>2, <1>2
<1>18. EveryoneListed'
  <2>1. ASSUME NEW f \in open'
        PROVE  \E i \in 1 .. Len(chain'[modhash(f)]) :
                  depth'[modhash(f)] # 0 /\ chain'[modhash(f)][i].key = f
    <3>0. f \in Fd /\ f \in open /\ f # fd /\ modhash(f) \in Slot
      BY <1>1, SlotOfFd DEF TypeOK
    <3>1. PICK j \in 1 .. Len(chain[modhash(f)]) :
              depth[modhash(f)] # 0 /\ chain[modhash(f)][j].key = f
      BY <3>0 DEF EveryoneListed
    <3>2. CASE modhash(f) # s
      BY <3>0, <3>1, <3>2, <1>10
    <3>3. CASE modhash(f) = s
      <4> DEFINE i == IF j < k THEN j ELSE j - 1
      <4>1. j \in 1 .. Len(list) /\ list[j].key = f /\ j # k
        BY <3>0, <3>1, <3>3, <1>2
      <4>2. depth[s] # 1 /\ depth'[s] # 0 /\ Len(new) = Len(list) - 1
        BY <4>1, <1>0, <1>2, <1>8, <1>9, <1>10
      <4>3. i \in 1 .. Len(list) - 1 /\ (IF i < k THEN i ELSE i + 1) = j
        BY <4>1, <1>0, <1>2
      <4> HIDE DEF i
      <4>4. new[i] = list[j]
        BY <4>2, <4>3, <1>9
      <4> QED BY <4>1, <4>2, <4>3, <4>4, <3>3, <1>10
    <3> QED BY <3>2, <3>3
  <2>2. \A d \in Allocated' : owner'[d] \in open'
    BY <1>1, <1>6, <1>11, <1>12 DEF EveryoneListed, Allocated
  <2>3. \A d, e \in Allocated' : owner'[d] = owner'[e] => d = e
    BY <1>11, <1>12 DEF EveryoneListed, Allocated
  <2>4. EveryoneListed' <=>
          /\ \A f \in open' : \E i \in 1 .. Len(chain'[modhash(f)]) :
                  depth'[modhash(f)] # 0 /\ chain'[modhash(f)][i].key = f
          /\ \A d \in Allocated' : owner'[d] \in open'
          /\ \A d, e \in Allocated' : owner'[d] = owner'[e] => d = e
    BY DEF EveryoneListed, modhash
  <2> QED BY <2>1, <2>2, <2>3, <2>4
<1>19. BufsOfLive'
  BY <1>1, <1>7, <1>12 DEF BufsOfLive
<1>20. Counted'
  <2>1. IsFiniteSet(open \ {fd}) /\ Cardinality(open \ {fd}) = Cardinality(open) - 1
    BY <1>1, FS_RemoveElement DEF Counted
  <2>2. /\ IsFiniteSet(Allocated \ {c})
        /\ Cardinality(Allocated \ {c}) = Cardinality(Allocated) - 1
    BY <1>12, FS_RemoveElement DEF Counted
  <2>3. /\ IsFiniteSet(Allocated') /\ elenum' = Cardinality(Allocated')
    BY <2>2, <1>7, <1>12 DEF Counted
  <2>4. /\ IsFiniteSet(open') /\ elenum' = Cardinality(open')
    BY <2>1, <1>1, <1>7 DEF Counted
  <2> QED BY <2>3, <2>4 DEF Counted
<1> QED BY <1>14, <1>15, <1>16, <1>17, <1>18, <1>19, <1>20

(* hash_conn_free touches receive buffers only.                            *)
LEMMA FreeIInv ==
  ASSUME IInv, Free
  PROVE  IInv'
<1>1. /\ UNCHANGED <<chain, depth, elenum, owner, open>>
      /\ phase' \in {"freed", "undefined"} /\ bufs' \subseteq bufs
  BY DEF Free
<1>2. TypeOK'
  BY <1>1 DEF IInv, TypeOK
<1>3. DepthIsLength' /\ LiveNodes' /\ KeysDistinct' /\ EveryoneListed'
  BY <1>1 DEF IInv, DepthIsLength, LiveNodes, KeysDistinct, EveryoneListed, Allocated, modhash
<1>4. BufsOfLive' /\ Counted'
  BY <1>1 DEF IInv, BufsOfLive, Counted, Allocated
<1> QED BY <1>2, <1>3, <1>4 DEF IInv

(* IInv is inductive: every operation of the table keeps it.               *)
LEMMA NextIInv == IInv /\ [Next]_vars => IInv'
<1> SUFFICES ASSUME IInv, [Next]_vars PROVE IInv'
  OBVIOUS
<1>1. CASE \E fd \in Fd, c \in Conn : Add(fd, c)
  BY <1>1, AddIInv
<1>2. CASE \E fd \in Fd : Delete(fd)
  BY <1>2, DeleteIInv
<1>3. CASE Free
  BY <1>3, FreeIInv
<1>4. CASE UNCHANGED vars
  BY <1>4 DEF vars, IInv, TypeOK, DepthIsLength, LiveNodes, KeysDistinct,
              EveryoneListed, BufsOfLive, Counted, Allocated, modhash
<1> QED BY <1>1, <1>2, <1>3, <1>4 DEF Next

(* The inductive invariant of the table holds always: types, list lengths, *)
(* ownership of every node and of every live record.                       *)
THEOREM Invariance == Spec => []IInv
<1> QED BY InitIInv, NextIInv, PTL DEF Spec

(* Under IInv the search for an open descriptor ends at its own node.      *)
LEMMA GetOpen ==
  ASSUME IInv, NEW fd \in open
  PROVE  hash_conn_get(fd) \in Allocated /\ owner[hash_conn_get(fd)] = fd
<1> USE DEF IInv
<1> DEFINE s == modhash(fd)
           list == chain[s]
<1>1. fd \in Fd /\ s \in Slot /\ list \in Seq(Node) /\ fd # NoFd
  BY SlotOfFd DEF TypeOK, NoFd
<1>2. PICK k \in 1 .. Len(list) : depth[s] # 0 /\ list[k].key = fd
  BY DEF EveryoneListed
<1>3. \A j \in 1 .. Len(list) : list[j].key = fd => j = k
  BY <1>1, <1>2 DEF KeysDistinct
<1>4. position(list, fd) = k
  BY <1>1, <1>2, <1>3, PositionFound
<1>5. hash_conn_get(fd) = list[k].val
  BY <1>2, <1>4 DEF hash_conn_get
<1>6. list[k].val \in Conn /\ owner[list[k].val] = fd
  BY <1>1, <1>2 DEF LiveNodes
<1> QED BY <1>1, <1>5, <1>6 DEF Allocated

(* hash_conn_get returns the live record of every open descriptor, for any *)
(* number of descriptors, addresses and slots.                             *)
THEOREM LookupCorrect == Spec => []GetFindsOwner
<1>1. IInv => GetFindsOwner
  BY GetOpen DEF GetFindsOwner
<1> QED BY <1>1, Invariance, PTL

(* No record or buffer leaks or is freed twice while the program runs, and *)
(* elenum counts the connections.                                          *)
THEOREM NoLeaks == Spec => []NothingLeaks
<1>1. IInv => NothingLeaks
  BY DEF IInv, Counted, BufsOfLive, NothingLeaks
<1> QED BY <1>1, Invariance, PTL

(* The list of a used slot is no longer than there are descriptors open.    *)
LEMMA ListFits ==
  ASSUME IInv, NEW s \in Slot, depth[s] # 0
  PROVE  Len(chain[s]) <= Cardinality(open)
<1> DEFINE n == Len(chain[s])
           keyAt == [i \in 1 .. n |-> chain[s][i].key]
<1>1. n \in Nat
  BY LenProperties DEF IInv, TypeOK
<1>2. keyAt \in Injection(1 .. n, open)
  BY DEF IInv, LiveNodes, KeysDistinct, Injection, IsInjective
<1>3. Cardinality(1 .. n) <= Cardinality(open)
  <2>1. IsFiniteSet(open)
    BY DEF IInv, Counted
  <2> HIDE DEF keyAt, n
  <2> QED BY <1>2, <2>1, FS_Injection
<1>4. Cardinality(1 .. n) = n
  BY <1>1, FS_Interval
<1> QED BY <1>3, <1>4

(* A walk over all nodes comes to the buffer of every live record.          *)
LEMMA WalkReaches ==
  ASSUME IInv, NEW c \in Allocated
  PROVE  \E p \in NodePlaces : ValAt(p) = c
<1> DEFINE fd == owner[c]
           s == modhash(fd)
<1>1. fd \in open /\ fd \in Fd
  BY DEF IInv, EveryoneListed, TypeOK
<1>2. s \in Slot
  BY <1>1, SlotOfFd
<1>3. PICK k \in 1 .. Len(chain[s]) : depth[s] # 0 /\ chain[s][k].key = fd
  BY <1>1 DEF IInv, EveryoneListed
<1>4. chain[s][k].val \in Conn /\ owner[chain[s][k].val] = fd
  BY <1>2, <1>3 DEF IInv, LiveNodes
<1>5. chain[s][k].val = c
  BY <1>1, <1>4 DEF IInv, EveryoneListed, Allocated, TypeOK, NoFd
<1>6. Len(chain[s]) \in Nat /\ Cardinality(open) \in Nat /\ Len(chain[s]) <= Cardinality(open)
  BY <1>2, <1>3, ListFits, LenProperties, FS_CardinalityType DEF IInv, TypeOK, Counted
<1>7. <<s, k>> \in NodePlaces
  BY <1>2, <1>3, <1>6 DEF NodePlaces, Places
<1> QED BY <1>5, <1>7 DEF ValAt

(* hash_conn_free leaves no receive buffer behind (hash_conn.c:130-138,     *)
(* list_conn.c:76-87).                                                      *)
THEOREM AllReleased == Spec => []FreeReleasesAll
<1>1. Init => FreeReleasesAll
  BY DEF Init, FreeReleasesAll
<1>2. ASSUME IInv, FreeReleasesAll, [Next]_vars PROVE FreeReleasesAll'
  <2>1. CASE Free
    <3>1. CASE FreeDefined
      <4>1. bufs = Allocated /\ bufs' = bufs \ {ValAt(p) : p \in NodePlaces}
        BY <1>2, <2>1, <3>1 DEF Free, IInv, BufsOfLive
      <4>2. \A c \in bufs : c \in {ValAt(p) : p \in NodePlaces}
        BY <1>2, <4>1, WalkReaches
      <4>3. bufs' = {}
        BY <4>1, <4>2
      <4> QED BY <4>3 DEF FreeReleasesAll
    <3>2. CASE ~FreeDefined
      BY <2>1, <3>2 DEF Free, FreeReleasesAll
    <3> QED BY <3>1, <3>2
  <2>2. CASE \E fd \in Fd, c \in Conn : Add(fd, c)
    BY <2>2 DEF Add, FreeReleasesAll
  <2>3. CASE \E fd \in Fd : Delete(fd)
    BY <2>3 DEF Delete, FreeReleasesAll
  <2>4. CASE UNCHANGED vars
    BY <1>2, <2>4 DEF vars, FreeReleasesAll
  <2> QED BY <1>2, <2>1, <2>2, <2>3, <2>4 DEF Next
<1> QED BY <1>1, <1>2, Invariance, PTL DEF Spec

\* The abstract map, as the refinement mapping of HashConn computes it.
TableMap == [fd \in Fd |-> IF fd \in open THEN hash_conn_get(fd) ELSE NULL]

(* Under IInv two open descriptors never share a record.                   *)
LEMMA MapInjective ==
  ASSUME IInv, NEW fd \in open
  PROVE  TableMap[fd] \in Allocated /\ owner[TableMap[fd]] = fd /\ TableMap[fd] # NULL
<1>1. fd \in Fd
  BY DEF IInv, TypeOK
<1>2. TableMap[fd] = hash_conn_get(fd)
  BY <1>1 DEF TableMap
<1> QED BY <1>2, GetOpen DEF Allocated

(* The owner of an open descriptor is unique, so it determines the lookup. *)
MapIsOwner ==
  \A fd \in open, c \in Conn : owner[c] = fd => TableMap[fd] = c

(* Under IInv the abstract map is the inverse of ownership.                *)
LEMMA MapDetermined == IInv => MapIsOwner
<1> SUFFICES ASSUME IInv, NEW fd \in open, NEW c \in Conn, owner[c] = fd
             PROVE  TableMap[fd] = c
  BY DEF MapIsOwner
<1>1. fd # NoFd
  BY DEF IInv, TypeOK, NoFd
<1>2. c \in Allocated
  BY <1>1 DEF Allocated
<1>3. TableMap[fd] \in Allocated /\ owner[TableMap[fd]] = fd
  BY MapInjective
<1> QED BY <1>2, <1>3 DEF IInv, EveryoneListed

(* Every operation of the table is an operation of the abstract map, or    *)
(* leaves it alone.                                                        *)
LEMMA StepRefines ==
  ASSUME IInv, IInv', MapIsOwner', [Next]_vars
  PROVE  [Map!MapNext]_(Map!mapVars)
<1> DEFINE gone == phase # "running"
<1>0. /\ \A fd \in Fd : fd \notin open => TableMap[fd] = NULL
      /\ \A fd \in Fd : fd \notin open' => TableMap'[fd] = NULL
      /\ \A fd \in open : TableMap[fd] \in Conn /\ TableMap[fd] # NULL /\ owner[TableMap[fd]] = fd
      /\ DOMAIN TableMap = Fd /\ DOMAIN TableMap' = Fd
      /\ open \subseteq Fd /\ open' \subseteq Fd
  BY MapInjective DEF TableMap, Allocated, IInv, TypeOK
<1>1. ASSUME NEW fd \in Fd, NEW c \in Conn, Add(fd, c)
      PROVE  Map!MapAdd(fd, c)
  <2>1. /\ phase = "running" /\ phase' = phase /\ fd \notin open /\ open' = open \cup {fd}
        /\ owner' = [owner EXCEPT ![c] = fd] /\ owner[c] = NoFd
    BY <1>1 DEF Add, Allocated
  <2>2. fd # NoFd /\ owner \in [Conn -> Fd \cup {NoFd}]
    BY DEF NoFd, IInv, TypeOK
  <2>3. TableMap'[fd] = c
    BY <2>1, <2>2 DEF MapIsOwner
  <2>4. ASSUME NEW f \in Fd, f # fd PROVE TableMap'[f] = TableMap[f] 
    <3>1. CASE f \in open
      <4>1. TableMap[f] # c /\ TableMap[f] \in Conn /\ owner[TableMap[f]] = f
        BY <3>1, <1>0, <2>1 DEF NoFd
      <4>2. f \in open' /\ owner'[TableMap[f]] = f
        BY <4>1, <3>1, <2>1, <2>2
      <4> QED BY <4>1, <4>2 DEF MapIsOwner
    <3>2. CASE f \notin open
      BY <3>2, <2>4, <2>1, <1>0
    <3> QED BY <3>1, <3>2
  <2>5. TableMap' = [TableMap EXCEPT ![fd] = c]
    <3>1. TableMap \in [Fd -> Conn \cup {NULL}] /\ TableMap' \in [Fd -> Conn \cup {NULL}]
      BY <1>0, <2>1, <2>3, <2>4 DEF TableMap
    <3> QED BY <3>1, <2>3, <2>4
  <2>6. TableMap[fd] = NULL /\ \A other \in Fd : TableMap[other] # c
    BY <2>1, <2>2, <1>0 DEF NoFd
  <2> QED BY <2>1, <2>5, <2>6 DEF Map!MapAdd, TableMap
<1>2. ASSUME NEW fd \in Fd, Delete(fd)
      PROVE  Map!MapDelete(fd)
  <2>1. /\ phase = "running" /\ phase' = phase /\ fd \in open /\ open' = open \ {fd}
    BY <1>2 DEF Delete
  <2>2. ASSUME NEW f \in open, f # fd PROVE owner'[TableMap[f]] = f
    <3>1. TableMap[f] \in Conn /\ owner[TableMap[f]] = f
      BY <1>0
    <3>2. hash_conn_get(fd) = TableMap[fd] /\ owner[TableMap[fd]] = fd
      BY <1>0, <2>1 DEF TableMap
    <3> QED BY <3>1, <3>2, <2>2, <1>2 DEF Delete
  <2>3. ASSUME NEW f \in Fd, f # fd PROVE TableMap'[f] = TableMap[f]
    <3>1. CASE f \in open
      BY <3>1, <2>1, <2>2, <2>3, <1>0 DEF MapIsOwner
    <3>2. CASE f \notin open
      BY <3>2, <2>1, <1>0
    <3> QED BY <3>1, <3>2
  <2>4. TableMap'[fd] = NULL
    BY <2>1, <1>0
  <2>5. TableMap' = [TableMap EXCEPT ![fd] = NULL]
    <3>1. TableMap \in [Fd -> Conn \cup {NULL}] /\ TableMap' \in [Fd -> Conn \cup {NULL}]
      BY <1>0, <2>3, <2>4 DEF TableMap
    <3> QED BY <3>1, <2>3, <2>4
  <2>6. TableMap[fd] # NULL
    BY <2>1, <1>0
  <2> QED BY <2>1, <2>5, <2>6 DEF Map!MapDelete, TableMap
<1>3. ASSUME Free
      PROVE  Map!MapFree
  <2>1. UNCHANGED <<chain, open>> /\ phase = "running" /\ phase' \in {"freed", "undefined"}
    BY <1>3 DEF Free
  <2> QED BY <2>1 DEF Map!MapFree, hash_conn_get, modhash
<1>4. CASE UNCHANGED vars
  BY <1>4 DEF vars, Map!mapVars, hash_conn_get, modhash
<1> QED BY <1>1, <1>2, <1>3, <1>4 DEF Next, Map!MapNext

(* The hash table of collision lists implements the abstract map from      *)
(* descriptors to records.                                                 *)
THEOREM Refinement == Spec => RefinesMap
<1>1. Init => Map!MapInit
  BY DEF Init, Map!MapInit
<1>2. IInv /\ [Next]_vars => [Map!MapNext]_(Map!mapVars)
  <2>1. MapIsOwner' \/ ~IInv'
    BY MapDetermined, PTL
  <2> QED BY <2>1, NextIInv, StepRefines
<1> QED BY <1>1, <1>2, Invariance, PTL DEF Spec, RefinesMap, Map!MapSpec
=============================================================================
