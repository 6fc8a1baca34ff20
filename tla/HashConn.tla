------------------------------ MODULE HashConn ------------------------------
(***************************************************************************)
(* The connection table: hash_conn.c (slots, depth, element count) over    *)
(* list_conn.c (the collision list of a slot).  A slot always has a head   *)
(* node, embedded in the table; colliding descriptors hang behind it.      *)
(* Deleting the last element of a slot frees its record and leaves the     *)
(* head as it was, so the head of an empty slot may hold a dangling        *)
(* pointer; only depth tells that the slot is empty.                       *)
(***************************************************************************)
EXTENDS Integers, FiniteSets, SequencesExt

CONSTANTS Fd,        \* descriptors that socket(2) may return
          Conn,      \* addresses malloc(3) may return for a conn_t
          NULL,      \* the null pointer
          Connections, \* the number of connections asked for (-c)
          TableSize  \* hash_conn_t.table_size, a prime not below Connections

ASSUME FdAssumption == Fd \subseteq Nat
ASSUME ConnAssumption == NULL \notin Conn
ASSUME ConnectionsAssumption == Connections \in Nat \ {0}
ASSUME TableSizeAssumption == TableSize \in Nat \ {0} /\ Connections <= TableSize

NoFd == -1           \* the key of a head that was never used
Slot == 0 .. TableSize - 1
Node == [key : Fd \cup {NoFd}, val : Conn \cup {NULL}]

VARIABLES chain,   \* idx_ptr[slot] with the nodes behind it, head first
          depth,   \* depth field of the head of each slot
          elenum,  \* hash_conn_t.elenum
          owner,   \* the heap: the fd field of each live conn_t, NoFd if free
          bufs,    \* conn_t's whose recv_buffer is allocated
          open,    \* descriptors the process has open and registered
          phase    \* "running", "freed", or "undefined" after an invalid free

vars == <<chain, depth, elenum, owner, bufs, open, phase>>

modhash(fd) == fd % TableSize

EmptyHead == [key |-> NoFd, val |-> NULL]

Init ==
  /\ chain = [s \in Slot |-> <<EmptyHead>>]
  /\ depth = [s \in Slot |-> 0]
  /\ elenum = 0
  /\ owner = [c \in Conn |-> NoFd]
  /\ bufs = {}
  /\ open = {}
  /\ phase = "running"

\* Index of the first node of a list with this key, 0 if there is none.
position(list, fd) == SelectInSeq(list, LAMBDA node : node.key = fd)

\* Mutant: only the head of the slot is looked at.
hash_conn_get_head(fd) == Head(chain[modhash(fd)]).val

\* hash_conn_get looks at every node, the head of an empty slot included.
hash_conn_get(fd) ==
  LET list == chain[modhash(fd)]
      at == position(list, fd)
  IN  IF at = 0 THEN NULL ELSE list[at].val

\* Mutant: a slot of depth 0 is appended to like any other.
added_behind(list, d, node) == Append(list, node)

\* list_conn_add appends; a slot of depth 0 reuses its embedded head.
added(list, d, node) == IF d # 0 THEN Append(list, node) ELSE <<node>>

\* Mutant: the second node goes, and is not copied into the head first.
removed_uncopied(list, fd) ==
  LET at == position(list, fd)
  IN  IF at = 0 \/ Len(list) = 1 THEN list
      ELSE RemoveAt(list, IF at = 1 THEN 2 ELSE at)

\* list_conn_delete: the second node is copied into a head that goes, a sole
\* head stays as it is, any other node is unlinked.
removed(list, fd) ==
  LET at == position(list, fd)
  IN  IF at = 0 \/ Len(list) = 1 THEN list ELSE RemoveAt(list, at)

Allocated == {c \in Conn : owner[c] # NoFd}

(* hash_conn_add, after socket(2) returned a descriptor that was not open. *)
Add(fd, c) ==
  /\ phase = "running"
  /\ fd \notin open
  /\ c \notin Allocated
  /\ open' = open \cup {fd}
  /\ owner' = [owner EXCEPT ![c] = fd]
  /\ bufs' = bufs \cup {c}
  /\ LET s == modhash(fd)
     IN  /\ chain' = [chain EXCEPT
                        ![s] = added(chain[s], depth[s], [key |-> fd, val |-> c])]
         /\ depth' = [depth EXCEPT ![s] = depth[s] + 1]
  /\ elenum' = elenum + 1
  /\ UNCHANGED phase

\* Mutant: conn_t is freed without its receive buffer.
Delete_leaks(fd) ==
  /\ phase = "running"
  /\ fd \in open
  /\ open' = open \ {fd}
  /\ LET s == modhash(fd)
     IN  /\ owner' = [owner EXCEPT ![hash_conn_get(fd)] = NoFd]
         /\ chain' = [chain EXCEPT ![s] = removed(chain[s], fd)]
         /\ depth' = [depth EXCEPT ![s] = depth[s] - 1]
  /\ elenum' = elenum - 1
  /\ UNCHANGED <<bufs, phase>>

(* hash_conn_delete, called by close_connection on an open descriptor.     *)
Delete(fd) ==
  /\ phase = "running"
  /\ fd \in open
  /\ open' = open \ {fd}
  /\ LET s == modhash(fd)
         gone == IF position(chain[s], fd) = 0 THEN {} ELSE {hash_conn_get(fd)}
     IN  IF depth[s] = 0
         THEN UNCHANGED <<chain, depth, elenum, owner, bufs>>
         ELSE /\ owner' = [c \in Conn |-> IF c \in gone THEN NoFd ELSE owner[c]]
              /\ bufs' = bufs \ gone
              /\ chain' = [chain EXCEPT ![s] = removed(chain[s], fd)]
              /\ depth' = [depth EXCEPT ![s] = depth[s] - 1]
              /\ elenum' = elenum - 1
  /\ UNCHANGED phase

\* hash_conn_free reads the record of every node, heads of empty slots
\* included, and frees its buffer: each must be there, and come up once.
Places == Slot \X (1 .. Cardinality(open) + 1)
NodePlaces == {p \in Places : p[2] <= Len(chain[p[1]])}
ValAt(p) == chain[p[1]][p[2]].val
FreeDefined ==
  /\ \A p \in NodePlaces : ValAt(p) \in Allocated \cap bufs
  /\ \A p, q \in NodePlaces : ValAt(p) = ValAt(q) => p = q

\* Mutant: only the heads are walked.
Free_heads ==
  /\ phase = "running"
  /\ Cardinality(open) >= Connections
  /\ IF FreeDefined
     THEN /\ phase' = "freed"
          /\ bufs' = bufs \ {ValAt(p) : p \in {q \in NodePlaces : q[2] = 1}}
     ELSE /\ phase' = "undefined"
          /\ UNCHANGED bufs
  /\ UNCHANGED <<chain, depth, elenum, owner, open>>

(* hash_conn_free, which main calls once, after ev_run_loop returned: all  *)
(* connections are open then (a closed one is replaced at once).           *)
Free ==
  /\ phase = "running"
  /\ Cardinality(open) >= Connections
  /\ IF FreeDefined
     THEN /\ phase' = "freed"
          /\ bufs' = bufs \ {ValAt(p) : p \in NodePlaces}
     ELSE /\ phase' = "undefined"
          /\ UNCHANGED bufs
  /\ UNCHANGED <<chain, depth, elenum, owner, open>>

Next ==
  \/ \E fd \in Fd, c \in Conn : Add(fd, c)
  \/ \E fd \in Fd : Delete(fd)
  \/ Free

Spec == Init /\ [][Next]_vars

-----------------------------------------------------------------------------
(* Every variable stays in its C type; nodes are never lost from a head.   *)
TypeOK ==
  /\ chain \in [Slot -> Seq(Node)]
  /\ depth \in [Slot -> Nat]
  /\ elenum \in Nat
  /\ owner \in [Conn -> Fd \cup {NoFd}]
  /\ bufs \subseteq Conn
  /\ open \subseteq Fd
  /\ phase \in {"running", "freed", "undefined"}

(* depth, the only thing that tells an empty slot from a used one, is the  *)
(* number of live nodes: the list length, except that an empty slot keeps  *)
(* its head (hash_conn.c:76-85, list_conn_delete).                         *)
DepthIsLength ==
  \A s \in Slot : Len(chain[s]) = IF depth[s] = 0 THEN 1 ELSE depth[s]

(* The nodes of a used slot are live records that hash to this slot, each  *)
(* with its receive buffer, under the descriptor the record was made for.  *)
LiveNodes ==
  \A s \in Slot : depth[s] # 0 =>
    \A i \in 1 .. Len(chain[s]) :
      LET node == chain[s][i]
      IN  /\ node.key \in open
          /\ modhash(node.key) = s
          /\ node.val \in Conn
          /\ owner[node.val] = node.key

(* A descriptor has at most one node in its slot.                          *)
KeysDistinct ==
  \A s \in Slot : depth[s] # 0 =>
    \A i, j \in 1 .. Len(chain[s]) : chain[s][i].key = chain[s][j].key => i = j

(* Every open descriptor has a live node, and every live record belongs to *)
(* an open descriptor: nothing leaks while the program runs.               *)
EveryoneListed ==
  /\ \A fd \in open : \E i \in 1 .. Len(chain[modhash(fd)]) :
        depth[modhash(fd)] # 0 /\ chain[modhash(fd)][i].key = fd
  /\ \A c \in Allocated : owner[c] \in open
  /\ \A c, d \in Allocated : owner[c] = owner[d] => c = d

(* While the program runs, the buffers allocated are those of the live     *)
(* records.                                                                *)
BufsOfLive == phase = "running" => bufs = Allocated

(* elenum counts the open descriptors and the live records.                *)
Counted ==
  /\ IsFiniteSet(open) /\ elenum = Cardinality(open)
  /\ IsFiniteSet(Allocated) /\ elenum = Cardinality(Allocated)

(* The inductive invariant of the table: what GetFindsOwner and            *)
(* NothingLeaks need of the lists, the heap and the counters together.     *)
IInv ==
  /\ TypeOK
  /\ DepthIsLength
  /\ LiveNodes
  /\ KeysDistinct
  /\ EveryoneListed
  /\ BufsOfLive
  /\ Counted

-----------------------------------------------------------------------------
(* hash_conn_get finds, for every open descriptor, the live record made    *)
(* for it, whatever was added and deleted in its slot before, and wherever *)
(* malloc(3) reused an address: the loop's "Fatal error" exits             *)
(* (networking.c:51, 113; ev.c:139) are not taken for an open socket.      *)
GetFindsOwner ==
  \A fd \in open : LET c == hash_conn_get(fd) IN c \in Allocated /\ owner[c] = fd

(* The element count is the number of live records, which is the number of *)
(* sockets the process holds: no record or buffer is leaked, none is freed *)
(* twice, while connections come and go (hash_conn_delete).                *)
NothingLeaks ==
  /\ elenum = Cardinality(Allocated)
  /\ elenum = Cardinality(open)
  /\ phase = "running" => bufs = Allocated

(* When hash_conn_free comes to its end, no receive buffer is left.        *)
FreeReleasesAll == phase = "freed" => bufs = {}

(* main.c:36 calls hash_conn_free whatever slots are in use, and           *)
(* hash_conn.h:38 makes it the place where receive buffers are freed: it   *)
(* frees valid buffers only.                                               *)
FreeIsDefined == phase # "undefined"

(* networking.c:51-54, 113-115 and ev.c:139-142 test the result of         *)
(* hash_conn_get against NULL to detect a descriptor that is not in the    *)
(* table.                                                                  *)
UnknownIsNull == \A fd \in Fd \ open : hash_conn_get(fd) = NULL

\* The table implements the abstract map.
Map == INSTANCE ConnMap
         WITH map <- [fd \in Fd |-> IF fd \in open THEN hash_conn_get(fd) ELSE NULL],
              gone <- phase # "running"

(* The table with its collision lists, reused heads and dangling pointers  *)
(* behaves for its callers as a plain map from descriptors to records.     *)
RefinesMap == Map!MapSpec
=============================================================================
