---------------------------- MODULE BookmarkTree ----------------------------
(***************************************************************************)
(* The tree of bookmarks and the history, without threads or files: what    *)
(* each operation makes of the model it is given, and how a model is put    *)
(* into lines and read back                                                 *)
(* (browser/NativeLibs/harmony_bookmarks_{tree,history,file}.cpp).          *)
(*                                                                         *)
(* A tree maps the ids of its nodes to records; a folder carries its        *)
(* children in order and no address.  A history maps the addresses that     *)
(* have an entry to the times they were visited.  Titles are left out.      *)
(***************************************************************************)
EXTENDS FiniteSets, Lists

CONSTANTS
  NoURL,        \* what a folder has for an address
  MaxVisits,    \* kMaxVisitsPerEntry
  MaxEntries    \* kMaxHistoryEntries

ASSUME TreeAssumption == MaxVisits \in Nat \ {0} /\ MaxEntries \in Nat \ {0}

Bar == 1        \* HB_BOOKMARK_ROOT_BAR
Other == 2      \* HB_BOOKMARK_ROOT_OTHER
RootIds == {Bar, Other}

Folder(parent) == [parent |-> parent, folder |-> TRUE, url |-> NoURL, children |-> <<>>]
Bookmark(parent, url) == [parent |-> parent, folder |-> FALSE, url |-> url, children |-> <<>>]

\* bookmarksEnsureRootsLocked on an empty tree.
Roots == [i \in RootIds |-> Folder(0)]

IsFolder(t, i) == i \in DOMAIN t /\ t[i].folder

-----------------------------------------------------------------------------
(* The tree.                                                                *)

\* insertChildLocked: a place that is not in the list is its end.
InsertChild(t, parent, id, index) ==
  LET n == Len(t[parent].children)
      at == IF index < 0 \/ index > n THEN n ELSE index
  IN  [t EXCEPT ![parent].children = InsertAt(@, at + 1, id)]

\* detachLocked.
Detach(t, id) ==
  LET p == t[id].parent
  IN  IF p \in DOMAIN t THEN [t EXCEPT ![p].children = SelectSeq(@, LAMBDA c : c # id)] ELSE t

\* collectSubtreeLocked: down along the children.
Subtree(t, id) ==
  LET level[k \in 0..Cardinality(DOMAIN t)] ==
        IF k = 0 THEN {id}
        ELSE level[k - 1] \cup UNION {Range(t[i].children) : i \in level[k - 1] \cap DOMAIN t}
  IN  level[Cardinality(DOMAIN t)]

\* isInsideLocked: up along the parents.
IsInside(t, candidate, folder) ==
  LET up[k \in 0..Cardinality(DOMAIN t)] ==
        IF k = 0 THEN candidate
        ELSE IF up[k - 1] \in DOMAIN t THEN t[up[k - 1]].parent ELSE 0
  IN  \E k \in 0..Cardinality(DOMAIN t) : up[k] = folder

\* bookmarksAddLocked, once the folder is known to be one.
Added(t, id, node, index) ==
  InsertChild([i \in DOMAIN t \cup {id} |-> IF i = id THEN node ELSE t[i]], node.parent, id, index)

\* bookmarksRemoveLocked: a folder goes with everything in it; a root stays.
Removed(t, id) ==
  IF id \in RootIds \/ id \notin DOMAIN t THEN t
  ELSE LET doomed == Subtree(t, id) IN Restrict(Detach(t, id), DOMAIN t \ doomed)

\* Mutant: a folder may be moved into itself.
MovedAnywhere(t, id, parent, index) ==
  IF id \in RootIds \/ id \notin DOMAIN t \/ ~IsFolder(t, parent) \/ parent = id THEN t
  ELSE InsertChild([Detach(t, id) EXCEPT ![id].parent = parent], parent, id, index)

\* bookmarksMoveLocked: `index' is a place in the list the person was looking at, in
\* which the node still stood.
Moved(t, id, parent, index) ==
  IF id \in RootIds \/ id \notin DOMAIN t \/ ~IsFolder(t, parent) \/ IsInside(t, parent, id) THEN t
  ELSE LET from == SelectInSeq(t[parent].children, LAMBDA c : c = id) - 1
           at == IF t[id].parent = parent /\ from >= 0 /\ index > from THEN index - 1 ELSE index
       IN  InsertChild([Detach(t, id) EXCEPT ![id].parent = parent], parent, id, at)

NodesFor(t, url) == {i \in DOMAIN t : ~t[i].folder /\ t[i].url = url}

\* hb_bookmarks_toggle where the address has bookmarks: all of them go.
Unfiled(t, url) ==
  FoldSet(LAMBDA i, u : Removed(u, i), t, NodesFor(t, url))

-----------------------------------------------------------------------------
(* The history.  Two visits at one time are less than kSameVisitSeconds     *)
(* apart.                                                                   *)

LastOf(h, u) == h[u][Len(h[u])]

\* trimLocked: at the cap the least recently visited go.
Trimmed(h) ==
  IF Cardinality(DOMAIN h) <= MaxEntries THEN {h}
  ELSE {Restrict(h, kept) : kept \in
          {K \in SUBSET DOMAIN h :
             /\ Cardinality(K) = MaxEntries
             /\ \A u \in K, v \in DOMAIN h \ K : LastOf(h, u) >= LastOf(h, v)}}

\* Every entry has visits, in the order of time, within both caps.
InOrder(h) ==
  /\ Cardinality(DOMAIN h) <= MaxEntries
  /\ \A u \in DOMAIN h :
       /\ Len(h[u]) \in 1..MaxVisits
       /\ \A i, j \in 1..Len(h[u]) : i < j => h[u][i] < h[u][j]

\* The most recent MaxVisits.
Capped(s) == IF Len(s) > MaxVisits THEN SubSeq(s, Len(s) - MaxVisits + 1, Len(s)) ELSE s

\* historyRecordLocked; entries that tie leave the order of the sort open.
Recorded(h, u, at) ==
  LET old == IF u \in DOMAIN h THEN h[u] ELSE <<>>
      new == IF old # <<>> /\ old[Len(old)] = at THEN old ELSE Append(old, at)
  IN  Trimmed([v \in DOMAIN h \cup {u} |-> IF v = u THEN Capped(new) ELSE h[v]])

\* historyForgetURLLocked, and historyForgetHostLocked for every address of a host.
Forgotten(h, urls) == Restrict(h, DOMAIN h \ urls)

\* historyForgetSinceLocked: the visits since then go, and with the last of them the
\* entry.
ForgottenSince(h, since) ==
  LET left(u) == Only(h[u], {v \in Range(h[u]) : v < since})
  IN  [u \in {v \in DOMAIN h : left(v) # <<>>} |-> left(u)]

-----------------------------------------------------------------------------
(* The lines of the files.                                                  *)

Line(t, i) == [id |-> i, parent |-> t[i].parent, folder |-> t[i].folder, url |-> t[i].url]

\* encodeNodeLocked, encodeBookmarksLocked: depth first, parents before children.
EncodeTree(t) ==
  LET lines[k \in 0..Cardinality(DOMAIN t), i \in DOMAIN t] ==
        IF k = 0 THEN <<>>
        ELSE <<Line(t, i)>> \o FlattenSeq([c \in 1..Len(t[i].children) |-> lines[k - 1, t[i].children[c]]])
      all == Cardinality(DOMAIN t)
  IN  lines[all, Bar] \o lines[all, Other]

\* What decodeBookmarksLocked does with one line: the roots are there, and a node
\* whose parent is not a folder that has been read is left out.  (No id comes twice in
\* what encodeBookmarksLocked writes; the code would keep a second node for it.)
Adopted(t, l) ==
  IF l.id \in RootIds \/ ~IsFolder(t, l.parent) \/ (~l.folder /\ l.url = NoURL) THEN t
  ELSE Added(t, l.id, IF l.folder THEN Folder(l.parent) ELSE Bookmark(l.parent, l.url), -1)

DecodeTree(lines) == FoldLeft(Adopted, Roots, lines)

\* std::sort.
Sorted(s) ==
  CHOOSE r \in {[i \in DOMAIN s |-> s[p[i]]] : p \in Bijection(DOMAIN s, DOMAIN s)} :
    \A i, j \in DOMAIN s : i < j => r[i] <= r[j]

\* What decodeHistoryLocked makes of a file that encodeHistoryLocked wrote.
DecodedHistory(file) == [u \in DOMAIN file |-> Capped(Sorted(file[u]))]

\* decodeBookmarksLocked: the ids go on behind the highest that was read.
NextIdAfter(t) == Max(DOMAIN t) + 1
=============================================================================
