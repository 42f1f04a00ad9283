-------------------------- MODULE QuerySetsProofs ---------------------------
(***************************************************************************)
(* That a query set selects and writes what was asked of it, and is never  *)
(* changed by what is chained from it, for any conditions, objects, limits *)
(* and number of queries.                                                  *)
(*                                                                         *)
(* Each call appends a query to the heap, or two, and changes in place     *)
(* only what it has just appended (Added): the others stay what they were  *)
(* (Extends).  What the nodes of a query say is what the calls that led to *)
(* it asked for (Meant), and this is all that the rows depend on           *)
(* (SelectedMeant).                                                        *)
(***************************************************************************)
EXTENDS QuerySets, FiniteSetTheorems, SequenceTheorems, TLAPS

Alias == {"T", "U"}
Atom == [alias: Alias, condition: Conditions] \cup [alias: Alias, query: Nat]
Query == [where: Nat, prewhere: Nat, settings: Nat, low: Int, high: Int, alias: Alias]
Heap == [nodes: Seq(SUBSET Atom), dicts: Seq(Int), queries: Seq(Query)]
Asked == [conditions: SUBSET Conditions, prewhere: BOOLEAN, refused: BOOLEAN,
          within: SUBSET Nat, settings: Int, low: Int, high: Int]

\* The references within a heap.
Placed(h) ==
    \A q \in DOMAIN h.queries : /\ h.queries[q].where \in DOMAIN h.nodes
                                /\ h.queries[q].prewhere \in DOMAIN h.nodes
                                /\ h.queries[q].settings \in DOMAIN h.dicts

\* The nodes w and p of a query under an alias say what ask asks for; its subqueries
\* are copies of those asked for.
Meant(a, w, p, alias, ask) ==
    /\ \A x \in w \cup p : x.alias = alias
    /\ \A x \in p : ~IsSubquery(x)
    /\ \A x \in w \cup p : ~IsSubquery(x) => x.condition \in ask.conditions
    /\ \A c \in ask.conditions : \E x \in w \cup p : ~IsSubquery(x) /\ x.condition = c
    /\ ask.refused <=> \E x \in p : x.condition.aggregate
    /\ ~ask.prewhere => p = {}
    /\ \A x \in w : IsSubquery(x) =>
         /\ x.query \in DOMAIN a /\ a[x.query].within = {}
         /\ \E in \in ask.within : a[in] = a[x.query]
    /\ \A in \in ask.within : in \in DOMAIN a /\ \E x \in w : IsSubquery(x) /\ a[x.query] = a[in]

\* A query of the heap h is what was asked of it.
Conforms(h, a, q) ==
    LET query == h.queries[q] IN
    /\ Meant(a, h.nodes[query.where], h.nodes[query.prewhere], query.alias, a[q])
    /\ h.dicts[query.settings] = a[q].settings
    /\ query.low = a[q].low /\ query.high = a[q].high

\* Each query of the heap is.
Faithful(h, a) ==
    /\ h \in Heap /\ Placed(h)
    /\ a \in Seq(Asked) /\ Len(a) = Len(h.queries)
    /\ \A q \in DOMAIN h.queries : Conforms(h, a, q)

\* The inductive invariant.
HeapInv == Faithful(heap, asked) /\ IsFiniteSet(DOMAIN table)

-----------------------------------------------------------------------------
(* Heaps that grow.                                                         *)

\* What is in s is in t, where it was.
Grows(s, t) == DOMAIN s \subseteq DOMAIN t /\ \A i \in DOMAIN s : t[i] = s[i]
Extends(h, g) ==
    Grows(h.nodes, g.nodes) /\ Grows(h.dicts, g.dicts) /\ Grows(h.queries, g.queries)

\* The heap g is h with one query more, which has nodes and settings of its own:
\* w, p and s.
Added(h, g, w, p, s, low, high, alias) ==
    LET n == Len(h.queries) + 1
        c == g.queries[n]
    IN  /\ g \in Heap /\ Extends(h, g) /\ Len(g.queries) = n
        /\ c.where \in DOMAIN g.nodes \ DOMAIN h.nodes
        /\ c.prewhere \in DOMAIN g.nodes \ DOMAIN h.nodes
        /\ c.where # c.prewhere
        /\ c.settings \in DOMAIN g.dicts \ DOMAIN h.dicts
        /\ g.nodes[c.where] = w /\ g.nodes[c.prewhere] = p /\ g.dicts[c.settings] = s
        /\ c.low = low /\ c.high = high /\ c.alias = alias

\* The domain of a sequence.
LEMMA SeqDomain ==
    ASSUME NEW S, NEW s \in Seq(S)
    PROVE  DOMAIN s = 1..Len(s) /\ Len(s) \in Nat
OBVIOUS

\* Two elements more.
LEMMA TwoMore ==
    ASSUME NEW S, NEW s \in Seq(S), NEW x \in S, NEW y \in S
    PROVE  LET t == s \o <<x, y>> IN
           /\ t \in Seq(S) /\ Len(t) = Len(s) + 2 /\ Grows(s, t)
           /\ t[Len(s) + 1] = x /\ t[Len(s) + 2] = y
<1> DEFINE r == <<x, y>>
           t == s \o r
<1>1. r \in Seq(S) /\ Len(r) = 2 /\ r[1] = x /\ r[2] = y
  OBVIOUS
<1> HIDE DEF r
<1>2. t \in Seq(S) /\ Len(t) = Len(s) + 2
  <2>1. s \o r \in Seq(S) /\ Len(s \o r) = Len(s) + Len(r)
    BY <1>1, ConcatProperties
  <2> QED
    BY <1>1, <2>1
<1>3. \A i \in 1..Len(s) : t[i] = s[i]
  BY <1>1
<1>4. t[Len(s) + 1] = r[1] /\ t[Len(s) + 2] = r[2]
  <2>1. \A i \in 1..(Len(s) + Len(r)) : t[i] = IF i <= Len(s) THEN s[i] ELSE r[i - Len(s)]
    BY <1>1, ConcatProperties
  <2>2. Len(s) \in Nat
    OBVIOUS
  <2> HIDE DEF t
  <2>3. /\ Len(s) + 1 \in 1..(Len(s) + Len(r)) /\ Len(s) + 2 \in 1..(Len(s) + Len(r))
        /\ ~(Len(s) + 1 <= Len(s)) /\ ~(Len(s) + 2 <= Len(s))
        /\ Len(s) + 1 - Len(s) = 1 /\ Len(s) + 2 - Len(s) = 2
    BY <1>1, <2>2
  <2> QED
    BY <2>1, <2>3
<1>5. DOMAIN s = 1..Len(s) /\ DOMAIN t = 1..Len(t) /\ Len(s) \in Nat
  BY <1>2
<1> HIDE DEF t
<1>6. Grows(s, t)
  BY <1>2, <1>3, <1>5 DEF Grows
<1> QED
  BY <1>1, <1>2, <1>4, <1>6 DEF r, t

\* One element more.
LEMMA OneMore ==
    ASSUME NEW S, NEW s \in Seq(S), NEW x \in S
    PROVE  LET t == Append(s, x) IN
           t \in Seq(S) /\ Len(t) = Len(s) + 1 /\ Grows(s, t) /\ t[Len(s) + 1] = x
<1> DEFINE t == Append(s, x)
<1>1. t \in Seq(S) /\ Len(t) = Len(s) + 1 /\ t[Len(s) + 1] = x
  OBVIOUS
<1>2. \A i \in 1..Len(s) : t[i] = s[i]
  OBVIOUS
<1>3. DOMAIN s = 1..Len(s) /\ DOMAIN t = 1..Len(t) /\ Len(s) \in Nat
  BY <1>1
<1> HIDE DEF t
<1>4. Grows(s, t)
  BY <1>1, <1>2, <1>3 DEF Grows
<1> QED
  BY <1>1, <1>4 DEF t

\* A clone has the contents of the query it was cloned from.
LEMMA CloneAdds ==
    ASSUME NEW h \in Heap, Placed(h), NEW q \in DOMAIN h.queries
    PROVE  LET c == h.queries[q] IN
           Added(h, Clone(h, q), h.nodes[c.where], h.nodes[c.prewhere], h.dicts[c.settings],
                 c.low, c.high, c.alias)
<1> DEFINE c == h.queries[q]
           d == [c EXCEPT !.where = Len(h.nodes) + 1, !.prewhere = Len(h.nodes) + 2,
                          !.settings = Len(h.dicts) + 1]
           g == Clone(h, q)
<1>1. /\ h.nodes \in Seq(SUBSET Atom) /\ h.dicts \in Seq(Int) /\ h.queries \in Seq(Query)
      /\ c \in Query
  BY DEF Heap
<1>2. /\ c.where \in DOMAIN h.nodes /\ c.prewhere \in DOMAIN h.nodes
      /\ c.settings \in DOMAIN h.dicts
  BY DEF Placed
<1>3. /\ g.nodes = h.nodes \o <<h.nodes[c.where], h.nodes[c.prewhere]>>
      /\ g.dicts = Append(h.dicts, h.dicts[c.settings])
      /\ g.queries = Append(h.queries, d)
      /\ g = [nodes |-> g.nodes, dicts |-> g.dicts, queries |-> g.queries]
  BY DEF Clone
<1>4. d \in Query /\ d.where = Len(h.nodes) + 1 /\ d.prewhere = Len(h.nodes) + 2
      /\ d.settings = Len(h.dicts) + 1 /\ d.low = c.low /\ d.high = c.high /\ d.alias = c.alias
  <2> DEFINE i == Len(h.nodes) + 1
             j == Len(h.nodes) + 2
             k == Len(h.dicts) + 1
  <2>1. i \in Nat /\ j \in Nat /\ k \in Nat
    BY <1>1
  <2> HIDE DEF i, j, k
  <2>2. d = [c EXCEPT !.where = i, !.prewhere = j, !.settings = k]
    BY DEF i, j, k
  <2> HIDE DEF c, d
  <2>3. d \in Query /\ d.where = i /\ d.prewhere = j /\ d.settings = k
        /\ d.low = c.low /\ d.high = c.high /\ d.alias = c.alias
    BY <1>1, <2>1, <2>2 DEF Query
  <2> QED
    BY <2>3 DEF i, j, k
<1>5. h.nodes[c.where] \in SUBSET Atom /\ h.nodes[c.prewhere] \in SUBSET Atom
      /\ h.dicts[c.settings] \in Int
  BY <1>1, <1>2
<1> HIDE DEF c, d, g
<1>6. /\ g.nodes \in Seq(SUBSET Atom) /\ Len(g.nodes) = Len(h.nodes) + 2
      /\ Grows(h.nodes, g.nodes)
      /\ g.nodes[Len(h.nodes) + 1] = h.nodes[c.where]
      /\ g.nodes[Len(h.nodes) + 2] = h.nodes[c.prewhere]
  <2> DEFINE S == SUBSET Atom
             x == h.nodes[c.where]
             y == h.nodes[c.prewhere]
             s == h.nodes
  <2>1. s \in Seq(S) /\ x \in S /\ y \in S /\ g.nodes = s \o <<x, y>>
    BY <1>1, <1>3, <1>5
  <2> HIDE DEF S, x, y, s
  <2>2. /\ g.nodes \in Seq(S) /\ Len(g.nodes) = Len(s) + 2 /\ Grows(s, g.nodes)
        /\ g.nodes[Len(s) + 1] = x /\ g.nodes[Len(s) + 2] = y
    BY <2>1, TwoMore
  <2> QED
    BY <2>2 DEF S, x, y, s
<1>7. /\ g.dicts \in Seq(Int) /\ Len(g.dicts) = Len(h.dicts) + 1
      /\ Grows(h.dicts, g.dicts) /\ g.dicts[Len(h.dicts) + 1] = h.dicts[c.settings]
  BY <1>1, <1>3, <1>5, OneMore
<1>8. /\ g.queries \in Seq(Query) /\ Len(g.queries) = Len(h.queries) + 1
      /\ Grows(h.queries, g.queries) /\ g.queries[Len(h.queries) + 1] = d
  BY <1>1, <1>3, <1>4, OneMore
<1>9. /\ DOMAIN h.nodes = 1..Len(h.nodes) /\ DOMAIN g.nodes = 1..Len(g.nodes)
      /\ DOMAIN h.dicts = 1..Len(h.dicts) /\ DOMAIN g.dicts = 1..Len(g.dicts)
      /\ Len(h.nodes) \in Nat /\ Len(h.dicts) \in Nat
  <2>1. DOMAIN h.nodes = 1..Len(h.nodes) /\ Len(h.nodes) \in Nat
    BY <1>1, SeqDomain
  <2>2. DOMAIN g.nodes = 1..Len(g.nodes)
    BY <1>6, SeqDomain
  <2>3. DOMAIN h.dicts = 1..Len(h.dicts) /\ Len(h.dicts) \in Nat
    BY <1>1, SeqDomain
  <2>4. DOMAIN g.dicts = 1..Len(g.dicts)
    BY <1>7, SeqDomain
  <2> QED
    BY <2>1, <2>2, <2>3, <2>4
<1>10. g \in Heap
  BY <1>3, <1>6, <1>7, <1>8 DEF Heap
<1>11. Extends(h, g)
  BY <1>6, <1>7, <1>8 DEF Extends
<1>12. /\ d.where \in DOMAIN g.nodes \ DOMAIN h.nodes
       /\ d.prewhere \in DOMAIN g.nodes \ DOMAIN h.nodes
       /\ d.where # d.prewhere
       /\ d.settings \in DOMAIN g.dicts \ DOMAIN h.dicts
  BY <1>4, <1>6, <1>7, <1>9
<1>13. /\ g.nodes[d.where] = h.nodes[c.where] /\ g.nodes[d.prewhere] = h.nodes[c.prewhere]
       /\ g.dicts[d.settings] = h.dicts[c.settings]
  BY <1>4, <1>6, <1>7
<1> QED
  BY <1>4, <1>8, <1>10, <1>11, <1>12, <1>13 DEF Added, c, g

\* The heap with another content of a node, other settings, another query.
Put(g, i, v) == [g EXCEPT !.nodes[i] = v]
PutDict(g, i, v) == [g EXCEPT !.dicts[i] = v]
PutLast(g, i, v) == [g EXCEPT !.queries[i] = v]
Parts(n, d, q) == [nodes |-> n, dicts |-> d, queries |-> q]

\* They differ in that part only.
LEMMA PutAsParts ==
    ASSUME NEW g \in Heap, NEW i, NEW v
    PROVE  /\ Put(g, i, v) = Parts([g.nodes EXCEPT ![i] = v], g.dicts, g.queries)
           /\ PutDict(g, i, v) = Parts(g.nodes, [g.dicts EXCEPT ![i] = v], g.queries)
           /\ PutLast(g, i, v) = Parts(g.nodes, g.dicts, [g.queries EXCEPT ![i] = v])
<1> DEFINE N == Seq(SUBSET Atom)
           D == Seq(Int)
           Q == Seq(Query)
<1>1. g \in [nodes: N, dicts: D, queries: Q]
  BY DEF Heap
<1> HIDE DEF N, D, Q
<1>2. Put(g, i, v) = Parts([g.nodes EXCEPT ![i] = v], g.dicts, g.queries)
  BY <1>1 DEF Put, Parts
<1>3. PutDict(g, i, v) = Parts(g.nodes, [g.dicts EXCEPT ![i] = v], g.queries)
  BY <1>1 DEF PutDict, Parts
<1>4. PutLast(g, i, v) = Parts(g.nodes, g.dicts, [g.queries EXCEPT ![i] = v])
  BY <1>1 DEF PutLast, Parts
<1> QED
  BY <1>2, <1>3, <1>4

\* It differs in that only.
LEMMA PutParts ==
    ASSUME NEW g \in Heap, NEW node \in DOMAIN g.nodes, NEW v \in SUBSET Atom
    PROVE  /\ Put(g, node, v) \in Heap /\ DOMAIN Put(g, node, v).nodes = DOMAIN g.nodes
           /\ Put(g, node, v).dicts = g.dicts /\ Put(g, node, v).queries = g.queries
           /\ Put(g, node, v).nodes[node] = v
           /\ \A i \in DOMAIN g.nodes : i # node => Put(g, node, v).nodes[i] = g.nodes[i]
<1> DEFINE e == Put(g, node, v)
           nodes == [g.nodes EXCEPT ![node] = v]
<1>1. /\ g.nodes \in Seq(SUBSET Atom) /\ g.dicts \in Seq(Int) /\ g.queries \in Seq(Query)
      /\ g = [nodes |-> g.nodes, dicts |-> g.dicts, queries |-> g.queries]
  BY DEF Heap
<1>2. e = [nodes |-> nodes, dicts |-> g.dicts, queries |-> g.queries]
  BY PutAsParts DEF Parts
<1>3. nodes \in Seq(SUBSET Atom)
  <2> DEFINE S == SUBSET Atom
             s == g.nodes
  <2>1. s \in Seq(S) /\ v \in S /\ node \in DOMAIN s
    BY <1>1
  <2> HIDE DEF S, s
  <2>2. [s EXCEPT ![node] = v] \in Seq(S)
    BY <2>1
  <2> QED
    BY <2>2 DEF S, s
<1>4. /\ DOMAIN nodes = DOMAIN g.nodes /\ nodes[node] = v
      /\ \A i \in DOMAIN g.nodes : i # node => nodes[i] = g.nodes[i]
  OBVIOUS
<1> HIDE DEF nodes
<1>5. e.nodes = nodes /\ e.dicts = g.dicts /\ e.queries = g.queries /\ e \in Heap
  BY <1>1, <1>2, <1>3 DEF Heap
<1> QED
  BY <1>4, <1>5

\* Another content of the where node of the new query.
LEMMA PutWhere ==
    ASSUME NEW h \in Heap, NEW g, NEW w, NEW p, NEW s, NEW low, NEW high, NEW alias,
           Added(h, g, w, p, s, low, high, alias), NEW v \in SUBSET Atom
    PROVE  Added(h, Put(g, LastOf(g).where, v), v, p, s, low, high, alias)
<1> DEFINE n == Len(h.queries) + 1
           c == g.queries[n]
           e == Put(g, c.where, v)
<1>1. /\ g \in Heap /\ Extends(h, g) /\ Len(g.queries) = n
      /\ c.where \in DOMAIN g.nodes \ DOMAIN h.nodes
      /\ c.prewhere \in DOMAIN g.nodes \ DOMAIN h.nodes
      /\ c.where # c.prewhere
      /\ c.settings \in DOMAIN g.dicts \ DOMAIN h.dicts
      /\ g.nodes[c.prewhere] = p /\ g.dicts[c.settings] = s
      /\ c.low = low /\ c.high = high /\ c.alias = alias
  BY DEF Added
<1>2. LastOf(g) = c
  BY <1>1 DEF LastOf
<1> HIDE DEF c, n
<1>3. /\ e \in Heap /\ DOMAIN e.nodes = DOMAIN g.nodes
      /\ e.dicts = g.dicts /\ e.queries = g.queries /\ e.nodes[c.where] = v
      /\ \A i \in DOMAIN g.nodes : i # c.where => e.nodes[i] = g.nodes[i]
  BY <1>1, PutParts
<1> HIDE DEF e
<1>4. Extends(h, e)
  BY <1>1, <1>3 DEF Extends, Grows
<1>5. e.nodes[c.prewhere] = p
  BY <1>1, <1>3
<1>6. e.queries[n] = c
  BY <1>3 DEF c
<1>7. Added(h, e, v, p, s, low, high, alias)
  BY <1>1, <1>3, <1>4, <1>5, <1>6 DEF Added, n
<1> QED
  BY <1>2, <1>7 DEF e

\* Another content of its prewhere node.
LEMMA PutPrewhere ==
    ASSUME NEW h \in Heap, NEW g, NEW w, NEW p, NEW s, NEW low, NEW high, NEW alias,
           Added(h, g, w, p, s, low, high, alias), NEW v \in SUBSET Atom
    PROVE  Added(h, Put(g, LastOf(g).prewhere, v), w, v, s, low, high, alias)
<1> DEFINE n == Len(h.queries) + 1
           c == g.queries[n]
           e == Put(g, c.prewhere, v)
<1>1. /\ g \in Heap /\ Extends(h, g) /\ Len(g.queries) = n
      /\ c.where \in DOMAIN g.nodes \ DOMAIN h.nodes
      /\ c.prewhere \in DOMAIN g.nodes \ DOMAIN h.nodes
      /\ c.where # c.prewhere
      /\ c.settings \in DOMAIN g.dicts \ DOMAIN h.dicts
      /\ g.nodes[c.where] = w /\ g.dicts[c.settings] = s
      /\ c.low = low /\ c.high = high /\ c.alias = alias
  BY DEF Added
<1>2. LastOf(g) = c
  BY <1>1 DEF LastOf
<1> HIDE DEF c, n
<1>3. /\ e \in Heap /\ DOMAIN e.nodes = DOMAIN g.nodes
      /\ e.dicts = g.dicts /\ e.queries = g.queries /\ e.nodes[c.prewhere] = v
      /\ \A i \in DOMAIN g.nodes : i # c.prewhere => e.nodes[i] = g.nodes[i]
  BY <1>1, PutParts
<1> HIDE DEF e
<1>4. Extends(h, e)
  BY <1>1, <1>3 DEF Extends, Grows
<1>5. e.nodes[c.where] = w
  BY <1>1, <1>3
<1>6. e.queries[n] = c
  BY <1>3 DEF c
<1>7. Added(h, e, w, v, s, low, high, alias)
  BY <1>1, <1>3, <1>4, <1>5, <1>6 DEF Added, n
<1> QED
  BY <1>2, <1>7 DEF e

\* Other settings of the new query.
LEMMA PutSettings ==
    ASSUME NEW h \in Heap, NEW g, NEW w, NEW p, NEW s, NEW low, NEW high, NEW alias,
           Added(h, g, w, p, s, low, high, alias), NEW v \in Int
    PROVE  Added(h, PutDict(g, LastOf(g).settings, v), w, p, v, low, high, alias)
<1> DEFINE n == Len(h.queries) + 1
           c == g.queries[n]
           dicts == [g.dicts EXCEPT ![c.settings] = v]
           e == PutDict(g, LastOf(g).settings, v)
<1>1. /\ g \in Heap /\ Extends(h, g) /\ Len(g.queries) = n
      /\ c.where \in DOMAIN g.nodes \ DOMAIN h.nodes
      /\ c.prewhere \in DOMAIN g.nodes \ DOMAIN h.nodes
      /\ c.where # c.prewhere
      /\ c.settings \in DOMAIN g.dicts \ DOMAIN h.dicts
      /\ g.nodes[c.where] = w /\ g.nodes[c.prewhere] = p
      /\ c.low = low /\ c.high = high /\ c.alias = alias
  BY DEF Added
<1>2. LastOf(g) = c
  BY <1>1 DEF LastOf
<1> HIDE DEF c, n
<1>3. /\ g.nodes \in Seq(SUBSET Atom) /\ g.dicts \in Seq(Int) /\ g.queries \in Seq(Query)
      /\ g = [nodes |-> g.nodes, dicts |-> g.dicts, queries |-> g.queries]
  BY <1>1 DEF Heap
<1>4. e = [nodes |-> g.nodes, dicts |-> dicts, queries |-> g.queries]
  BY <1>1, <1>2, PutAsParts DEF Parts
<1>5. /\ dicts \in Seq(Int) /\ DOMAIN dicts = DOMAIN g.dicts /\ dicts[c.settings] = v
      /\ \A i \in DOMAIN g.dicts : i # c.settings => dicts[i] = g.dicts[i]
  BY <1>1, <1>3
<1> HIDE DEF dicts, e
<1>6. e.nodes = g.nodes /\ e.dicts = dicts /\ e.queries = g.queries /\ e \in Heap
  BY <1>3, <1>4, <1>5 DEF Heap
<1>7. Extends(h, e)
  BY <1>1, <1>5, <1>6 DEF Extends, Grows
<1>8. e.queries[n] = c
  BY <1>6 DEF c
<1>9. Added(h, e, w, p, v, low, high, alias)
  BY <1>1, <1>5, <1>6, <1>7, <1>8 DEF Added, n
<1> QED
  BY <1>9 DEF e

\* Other limits or another alias of the new query.
LEMMA PutQuery ==
    ASSUME NEW h \in Heap, NEW g, NEW w, NEW p, NEW s, NEW low, NEW high, NEW alias,
           Added(h, g, w, p, s, low, high, alias), NEW v \in Query,
           v.where = LastOf(g).where, v.prewhere = LastOf(g).prewhere,
           v.settings = LastOf(g).settings
    PROVE  Added(h, PutLast(g, Len(g.queries), v), w, p, s, v.low, v.high, v.alias)
<1> DEFINE n == Len(h.queries) + 1
           c == g.queries[n]
           queries == [g.queries EXCEPT ![n] = v]
           e == PutLast(g, Len(g.queries), v)
<1>1. /\ g \in Heap /\ Extends(h, g) /\ Len(g.queries) = n
      /\ c.where \in DOMAIN g.nodes \ DOMAIN h.nodes
      /\ c.prewhere \in DOMAIN g.nodes \ DOMAIN h.nodes
      /\ c.where # c.prewhere
      /\ c.settings \in DOMAIN g.dicts \ DOMAIN h.dicts
      /\ g.nodes[c.where] = w /\ g.nodes[c.prewhere] = p /\ g.dicts[c.settings] = s
  BY DEF Added
<1>2. LastOf(g) = c
  BY <1>1 DEF LastOf
<1>3. /\ g.nodes \in Seq(SUBSET Atom) /\ g.dicts \in Seq(Int) /\ g.queries \in Seq(Query)
      /\ g = [nodes |-> g.nodes, dicts |-> g.dicts, queries |-> g.queries]
  BY <1>1 DEF Heap
<1>4. DOMAIN g.queries = 1..n /\ DOMAIN h.queries = 1..(n - 1) /\ n \in Nat /\ n \in 1..n
  <2>1. h.queries \in Seq(Query)
    BY DEF Heap
  <2>2. DOMAIN h.queries = 1..Len(h.queries) /\ Len(h.queries) \in Nat
    BY <2>1, SeqDomain
  <2>3. DOMAIN g.queries = 1..Len(g.queries)
    BY <1>3, SeqDomain
  <2> QED
    BY <1>1, <2>2, <2>3
<1> HIDE DEF c, n
<1>5. e = [nodes |-> g.nodes, dicts |-> g.dicts, queries |-> queries]
  BY <1>1, PutAsParts DEF Parts
<1>6. /\ queries \in Seq(Query) /\ DOMAIN queries = DOMAIN g.queries /\ queries[n] = v
      /\ \A i \in DOMAIN g.queries : i # n => queries[i] = g.queries[i]
      /\ Len(queries) = n
  BY <1>1, <1>3, <1>4
<1> HIDE DEF queries, e
<1>7. e.nodes = g.nodes /\ e.dicts = g.dicts /\ e.queries = queries /\ e \in Heap
  BY <1>3, <1>5, <1>6 DEF Heap
<1>8. \A i \in DOMAIN h.queries : i # n
  BY <1>4
<1>9. Extends(h, e)
  BY <1>1, <1>6, <1>7, <1>8 DEF Extends, Grows
<1>10. Added(h, e, w, p, s, v.low, v.high, v.alias)
  BY <1>1, <1>2, <1>6, <1>7, <1>9 DEF Added, n
<1> QED
  BY <1>10 DEF e

\* An atom and a node under another alias.
RecastOne(x, alias) == [x EXCEPT !.alias = alias]
Recast(v, alias) == {RecastOne(x, alias) : x \in v}

\* An atom under another alias says the same.
LEMMA RecastAtom ==
    ASSUME NEW x \in Atom, NEW alias \in Alias
    PROVE  LET y == RecastOne(x, alias) IN
           /\ y \in Atom /\ y.alias = alias /\ (IsSubquery(y) <=> IsSubquery(x))
           /\ IsSubquery(x) => y.query = x.query
           /\ ~IsSubquery(x) => y.condition = x.condition
<1>1. CASE x \in [alias: Alias, condition: Conditions]
  BY <1>1 DEF Atom, IsSubquery, RecastOne
<1>2. CASE x \in [alias: Alias, query: Nat]
  BY <1>2 DEF Atom, IsSubquery, RecastOne
<1> QED
  BY <1>1, <1>2 DEF Atom

\* change_aliases() gives the new query other aliases, and says the same.
LEMMA AliasesChanged ==
    ASSUME NEW h \in Heap, NEW g, NEW w \in SUBSET Atom, NEW p \in SUBSET Atom, NEW s,
           NEW low, NEW high, NEW old, NEW alias \in Alias,
           Added(h, g, w, p, s, low, high, old)
    PROVE  Added(h, ChangeAliases(g, alias), Recast(w, alias), Recast(p, alias), s, low, high, alias)
<1> DEFINE v == Recast(w, alias)
           u == Recast(p, alias)
           c == LastOf(g)
           g1 == Put(g, c.where, v)
           g2 == Put(g1, c.prewhere, u)
           d == [c EXCEPT !.alias = alias]
<1>1. v \in SUBSET Atom /\ u \in SUBSET Atom
  <2>1. \A x \in Atom : RecastOne(x, alias) \in Atom
    BY RecastAtom
  <2> QED
    BY <2>1 DEF Recast
<1>2. /\ g \in Heap /\ c \in Query /\ c.low = low /\ c.high = high
      /\ g.nodes[c.where] = w /\ g.nodes[c.prewhere] = p
      /\ c.where \in DOMAIN g.nodes /\ c.prewhere \in DOMAIN g.nodes /\ c.where # c.prewhere
  <2> DEFINE n == Len(h.queries) + 1
  <2>1. h.queries \in Seq(Query)
    BY DEF Heap
  <2>2. n \in Nat /\ n # 0
    BY <2>1
  <2> HIDE DEF n
  <2>3. g \in Heap /\ Len(g.queries) = n
    BY DEF Added, n
  <2>4. g.queries[n] \in Query
    <3>1. g.queries \in Seq(Query)
      BY <2>3 DEF Heap
    <3> QED
      BY <2>2, <2>3, <3>1
  <2> QED
    BY <2>3, <2>4 DEF Added, LastOf, n
<1>3. Added(h, g1, v, p, s, low, high, old)
  BY <1>1, PutWhere
<1>4. /\ g1 \in Heap /\ g1.queries = g.queries /\ DOMAIN g1.nodes = DOMAIN g.nodes
      /\ g1.nodes[c.prewhere] = p
  BY <1>1, <1>2, PutParts
<1>5. LastOf(g1) = c
  BY <1>4 DEF LastOf
<1>6. Added(h, g2, v, u, s, low, high, old)
  BY <1>1, <1>3, <1>5, PutPrewhere
<1>7. g2.queries = g.queries
  <2> HIDE DEF g1, v, u, c
  <2> QED
    BY <1>1, <1>2, <1>4, PutParts
<1>8. LastOf(g2) = c /\ Len(g2.queries) = Len(g.queries)
  BY <1>7 DEF LastOf
<1>9. /\ d \in Query /\ d.where = c.where /\ d.prewhere = c.prewhere /\ d.settings = c.settings
      /\ d.low = low /\ d.high = high /\ d.alias = alias
  <2> HIDE DEF c
  <2> QED
    BY <1>2 DEF Query
<1>10. Added(h, PutLast(g2, Len(g.queries), d), v, u, s, low, high, alias)
  <2> HIDE DEF d, g2, c, v, u
  <2>1. Added(h, PutLast(g2, Len(g2.queries), d), v, u, s, d.low, d.high, d.alias)
    BY <1>6, <1>8, <1>9, PutQuery
  <2> QED
    BY <2>1, <1>8, <1>9
<1>11. Relabelled(g, c.where, alias) = g1
  BY <1>2 DEF Relabelled, Put, Recast, RecastOne
<1>12. Relabelled(g1, c.prewhere, alias) = g2
  BY <1>4 DEF Relabelled, Put, Recast, RecastOne
<1>13. ChangeAliases(g, alias) = PutLast(g2, Len(g.queries), d)
  <2>1. ChangeAliases(g, alias) = [g2 EXCEPT !.queries[Len(g.queries)].alias = alias]
    BY <1>11, <1>12 DEF ChangeAliases
  <2>2. g2.queries[Len(g.queries)] = c
    BY <1>8 DEF LastOf
  <2> HIDE DEF g2, c
  <2> QED
    BY <2>1, <2>2 DEF PutLast
<1> QED
  BY <1>10, <1>13

\* Of two numbers the smaller one.
LEMMA MinOfTwo ==
    ASSUME NEW a \in Int, NEW b \in Int
    PROVE  Min({a, b}) \in Int
<1>1. \E x \in {a, b} : \A y \in {a, b} : x =< y
  OBVIOUS
<1>2. Min({a, b}) \in {a, b}
  BY <1>1 DEF Min
<1> QED
  BY <1>2

\* The marks of a slice, within those before.
HighMark(low, high, to) == IF to = NoLimit THEN high ELSE Capped(low + to, high)
LowMark(low, high, from, to) == Capped(low + from, HighMark(low, high, to))

\* They are numbers.
LEMMA MarksInt ==
    ASSUME NEW low \in Int, NEW high \in Int, NEW from \in Int, NEW to \in Int
    PROVE  HighMark(low, high, to) \in Int /\ LowMark(low, high, from, to) \in Int
<1>1. \A m \in Int, n \in Int : Capped(m, n) \in Int
  BY MinOfTwo DEF Capped
<1>2. HighMark(low, high, to) \in Int
  <2>1. low + to \in Int
    OBVIOUS
  <2> QED
    BY <1>1, <2>1 DEF HighMark
<1>3. low + from \in Int
  OBVIOUS
<1> QED
  BY <1>1, <1>2, <1>3 DEF LowMark

\* A slice of a query changes its marks only.
LEMMA LimitedQuery ==
    ASSUME NEW c \in Query, NEW from \in Int, NEW to \in Int
    PROVE  LET d == Limited(c, from, to) IN
           /\ d \in Query /\ d.where = c.where /\ d.prewhere = c.prewhere
           /\ d.settings = c.settings /\ d.alias = c.alias
           /\ d.low = LowMark(c.low, c.high, from, to) /\ d.high = HighMark(c.low, c.high, to)
<1> DEFINE l == LowMark(c.low, c.high, from, to)
           k == HighMark(c.low, c.high, to)
<1>1. l \in Int /\ k \in Int
  BY MarksInt DEF Query
<1>2. Limited(c, from, to) = [c EXCEPT !.low = l, !.high = k]
  BY DEF Limited, LowMark, HighMark
<1> HIDE DEF l, k
<1>3. LET d == [c EXCEPT !.low = l, !.high = k] IN
           /\ d \in Query /\ d.where = c.where /\ d.prewhere = c.prewhere
           /\ d.settings = c.settings /\ d.alias = c.alias
           /\ d.low = l /\ d.high = k
  BY <1>1 DEF Query
<1> QED
  BY <1>2, <1>3 DEF l, k

\* The same of what was asked.
LEMMA LimitedAsked ==
    ASSUME NEW c \in Asked, NEW from \in Int, NEW to \in Int
    PROVE  LET d == Limited(c, from, to) IN
           /\ d \in Asked /\ d.conditions = c.conditions /\ d.prewhere = c.prewhere
           /\ d.refused = c.refused /\ d.within = c.within /\ d.settings = c.settings
           /\ d.low = LowMark(c.low, c.high, from, to) /\ d.high = HighMark(c.low, c.high, to)
<1> DEFINE l == LowMark(c.low, c.high, from, to)
           k == HighMark(c.low, c.high, to)
<1>1. l \in Int /\ k \in Int
  BY MarksInt DEF Asked
<1>2. Limited(c, from, to) = [c EXCEPT !.low = l, !.high = k]
  BY DEF Limited, LowMark, HighMark
<1> HIDE DEF l, k
<1>3. LET d == [c EXCEPT !.low = l, !.high = k] IN
           /\ d \in Asked /\ d.conditions = c.conditions /\ d.prewhere = c.prewhere
           /\ d.refused = c.refused /\ d.within = c.within /\ d.settings = c.settings
           /\ d.low = l /\ d.high = k
  BY <1>1 DEF Asked
<1> QED
  BY <1>2, <1>3 DEF l, k

-----------------------------------------------------------------------------
(* What was asked stays what the queries are.                               *)

\* Heaps that grow, one after the other.
LEMMA ExtendsTwice ==
    ASSUME NEW h, NEW g, NEW f, Extends(h, g), Extends(g, f)
    PROVE  Extends(h, f)
BY DEF Extends, Grows

\* What a query says remains while more is asked.
LEMMA MeantGrows ==
    ASSUME NEW a, NEW b, NEW w, NEW p, NEW alias, NEW ask,
           Meant(a, w, p, alias, ask), Grows(a, b)
    PROVE  Meant(b, w, p, alias, ask)
<1>1. \A x \in w : IsSubquery(x) =>
        /\ x.query \in DOMAIN b /\ b[x.query].within = {}
        /\ \E in \in ask.within : b[in] = b[x.query]
  BY DEF Meant, Grows
<1>2. \A in \in ask.within : in \in DOMAIN b /\ \E x \in w : IsSubquery(x) /\ b[x.query] = b[in]
  BY DEF Meant, Grows
<1> QED
  BY <1>1, <1>2 DEF Meant

\* A query there was is still what was asked.
LEMMA OldConforms ==
    ASSUME NEW h, NEW a, NEW f, NEW b, Faithful(h, a), Extends(h, f), Grows(a, b),
           NEW q \in DOMAIN h.queries
    PROVE  Conforms(f, b, q)
<1> DEFINE c == h.queries[q]
<1>1. /\ Meant(a, h.nodes[c.where], h.nodes[c.prewhere], c.alias, a[q])
      /\ h.dicts[c.settings] = a[q].settings
      /\ c.low = a[q].low /\ c.high = a[q].high
  BY DEF Faithful, Conforms
<1>2. c.where \in DOMAIN h.nodes /\ c.prewhere \in DOMAIN h.nodes /\ c.settings \in DOMAIN h.dicts
  BY DEF Faithful, Placed
<1>3. f.queries[q] = c
  BY DEF Extends, Grows
<1>4. q \in DOMAIN a
  <2>1. h.queries \in Seq(Query) /\ a \in Seq(Asked) /\ Len(a) = Len(h.queries)
    BY DEF Faithful, Heap
  <2>2. DOMAIN h.queries = 1..Len(h.queries)
    BY <2>1, SeqDomain
  <2>3. DOMAIN a = 1..Len(a)
    BY <2>1, SeqDomain
  <2> QED
    BY <2>1, <2>2, <2>3
<1> HIDE DEF c
<1>5. /\ f.nodes[c.where] = h.nodes[c.where] /\ f.nodes[c.prewhere] = h.nodes[c.prewhere]
      /\ f.dicts[c.settings] = h.dicts[c.settings]
  BY <1>2 DEF Extends, Grows
<1>6. b[q] = a[q]
  BY <1>4 DEF Grows
<1>7. Meant(b, h.nodes[c.where], h.nodes[c.prewhere], c.alias, a[q])
  BY <1>1, MeantGrows
<1> QED
  BY <1>1, <1>3, <1>5, <1>6, <1>7 DEF Conforms

\* A query just made is, if its nodes say what was asked.
LEMMA NewConforms ==
    ASSUME NEW h, NEW g, NEW f, NEW b, NEW w, NEW p, NEW s, NEW low, NEW high, NEW alias,
           Added(h, g, w, p, s, low, high, alias), Extends(g, f), NEW n, n = Len(h.queries) + 1,
           n \in DOMAIN g.queries, NEW ask, b[n] = ask,
           Meant(b, w, p, alias, ask), s = ask.settings, low = ask.low, high = ask.high
    PROVE  Conforms(f, b, n)
<1> DEFINE c == g.queries[n]
<1>1. /\ c.where \in DOMAIN g.nodes /\ c.prewhere \in DOMAIN g.nodes /\ c.settings \in DOMAIN g.dicts
      /\ g.nodes[c.where] = w /\ g.nodes[c.prewhere] = p /\ g.dicts[c.settings] = s
      /\ c.low = low /\ c.high = high /\ c.alias = alias
  BY DEF Added
<1>2. f.queries[n] = c
  BY DEF Extends, Grows
<1> HIDE DEF c
<1>3. f.nodes[c.where] = w /\ f.nodes[c.prewhere] = p /\ f.dicts[c.settings] = s
  BY <1>1 DEF Extends, Grows
<1> QED
  BY <1>1, <1>2, <1>3 DEF Conforms

\* The references of a heap with a query more.
LEMMA AddedPlaced ==
    ASSUME NEW h \in Heap, NEW g, NEW w, NEW p, NEW s, NEW low, NEW high, NEW alias,
           Placed(h), Added(h, g, w, p, s, low, high, alias)
    PROVE  /\ g \in Heap /\ Placed(g) /\ Extends(h, g)
           /\ Len(g.queries) = Len(h.queries) + 1
           /\ DOMAIN g.queries = DOMAIN h.queries \cup {Len(h.queries) + 1}
<1> DEFINE n == Len(h.queries) + 1
           c == g.queries[n]
<1>1. /\ g \in Heap /\ Extends(h, g) /\ Len(g.queries) = n
      /\ c.where \in DOMAIN g.nodes /\ c.prewhere \in DOMAIN g.nodes /\ c.settings \in DOMAIN g.dicts
  BY DEF Added
<1>2. g.queries \in Seq(Query) /\ h.queries \in Seq(Query)
  BY <1>1 DEF Heap
<1>3. DOMAIN g.queries = 1..n
  BY <1>1, <1>2, SeqDomain
<1>4. DOMAIN h.queries = 1..(n - 1) /\ n \in Nat /\ n # 0
  <2>1. DOMAIN h.queries = 1..Len(h.queries) /\ Len(h.queries) \in Nat
    BY <1>2, SeqDomain
  <2> QED
    BY <2>1
<1>5. DOMAIN g.queries = DOMAIN h.queries \cup {n}
  BY <1>3, <1>4
<1> HIDE DEF n
<1>6. ASSUME NEW q \in DOMAIN h.queries
      PROVE  /\ g.queries[q].where \in DOMAIN g.nodes
             /\ g.queries[q].prewhere \in DOMAIN g.nodes
             /\ g.queries[q].settings \in DOMAIN g.dicts
  BY <1>1, <1>6 DEF Extends, Grows, Placed
<1>7. Placed(g)
  BY <1>1, <1>5, <1>6 DEF Placed
<1> QED
  BY <1>1, <1>5, <1>7 DEF n

\* Faithful with a query more.
LEMMA AskedOne ==
    ASSUME NEW h, NEW a, NEW g, NEW w, NEW p, NEW s, NEW low, NEW high, NEW alias,
           Faithful(h, a), Added(h, g, w, p, s, low, high, alias), NEW ask \in Asked,
           Meant(a, w, p, alias, ask), s = ask.settings, low = ask.low, high = ask.high
    PROVE  Faithful(g, Append(a, ask))
<1> DEFINE b == Append(a, ask)
           n == Len(h.queries) + 1
<1>1. h \in Heap /\ Placed(h) /\ a \in Seq(Asked) /\ Len(a) = Len(h.queries)
  BY DEF Faithful
<1>2. b \in Seq(Asked) /\ Len(b) = Len(a) + 1 /\ Grows(a, b) /\ b[Len(a) + 1] = ask
  BY <1>1, OneMore
<1> HIDE DEF b
<1>3. /\ g \in Heap /\ Placed(g) /\ Extends(h, g) /\ Len(g.queries) = n
      /\ DOMAIN g.queries = DOMAIN h.queries \cup {n}
  BY <1>1, AddedPlaced
<1>4. \A q \in DOMAIN h.queries : Conforms(g, b, q)
  BY <1>2, <1>3, OldConforms
<1>5. Conforms(g, b, n)
  <2>1. b[n] = ask
    BY <1>1, <1>2
  <2>2. Extends(g, g)
    BY DEF Extends, Grows
  <2>3. Meant(b, w, p, alias, ask)
    BY <1>2, MeantGrows
  <2> HIDE DEF n
  <2>4. n \in DOMAIN g.queries /\ n = Len(h.queries) + 1
    BY <1>3 DEF n
  <2> QED
    BY <2>1, <2>2, <2>3, <2>4, NewConforms
<1>6. Len(b) = Len(g.queries)
  BY <1>1, <1>2, <1>3
<1> HIDE DEF n
<1>7. Faithful(g, b)
  BY <1>2, <1>3, <1>4, <1>5, <1>6 DEF Faithful
<1> QED
  BY <1>7 DEF b

\* Faithful with two, of which the first may refer to the second.
LEMMA AskedTwo ==
    ASSUME NEW h, NEW a, NEW g, NEW f, NEW w, NEW p, NEW s, NEW low, NEW high, NEW alias,
           NEW w2, NEW p2, NEW s2, NEW low2, NEW high2, NEW alias2,
           Faithful(h, a), Added(h, g, w, p, s, low, high, alias),
           Added(g, f, w2, p2, s2, low2, high2, alias2),
           NEW ask \in Asked, NEW ask2 \in Asked, NEW b, b = a \o <<ask, ask2>>,
           Meant(b, w, p, alias, ask), s = ask.settings, low = ask.low, high = ask.high,
           Meant(b, w2, p2, alias2, ask2), s2 = ask2.settings, low2 = ask2.low, high2 = ask2.high
    PROVE  Faithful(f, b)
<1> DEFINE n == Len(h.queries) + 1
           m == Len(g.queries) + 1
<1>1. h \in Heap /\ Placed(h) /\ a \in Seq(Asked) /\ Len(a) = Len(h.queries)
  BY DEF Faithful
<1>2. /\ b \in Seq(Asked) /\ Len(b) = Len(a) + 2 /\ Grows(a, b)
      /\ b[Len(a) + 1] = ask /\ b[Len(a) + 2] = ask2
  BY <1>1, TwoMore
<1>3. /\ g \in Heap /\ Placed(g) /\ Extends(h, g) /\ Len(g.queries) = n
      /\ DOMAIN g.queries = DOMAIN h.queries \cup {n}
  BY <1>1, AddedPlaced
<1>4. /\ f \in Heap /\ Placed(f) /\ Extends(g, f) /\ Len(f.queries) = m
      /\ DOMAIN f.queries = DOMAIN g.queries \cup {m}
  BY <1>3, AddedPlaced
<1>5. Len(h.queries) \in Nat
  BY <1>1, SeqDomain DEF Heap
<1>6. m = Len(a) + 2 /\ n = Len(a) + 1
  BY <1>1, <1>3, <1>5
<1>7. \A q \in DOMAIN h.queries : Conforms(f, b, q)
  BY <1>2, <1>3, <1>4, ExtendsTwice, OldConforms
<1>8. b[n] = ask /\ b[m] = ask2
  BY <1>2, <1>6
<1>9. Extends(f, f)
  BY DEF Extends, Grows
<1>10. n = Len(h.queries) + 1 /\ m = Len(g.queries) + 1
  OBVIOUS
<1> HIDE DEF n, m
<1>11. Conforms(f, b, n)
  <2>1. n \in DOMAIN g.queries /\ Extends(g, f)
    BY <1>3, <1>4
  <2> QED
    BY <2>1, <1>8, <1>10, NewConforms
<1>12. Conforms(f, b, m)
  <2>1. m \in DOMAIN f.queries
    BY <1>4
  <2> QED
    BY <2>1, <1>8, <1>9, <1>10, NewConforms
<1>13. Len(b) = Len(f.queries)
  BY <1>2, <1>4, <1>6
<1> QED
  BY <1>2, <1>3, <1>4, <1>7, <1>11, <1>12, <1>13 DEF Faithful

-----------------------------------------------------------------------------
(* What each call adds to what a query says.                                *)

\* filter(): a condition more.
LEMMA MeantFilter ==
    ASSUME NEW a, NEW w, NEW p, NEW ask \in Asked, Meant(a, w, p, "T", ask), NEW c \in Conditions
    PROVE  LET more == [ask EXCEPT !.conditions = @ \cup {c}] IN
           /\ more \in Asked /\ Meant(a, w \cup {Under("T", c)}, p, "T", more)
           /\ more.settings = ask.settings /\ more.low = ask.low /\ more.high = ask.high
<1> DEFINE more == [ask EXCEPT !.conditions = @ \cup {c}]
           x == Under("T", c)
           v == w \cup {x}
<1>1. /\ more \in Asked /\ more.conditions = ask.conditions \cup {c} /\ more.prewhere = ask.prewhere
      /\ more.refused = ask.refused /\ more.within = ask.within
      /\ more.settings = ask.settings /\ more.low = ask.low /\ more.high = ask.high
  BY DEF Asked
<1>2. x.alias = "T" /\ ~IsSubquery(x) /\ x.condition = c
  BY DEF Under, IsSubquery
<1> HIDE DEF more, x
<1>3. \A y \in v \cup p : y.alias = "T"
  BY <1>2 DEF Meant
<1>4. \A y \in v \cup p : ~IsSubquery(y) => y.condition \in more.conditions
  BY <1>1, <1>2 DEF Meant
<1>5. \A d \in more.conditions : \E y \in v \cup p : ~IsSubquery(y) /\ y.condition = d
  BY <1>1, <1>2 DEF Meant
<1>6. \A y \in v : IsSubquery(y) => /\ y.query \in DOMAIN a /\ a[y.query].within = {}
                                    /\ \E in \in more.within : a[in] = a[y.query]
  BY <1>1, <1>2 DEF Meant
<1>7. \A in \in more.within : in \in DOMAIN a /\ \E y \in v : IsSubquery(y) /\ a[y.query] = a[in]
  BY <1>1 DEF Meant
<1>8. /\ \A y \in p : ~IsSubquery(y)
      /\ more.refused <=> \E y \in p : y.condition.aggregate
      /\ ~more.prewhere => p = {}
  BY <1>1 DEF Meant
<1> HIDE DEF v
<1>9. Meant(a, v, p, "T", more)
  BY <1>3, <1>4, <1>5, <1>6, <1>7, <1>8 DEF Meant
<1> QED
  BY <1>1, <1>9 DEF more, v, x

\* prewhere(): a condition more, which is refused if it is an aggregate.
AskedBefore(ask, c) ==
    [ask EXCEPT !.conditions = @ \cup {c}, !.prewhere = TRUE, !.refused = @ \/ c.aggregate]
LEMMA MeantPrewhere ==
    ASSUME NEW a, NEW w, NEW p, NEW ask \in Asked, Meant(a, w, p, "T", ask), NEW c \in Conditions
    PROVE  LET more == AskedBefore(ask, c) IN
           /\ more \in Asked /\ Meant(a, w, p \cup {Under("T", c)}, "T", more)
           /\ more.settings = ask.settings /\ more.low = ask.low /\ more.high = ask.high
<1> DEFINE more == AskedBefore(ask, c)
           x == Under("T", c)
           v == p \cup {x}
<1>1. /\ more \in Asked /\ more.conditions = ask.conditions \cup {c} /\ more.prewhere
      /\ more.within = ask.within
      /\ more.settings = ask.settings /\ more.low = ask.low /\ more.high = ask.high
  <2>1. c.aggregate \in BOOLEAN
    BY QueriesAssumption
  <2> DEFINE r == ask.refused \/ c.aggregate
             d == ask.conditions \cup {c}
  <2>2. r \in BOOLEAN /\ d \in SUBSET Conditions
    BY <2>1 DEF Asked
  <2> HIDE DEF r, d
  <2>3. more = [ask EXCEPT !.conditions = d, !.prewhere = TRUE, !.refused = r]
    BY DEF r, d, AskedBefore
  <2> HIDE DEF more
  <2>4. /\ more \in Asked /\ more.conditions = d /\ more.prewhere
        /\ more.within = ask.within
        /\ more.settings = ask.settings /\ more.low = ask.low /\ more.high = ask.high
    BY <2>2, <2>3 DEF Asked
  <2> QED
    BY <2>4 DEF d
<1>2. x.alias = "T" /\ ~IsSubquery(x) /\ x.condition = c
  BY DEF Under, IsSubquery
<1>3. more.refused <=> ask.refused \/ c.aggregate
  BY DEF Asked, AskedBefore
<1> HIDE DEF more, x
<1>4. \A y \in w \cup v : y.alias = "T"
  BY <1>2 DEF Meant
<1>5. \A y \in w \cup v : ~IsSubquery(y) => y.condition \in more.conditions
  BY <1>1, <1>2 DEF Meant
<1>6. \A d \in more.conditions : \E y \in w \cup v : ~IsSubquery(y) /\ y.condition = d
  BY <1>1, <1>2 DEF Meant
<1>7. \A y \in w : IsSubquery(y) => /\ y.query \in DOMAIN a /\ a[y.query].within = {}
                                    /\ \E in \in more.within : a[in] = a[y.query]
  BY <1>1 DEF Meant
<1>8. \A in \in more.within : in \in DOMAIN a /\ \E y \in w : IsSubquery(y) /\ a[y.query] = a[in]
  BY <1>1 DEF Meant
<1>9. \A y \in v : ~IsSubquery(y)
  BY <1>2 DEF Meant
<1>10. more.refused <=> \E y \in v : y.condition.aggregate
  BY <1>2, <1>3 DEF Meant
<1> HIDE DEF v
<1>11. Meant(a, w, v, "T", more)
  BY <1>1, <1>4, <1>5, <1>6, <1>7, <1>8, <1>9, <1>10 DEF Meant
<1> QED
  BY <1>1, <1>11 DEF more, v, x

\* Settings and slices add no condition.
LEMMA MeantSame ==
    ASSUME NEW a, NEW w, NEW p, NEW alias, NEW ask, Meant(a, w, p, alias, ask), NEW other,
           other.conditions = ask.conditions, other.prewhere = ask.prewhere,
           other.refused = ask.refused, other.within = ask.within
    PROVE  Meant(a, w, p, alias, other)
BY DEF Meant

\* As a subquery a query says the same, under other aliases.
LEMMA MeantRecast ==
    ASSUME NEW a, NEW w \in SUBSET Atom, NEW p \in SUBSET Atom, NEW alias, NEW ask,
           Meant(a, w, p, alias, ask), NEW other \in Alias
    PROVE  Meant(a, Recast(w, other), Recast(p, other), other, ask)
<1> DEFINE v == Recast(w, other)
           u == Recast(p, other)
           R(x) == RecastOne(x, other)
<1>1. \A x \in Atom : /\ R(x).alias = other /\ (IsSubquery(R(x)) <=> IsSubquery(x))
                      /\ IsSubquery(x) => R(x).query = x.query
                      /\ ~IsSubquery(x) => R(x).condition = x.condition
  BY RecastAtom
<1>2. /\ \A y \in v : \E x \in w : y = R(x)
      /\ \A x \in w : R(x) \in v
      /\ \A y \in u : \E x \in p : y = R(x)
      /\ \A x \in p : R(x) \in u
      /\ p = {} => u = {}
  BY DEF Recast
<1> HIDE DEF v, u, R
<1>3. \A y \in v \cup u : y.alias = other
  BY <1>1, <1>2
<1>4. \A y \in v \cup u : ~IsSubquery(y) => y.condition \in ask.conditions
  BY <1>1, <1>2 DEF Meant
<1>5. \A d \in ask.conditions : \E y \in v \cup u : ~IsSubquery(y) /\ y.condition = d
  <2> SUFFICES ASSUME NEW d \in ask.conditions
               PROVE  \E y \in v \cup u : ~IsSubquery(y) /\ y.condition = d
    OBVIOUS
  <2>1. PICK x \in w \cup p : ~IsSubquery(x) /\ x.condition = d
    BY DEF Meant
  <2>2. R(x) \in v \cup u
    BY <1>2
  <2> QED
    BY <1>1, <2>1, <2>2
<1>6. \A y \in v : IsSubquery(y) => /\ y.query \in DOMAIN a /\ a[y.query].within = {}
                                    /\ \E in \in ask.within : a[in] = a[y.query]
  <2> SUFFICES ASSUME NEW y \in v, IsSubquery(y)
               PROVE  /\ y.query \in DOMAIN a /\ a[y.query].within = {}
                      /\ \E in \in ask.within : a[in] = a[y.query]
    OBVIOUS
  <2>1. PICK x \in w : y = R(x)
    BY <1>2
  <2>2. IsSubquery(x) /\ y.query = x.query
    BY <1>1, <2>1
  <2> QED
    BY <2>2 DEF Meant
<1>7. \A in \in ask.within : in \in DOMAIN a /\ \E y \in v : IsSubquery(y) /\ a[y.query] = a[in]
  <2> SUFFICES ASSUME NEW in \in ask.within
               PROVE  in \in DOMAIN a /\ \E y \in v : IsSubquery(y) /\ a[y.query] = a[in]
    OBVIOUS
  <2>1. in \in DOMAIN a
    BY DEF Meant
  <2>2. PICK x \in w : IsSubquery(x) /\ a[x.query] = a[in]
    BY DEF Meant
  <2>3. R(x) \in v /\ IsSubquery(R(x)) /\ R(x).query = x.query
    BY <1>1, <1>2, <2>2
  <2> QED
    BY <2>1, <2>2, <2>3
<1>8. \A y \in u : ~IsSubquery(y)
  BY <1>1, <1>2 DEF Meant
<1>9. ask.refused <=> \E y \in u : y.condition.aggregate
  <2>1. \A x \in p : R(x).condition = x.condition /\ R(x) \in u
    BY <1>1, <1>2 DEF Meant
  <2>2. \A y \in u : \E x \in p : y.condition = x.condition
    BY <1>1, <1>2 DEF Meant
  <2>3. (\E y \in u : y.condition.aggregate) <=> \E x \in p : x.condition.aggregate
    BY <2>1, <2>2
  <2> QED
    BY <2>3 DEF Meant
<1>10. ~ask.prewhere => u = {}
  BY <1>2 DEF Meant
<1>11. Meant(a, v, u, other, ask)
  BY <1>3, <1>4, <1>5, <1>6, <1>7, <1>8, <1>9, <1>10 DEF Meant
<1> QED
  BY <1>11 DEF v, u

\* filter(id__in=...): a subquery more, which refers to the second query asked for.
LEMMA MeantIn ==
    ASSUME NEW a, NEW w, NEW p, NEW ask \in Asked, Meant(a, w, p, "T", ask),
           NEW in \in DOMAIN a, a[in].within = {}, in \in Nat, NEW b, Grows(a, b),
           NEW m \in DOMAIN b, b[m] = a[in]
    PROVE  LET more == [ask EXCEPT !.within = @ \cup {in}] IN
           /\ more \in Asked /\ Meant(b, w \cup {InQuery("T", m)}, p, "T", more)
           /\ more.settings = ask.settings /\ more.low = ask.low /\ more.high = ask.high
<1> DEFINE more == [ask EXCEPT !.within = @ \cup {in}]
           x == InQuery("T", m)
           v == w \cup {x}
<1>1. /\ more \in Asked /\ more.conditions = ask.conditions /\ more.prewhere = ask.prewhere
      /\ more.refused = ask.refused /\ more.within = ask.within \cup {in}
      /\ more.settings = ask.settings /\ more.low = ask.low /\ more.high = ask.high
  BY DEF Asked
<1>2. x.alias = "T" /\ IsSubquery(x) /\ x.query = m
  BY DEF InQuery, IsSubquery
<1>3. Meant(b, w, p, "T", ask)
  BY MeantGrows
<1>4. in \in DOMAIN b /\ b[in] = a[in]
  BY DEF Grows
<1> HIDE DEF more, x
<1>5. \A y \in v \cup p : y.alias = "T"
  BY <1>2, <1>3 DEF Meant
<1>6. \A y \in v \cup p : ~IsSubquery(y) => y.condition \in more.conditions
  BY <1>1, <1>2, <1>3 DEF Meant
<1>7. \A d \in more.conditions : \E y \in v \cup p : ~IsSubquery(y) /\ y.condition = d
  BY <1>1, <1>3 DEF Meant
<1>8. \A y \in v : IsSubquery(y) => /\ y.query \in DOMAIN b /\ b[y.query].within = {}
                                    /\ \E i \in more.within : b[i] = b[y.query]
  <2>1. \A y \in w : IsSubquery(y) => /\ y.query \in DOMAIN b /\ b[y.query].within = {}
                                      /\ \E i \in more.within : b[i] = b[y.query]
    BY <1>1, <1>3 DEF Meant
  <2>2. /\ x.query \in DOMAIN b /\ b[x.query].within = {}
        /\ \E i \in more.within : b[i] = b[x.query]
    BY <1>1, <1>2, <1>4
  <2> QED
    BY <2>1, <2>2
<1>9. \A i \in more.within : i \in DOMAIN b /\ \E y \in v : IsSubquery(y) /\ b[y.query] = b[i]
  <2>1. \A i \in ask.within : i \in DOMAIN b /\ \E y \in v : IsSubquery(y) /\ b[y.query] = b[i]
    BY <1>3 DEF Meant
  <2>2. in \in DOMAIN b /\ \E y \in v : IsSubquery(y) /\ b[y.query] = b[in]
    BY <1>2, <1>4
  <2> QED
    BY <1>1, <2>1, <2>2
<1>10. /\ \A y \in p : ~IsSubquery(y)
       /\ more.refused <=> \E y \in p : y.condition.aggregate
       /\ ~more.prewhere => p = {}
  BY <1>1, <1>3 DEF Meant
<1> HIDE DEF v
<1>11. Meant(b, v, p, "T", more)
  BY <1>5, <1>6, <1>7, <1>8, <1>9, <1>10 DEF Meant
<1> QED
  BY <1>1, <1>11 DEF more, v, x

-----------------------------------------------------------------------------
(* The calls.                                                               *)

\* The contents of a query.
LEMMA QueryParts ==
    ASSUME NEW h, NEW a, Faithful(h, a), NEW q \in DOMAIN h.queries
    PROVE  LET c == h.queries[q] IN
           /\ c \in Query /\ c.where \in DOMAIN h.nodes /\ c.prewhere \in DOMAIN h.nodes
           /\ h.nodes[c.where] \in SUBSET Atom /\ h.nodes[c.prewhere] \in SUBSET Atom
           /\ h.dicts[c.settings] \in Int /\ q \in Nat /\ q \in DOMAIN a /\ a[q] \in Asked
           /\ Meant(a, h.nodes[c.where], h.nodes[c.prewhere], c.alias, a[q])
           /\ h.dicts[c.settings] = a[q].settings /\ c.low = a[q].low /\ c.high = a[q].high
<1> DEFINE c == h.queries[q]
<1>1. /\ h.nodes \in Seq(SUBSET Atom) /\ h.dicts \in Seq(Int) /\ h.queries \in Seq(Query)
      /\ a \in Seq(Asked) /\ Len(a) = Len(h.queries)
  BY DEF Faithful, Heap
<1>2. c.where \in DOMAIN h.nodes /\ c.prewhere \in DOMAIN h.nodes /\ c.settings \in DOMAIN h.dicts
  BY DEF Faithful, Placed
<1>3. c \in Query
  BY <1>1
<1>4. q \in DOMAIN a /\ q \in Nat
  <2>1. DOMAIN h.queries = 1..Len(h.queries)
    BY <1>1, SeqDomain
  <2>2. DOMAIN a = 1..Len(a)
    BY <1>1, SeqDomain
  <2>3. Len(a) \in Nat
    BY <1>1, SeqDomain
  <2> QED
    BY <1>1, <2>1, <2>2, <2>3
<1>5. a[q] \in Asked
  BY <1>1, <1>4
<1>6. Conforms(h, a, q)
  BY DEF Faithful
<1> HIDE DEF c
<1>7. /\ h.nodes[c.where] \in SUBSET Atom /\ h.nodes[c.prewhere] \in SUBSET Atom
      /\ h.dicts[c.settings] \in Int
  BY <1>1, <1>2
<1> QED
  BY <1>2, <1>3, <1>4, <1>5, <1>6, <1>7 DEF Conforms, c

\* The query a heap has more.
LEMMA AddedLast ==
    ASSUME NEW h \in Heap, NEW g, NEW w, NEW p, NEW s, NEW low, NEW high, NEW alias,
           Added(h, g, w, p, s, low, high, alias)
    PROVE  /\ LastOf(g) = g.queries[Len(h.queries) + 1] /\ LastOf(g) \in Query
           /\ LastOf(g).where \in DOMAIN g.nodes \ DOMAIN h.nodes
           /\ g.nodes[LastOf(g).where] = w /\ g.nodes[LastOf(g).prewhere] = p
           /\ LastOf(g).low = low /\ LastOf(g).high = high /\ LastOf(g).alias = alias
           /\ Len(g.queries) \in DOMAIN g.queries
<1> DEFINE n == Len(h.queries) + 1
<1>1. g \in Heap /\ Len(g.queries) = n
  BY DEF Added
<1>2. LastOf(g) = g.queries[n]
  BY <1>1 DEF LastOf
<1>3. h.queries \in Seq(Query) /\ g.queries \in Seq(Query)
  BY <1>1 DEF Heap
<1>4. n \in 1..n
  BY <1>3
<1>5. DOMAIN g.queries = 1..n
  BY <1>1, <1>3, SeqDomain
<1>6. g.queries[n] \in Query
  BY <1>3, <1>4, <1>5
<1> QED
  BY <1>1, <1>2, <1>4, <1>5, <1>6 DEF Added

\* The clone of a query set.
LEMMA QuerySetClone ==
    ASSUME NEW h, NEW a, Faithful(h, a), NEW q \in DOMAIN h.queries
    PROVE  LET c == h.queries[q] IN
           /\ h \in Heap /\ Placed(h)
           /\ Added(h, Clone(h, q), h.nodes[c.where], h.nodes[c.prewhere], a[q].settings,
                    a[q].low, a[q].high, c.alias)
<1> DEFINE c == h.queries[q]
<1>1. h \in Heap /\ Placed(h)
  BY DEF Faithful
<1>2. h.dicts[c.settings] = a[q].settings /\ c.low = a[q].low /\ c.high = a[q].high
  BY QueryParts
<1>3. Added(h, Clone(h, q), h.nodes[c.where], h.nodes[c.prewhere], h.dicts[c.settings],
            c.low, c.high, c.alias)
  BY <1>1, CloneAdds
<1> QED
  BY <1>1, <1>2, <1>3

\* filter().
LEMMA FilterKeeps ==
    ASSUME Faithful(heap, asked), NEW q \in DOMAIN heap.queries, NEW c \in Conditions, Filter(q, c)
    PROVE  Extends(heap, heap') /\ Faithful(heap', asked')
<1> DEFINE d == heap.queries[q]
           w == heap.nodes[d.where]
           p == heap.nodes[d.prewhere]
           ask == asked[q]
           more == [ask EXCEPT !.conditions = @ \cup {c}]
           h == Clone(heap, q)
           x == Under("T", c)
<1>1. /\ heap' = AddTo(h, LastOf(h).where, x) /\ asked' = Append(asked, more)
      /\ d.alias = "T"
  BY DEF Filter, Ask, QuerySet
<1>2. heap \in Heap /\ Placed(heap) /\ Added(heap, h, w, p, ask.settings, ask.low, ask.high, "T")
  BY <1>1, QuerySetClone
<1>3. w \in SUBSET Atom /\ ask \in Asked /\ Meant(asked, w, p, "T", ask)
  BY <1>1, QueryParts
<1>4. x \in Atom
  BY DEF Atom, Alias, Under
<1> HIDE DEF h, x, w, p, d, ask
<1>5. h.nodes[LastOf(h).where] = w
  BY <1>2, AddedLast
<1>6. heap' = Put(h, LastOf(h).where, w \cup {x})
  BY <1>1, <1>5 DEF AddTo, Put
<1>7. Added(heap, heap', w \cup {x}, p, ask.settings, ask.low, ask.high, "T")
  BY <1>2, <1>3, <1>4, <1>6, PutWhere
<1>8. /\ more \in Asked /\ Meant(asked, w \cup {x}, p, "T", more)
      /\ more.settings = ask.settings /\ more.low = ask.low /\ more.high = ask.high
  BY <1>3, MeantFilter DEF x
<1> HIDE DEF more
<1>9. Faithful(heap', asked')
  BY <1>1, <1>7, <1>8, AskedOne
<1> QED
  BY <1>7, <1>9 DEF Added

\* prewhere().
LEMMA PrewhereKeeps ==
    ASSUME Faithful(heap, asked), NEW q \in DOMAIN heap.queries, NEW c \in Conditions, Prewhere(q, c)
    PROVE  Extends(heap, heap') /\ Faithful(heap', asked')
<1> DEFINE d == heap.queries[q]
           w == heap.nodes[d.where]
           p == heap.nodes[d.prewhere]
           ask == asked[q]
           more == AskedBefore(ask, c)
           h == Clone(heap, q)
           x == Under("T", c)
<1>1. /\ heap' = AddTo(h, LastOf(h).prewhere, x) /\ asked' = Append(asked, more)
      /\ d.alias = "T"
  BY DEF Prewhere, Ask, QuerySet, AskedBefore
<1>2. heap \in Heap /\ Placed(heap) /\ Added(heap, h, w, p, ask.settings, ask.low, ask.high, "T")
  BY <1>1, QuerySetClone
<1>3. p \in SUBSET Atom /\ ask \in Asked /\ Meant(asked, w, p, "T", ask)
  BY <1>1, QueryParts
<1>4. x \in Atom
  BY DEF Atom, Alias, Under
<1> HIDE DEF h, x, w, p, d, ask
<1>5. h.nodes[LastOf(h).prewhere] = p
  BY <1>2, AddedLast
<1>6. heap' = Put(h, LastOf(h).prewhere, p \cup {x})
  BY <1>1, <1>5 DEF AddTo, Put
<1>7. Added(heap, heap', w, p \cup {x}, ask.settings, ask.low, ask.high, "T")
  BY <1>2, <1>3, <1>4, <1>6, PutPrewhere
<1>8. /\ more \in Asked /\ Meant(asked, w, p \cup {x}, "T", more)
      /\ more.settings = ask.settings /\ more.low = ask.low /\ more.high = ask.high
  BY <1>3, MeantPrewhere DEF x
<1> HIDE DEF more
<1>9. Faithful(heap', asked')
  BY <1>1, <1>7, <1>8, AskedOne
<1> QED
  BY <1>7, <1>9 DEF Added

\* settings().
LEMMA WithSettingsKeeps ==
    ASSUME Faithful(heap, asked), NEW q \in DOMAIN heap.queries, NEW s \in Int, WithSettings(q, s)
    PROVE  Extends(heap, heap') /\ Faithful(heap', asked')
<1> DEFINE d == heap.queries[q]
           w == heap.nodes[d.where]
           p == heap.nodes[d.prewhere]
           ask == asked[q]
           more == [ask EXCEPT !.settings = s]
           h == Clone(heap, q)
<1>1. /\ heap' = PutDict(h, LastOf(h).settings, s) /\ asked' = Append(asked, more)
      /\ d.alias = "T"
  BY DEF WithSettings, Ask, QuerySet, PutDict
<1>2. heap \in Heap /\ Placed(heap) /\ Added(heap, h, w, p, ask.settings, ask.low, ask.high, "T")
  BY <1>1, QuerySetClone
<1>3. ask \in Asked /\ Meant(asked, w, p, "T", ask)
  BY <1>1, QueryParts
<1> HIDE DEF h, w, p, d, ask
<1>4. Added(heap, heap', w, p, s, ask.low, ask.high, "T")
  BY <1>1, <1>2, PutSettings
<1>5. /\ more \in Asked /\ more.conditions = ask.conditions /\ more.prewhere = ask.prewhere
      /\ more.refused = ask.refused /\ more.within = ask.within
      /\ more.settings = s /\ more.low = ask.low /\ more.high = ask.high
  BY <1>3 DEF Asked
<1> HIDE DEF more
<1>6. Meant(asked, w, p, "T", more)
  BY <1>3, <1>5, MeantSame
<1>7. Faithful(heap', asked')
  BY <1>1, <1>4, <1>5, <1>6, AskedOne
<1> QED
  BY <1>4, <1>7 DEF Added

\* A slice.
LEMMA TakeSliceKeeps ==
    ASSUME Faithful(heap, asked), NEW q \in DOMAIN heap.queries, NEW from \in Int, NEW to \in Int,
           TakeSlice(q, from, to)
    PROVE  Extends(heap, heap') /\ Faithful(heap', asked')
<1> DEFINE d == heap.queries[q]
           w == heap.nodes[d.where]
           p == heap.nodes[d.prewhere]
           ask == asked[q]
           more == Limited(ask, from, to)
           h == Clone(heap, q)
           v == Limited(LastOf(h), from, to)
<1>1. /\ heap' = [h EXCEPT !.queries[Len(h.queries)] = Limited(@, from, to)]
      /\ asked' = Append(asked, more) /\ d.alias = "T"
  BY DEF TakeSlice, Ask, QuerySet
<1>2. heap \in Heap /\ Placed(heap) /\ Added(heap, h, w, p, ask.settings, ask.low, ask.high, "T")
  BY <1>1, QuerySetClone
<1>3. ask \in Asked /\ Meant(asked, w, p, "T", ask)
  BY <1>1, QueryParts
<1>4. heap' = PutLast(h, Len(h.queries), v)
  BY <1>1 DEF PutLast, LastOf
<1> HIDE DEF h, w, p, d, ask
<1>5. LastOf(h) \in Query /\ LastOf(h).low = ask.low /\ LastOf(h).high = ask.high /\ LastOf(h).alias = "T"
  BY <1>2, AddedLast
<1>6. /\ v \in Query /\ v.where = LastOf(h).where /\ v.prewhere = LastOf(h).prewhere
      /\ v.settings = LastOf(h).settings /\ v.alias = "T"
      /\ v.low = LowMark(ask.low, ask.high, from, to) /\ v.high = HighMark(ask.low, ask.high, to)
  BY <1>5, LimitedQuery
<1>7. /\ more \in Asked /\ more.conditions = ask.conditions /\ more.prewhere = ask.prewhere
      /\ more.refused = ask.refused /\ more.within = ask.within /\ more.settings = ask.settings
      /\ more.low = LowMark(ask.low, ask.high, from, to) /\ more.high = HighMark(ask.low, ask.high, to)
  BY <1>3, LimitedAsked
<1> HIDE DEF v, more
<1>8. Added(heap, heap', w, p, ask.settings, v.low, v.high, v.alias)
  BY <1>2, <1>4, <1>6, PutQuery
<1>9. Added(heap, heap', w, p, more.settings, more.low, more.high, "T")
  BY <1>6, <1>7, <1>8
<1>10. Meant(asked, w, p, "T", more)
  BY <1>3, <1>7, MeantSame
<1>11. Faithful(heap', asked')
  BY <1>1, <1>7, <1>9, <1>10, AskedOne
<1> QED
  BY <1>9, <1>11 DEF Added

\* A change of a node below leaves what was added as it is.
LEMMA PutBelow ==
    ASSUME NEW h \in Heap, NEW g, NEW w, NEW p, NEW s, NEW low, NEW high, NEW alias,
           Added(h, g, w, p, s, low, high, alias),
           NEW i \in DOMAIN h.nodes, NEW v \in SUBSET Atom
    PROVE  Added(Put(h, i, v), Put(g, i, v), w, p, s, low, high, alias)
<1> DEFINE n == Len(h.queries) + 1
           c == g.queries[n]
           e == Put(h, i, v)
           f == Put(g, i, v)
<1>1. /\ g \in Heap /\ Extends(h, g) /\ Len(g.queries) = n
      /\ c.where \in DOMAIN g.nodes \ DOMAIN h.nodes
      /\ c.prewhere \in DOMAIN g.nodes \ DOMAIN h.nodes
      /\ c.where # c.prewhere
      /\ c.settings \in DOMAIN g.dicts \ DOMAIN h.dicts
      /\ g.nodes[c.where] = w /\ g.nodes[c.prewhere] = p /\ g.dicts[c.settings] = s
      /\ c.low = low /\ c.high = high /\ c.alias = alias
  BY DEF Added
<1>2. i \in DOMAIN g.nodes
  BY <1>1 DEF Extends, Grows
<1> HIDE DEF c, n
<1>3. /\ e \in Heap /\ DOMAIN e.nodes = DOMAIN h.nodes
      /\ e.dicts = h.dicts /\ e.queries = h.queries /\ e.nodes[i] = v
      /\ \A j \in DOMAIN h.nodes : j # i => e.nodes[j] = h.nodes[j]
  BY PutParts
<1>4. /\ f \in Heap /\ DOMAIN f.nodes = DOMAIN g.nodes
      /\ f.dicts = g.dicts /\ f.queries = g.queries /\ f.nodes[i] = v
      /\ \A j \in DOMAIN g.nodes : j # i => f.nodes[j] = g.nodes[j]
  BY <1>1, <1>2, PutParts
<1> HIDE DEF e, f
<1>5. Extends(e, f)
  <2>1. Grows(e.nodes, f.nodes)
    BY <1>1, <1>3, <1>4 DEF Extends, Grows
  <2> QED
    BY <1>1, <1>3, <1>4, <2>1 DEF Extends
<1>6. f.nodes[c.where] = w /\ f.nodes[c.prewhere] = p /\ f.dicts[c.settings] = s
  BY <1>1, <1>4
<1>7. n = Len(e.queries) + 1 /\ f.queries[n] = c /\ Len(f.queries) = n
  BY <1>1, <1>3, <1>4 DEF n, c
<1>8. Added(e, f, w, p, s, low, high, alias)
  BY <1>1, <1>3, <1>4, <1>5, <1>6, <1>7 DEF Added
<1> QED
  BY <1>8 DEF e, f

\* filter(id__in=...), which makes two queries.
LEMMA FilterInKeeps ==
    ASSUME Faithful(heap, asked), NEW q \in DOMAIN heap.queries, NEW in \in DOMAIN heap.queries,
           FilterIn(q, in)
    PROVE  Extends(heap, heap') /\ Faithful(heap', asked')
<1> DEFINE d == heap.queries[q]
           w == heap.nodes[d.where]
           p == heap.nodes[d.prewhere]
           ask == asked[q]
           r == heap.queries[in]
           v == heap.nodes[r.where]
           u == heap.nodes[r.prewhere]
           ask2 == asked[in]
           more == [ask EXCEPT !.within = @ \cup {in}]
           h == Clone(heap, q)
           g0 == Clone(h, in)
           with == Resolve(h, in)
           m == Len(h.queries) + 1
           x == InQuery("T", Len(with.queries))
           node == with.queries[Len(h.queries)].where
           b == asked'
<1>1. /\ heap' = AddTo(with, node, x) /\ b = asked \o <<more, ask2>>
      /\ d.alias = "T" /\ r.alias = "T" /\ ask2.within = {}
  BY DEF FilterIn, QuerySet
<1>2. heap \in Heap /\ Placed(heap) /\ Added(heap, h, w, p, ask.settings, ask.low, ask.high, "T")
  BY <1>1, QuerySetClone
<1>3. w \in SUBSET Atom /\ ask \in Asked /\ Meant(asked, w, p, "T", ask)
  BY <1>1, QueryParts
<1>4. /\ r.where \in DOMAIN heap.nodes /\ r.prewhere \in DOMAIN heap.nodes /\ in \in Nat
      /\ r.settings \in DOMAIN heap.dicts /\ in \in DOMAIN asked
      /\ v \in SUBSET Atom /\ u \in SUBSET Atom /\ ask2 \in Asked
      /\ Meant(asked, v, u, "T", ask2) /\ heap.dicts[r.settings] = ask2.settings
      /\ r.low = ask2.low /\ r.high = ask2.high
  BY <1>1, <1>2, QueryParts DEF Placed
<1>5. /\ h \in Heap /\ Placed(h) /\ Extends(heap, h) /\ Len(h.queries) = Len(heap.queries) + 1
      /\ DOMAIN h.queries = DOMAIN heap.queries \cup {Len(heap.queries) + 1}
  <2> HIDE DEF h, w, p, ask
  <2> QED
    BY <1>2, AddedPlaced
<1>6. /\ in \in DOMAIN h.queries /\ h.queries[in] = r
      /\ h.nodes[r.where] = v /\ h.nodes[r.prewhere] = u /\ h.dicts[r.settings] = ask2.settings
  <2>1. in \in DOMAIN h.queries /\ h.queries[in] = r
    BY <1>5 DEF Extends, Grows
  <2> HIDE DEF h, r
  <2> QED
    BY <1>4, <1>5, <2>1 DEF Extends, Grows
<1>7. Added(h, g0, v, u, ask2.settings, ask2.low, ask2.high, "T")
  <2> HIDE DEF h, r, v, u, ask2
  <2>1. Added(h, g0, h.nodes[h.queries[in].where], h.nodes[h.queries[in].prewhere],
              h.dicts[h.queries[in].settings], h.queries[in].low, h.queries[in].high,
              h.queries[in].alias)
    BY <1>5, <1>6, CloneAdds
  <2> QED
    BY <1>1, <1>4, <1>6, <2>1
<1>8. Added(h, with, Recast(v, "U"), Recast(u, "U"), ask2.settings, ask2.low, ask2.high, "U")
  <2>1. with = ChangeAliases(g0, "U") /\ "U" \in Alias
    BY DEF Resolve, Alias
  <2> HIDE DEF h, g0, with, v, u, ask2
  <2> QED
    BY <1>4, <1>5, <1>7, <2>1, AliasesChanged
<1> HIDE DEF h, g0, with, x, w, p, v, u, ask, ask2, d, r, b
<1>9. /\ with \in Heap /\ Extends(h, with) /\ Len(with.queries) = m
      /\ DOMAIN with.queries = DOMAIN h.queries \cup {m}
  BY <1>5, <1>8, AddedPlaced
<1>10. /\ h.queries[Len(h.queries)] = LastOf(h) /\ LastOf(h).where \in DOMAIN h.nodes
       /\ h.nodes[LastOf(h).where] = w /\ Len(h.queries) \in DOMAIN h.queries
  BY <1>2, AddedLast DEF LastOf
<1>11. node = LastOf(h).where /\ with.nodes[node] = w
  BY <1>9, <1>10 DEF Extends, Grows
<1> HIDE DEF node
<1>12. heap' = Put(with, node, w \cup {x})
  BY <1>1, <1>11 DEF AddTo, Put
<1>13. w \cup {x} \in SUBSET Atom
  <2>1. m \in Nat
    BY <1>5, SeqDomain DEF Heap
  <2>2. x \in Atom
    BY <1>9, <2>1 DEF x, InQuery, Atom, Alias
  <2> QED
    BY <1>3, <2>2
<1> DEFINE g == Put(h, node, w \cup {x})
<1>14. Added(heap, g, w \cup {x}, p, ask.settings, ask.low, ask.high, "T")
  BY <1>2, <1>11, <1>13, PutWhere
<1>15. Added(g, heap', Recast(v, "U"), Recast(u, "U"), ask2.settings, ask2.low, ask2.high, "U")
  <2>1. node \in DOMAIN h.nodes
    BY <1>10, <1>11
  <2> QED
    BY <1>5, <1>8, <1>12, <1>13, <2>1, PutBelow
<1>16. /\ asked \in Seq(Asked) /\ Len(asked) = Len(heap.queries)
  BY DEF Faithful
<1>17. more \in Asked
  <2>1. ask.within \cup {in} \in SUBSET Nat
    BY <1>3, <1>4 DEF Asked
  <2> QED
    BY <1>3, <2>1 DEF Asked
<1> HIDE DEF more
<1>18. Grows(asked, b) /\ Len(b) = Len(asked) + 2 /\ b[Len(asked) + 2] = ask2 /\ b \in Seq(Asked)
  BY <1>1, <1>4, <1>16, <1>17, TwoMore
<1>19. m = Len(asked) + 2 /\ m \in DOMAIN b
  <2>1. Len(asked) \in Nat
    BY <1>16, SeqDomain
  <2>2. DOMAIN b = 1..Len(b)
    BY <1>18, SeqDomain
  <2> QED
    BY <1>5, <1>16, <1>18, <2>1, <2>2
<1> HIDE DEF m
<1>20. b[m] = asked[in] /\ asked[in].within = {}
  BY <1>1, <1>18, <1>19 DEF ask2
<1>21. x = InQuery("T", m)
  BY <1>9 DEF x
<1>22. /\ Meant(b, w \cup {x}, p, "T", more)
       /\ more.settings = ask.settings /\ more.low = ask.low /\ more.high = ask.high
  BY <1>3, <1>4, <1>18, <1>19, <1>20, <1>21, MeantIn DEF more
<1>23. Meant(b, Recast(v, "U"), Recast(u, "U"), "U", ask2)
  <2>1. "U" \in Alias
    BY DEF Alias
  <2>2. Meant(asked, Recast(v, "U"), Recast(u, "U"), "U", ask2)
    BY <1>4, <2>1, MeantRecast
  <2> QED
    BY <1>18, <2>2, MeantGrows
<1> HIDE DEF g
<1>24. b = asked \o <<more, ask2>>
  BY <1>1
<1>25. Added(heap, g, w \cup {x}, p, more.settings, more.low, more.high, "T")
  BY <1>14, <1>22
<1> DEFINE w1 == w \cup {x}
           v1 == Recast(v, "U")
           u1 == Recast(u, "U")
<1> HIDE DEF w1, v1, u1
<1>26. /\ Added(heap, g, w1, p, more.settings, more.low, more.high, "T")
       /\ Added(g, heap', v1, u1, ask2.settings, ask2.low, ask2.high, "U")
       /\ Meant(b, w1, p, "T", more) /\ Meant(b, v1, u1, "U", ask2)
  BY <1>15, <1>22, <1>23, <1>25 DEF w1, v1, u1
<1>27. Faithful(heap', b)
  BY <1>4, <1>17, <1>24, <1>26, AskedTwo
<1>28. Extends(heap, heap')
  BY <1>26, ExtendsTwice DEF Added
<1> QED
  BY <1>27, <1>28 DEF b

-----------------------------------------------------------------------------
(* The rows.                                                                *)

\* The rows that a query is about, before its slice, given the answers to its
\* subqueries.
Met(t, w, p, within) ==
    {i \in DOMAIN t : \A x \in w \cup p :
       IF IsSubquery(x) THEN i \in within[x.query].rows ELSE Holds(x.condition, t[i])}

\* The answer to a query: what makes it an error, and its rows.
LEMMA AnswerParts ==
    ASSUME NEW h, NEW t, NEW q, NEW within, NEW c, c = h.queries[q],
           NEW w, w = h.nodes[c.where], NEW p, p = h.nodes[c.prewhere]
    PROVE  LET r == Answer(h, t, q, within) IN
           /\ r.error # "" <=> \/ \E x \in p : ~IsSubquery(x) /\ x.condition.aggregate
                               \/ \E x \in w \cup p : x.alias # c.alias
                               \/ \E x \in w : IsSubquery(x) /\ within[x.query].error # ""
           /\ r.error = "" => r.rows = Slice(Met(t, w, p, within), c.low, c.high)
<1> DEFINE refused == \E x \in p : ~IsSubquery(x) /\ x.condition.aggregate
           unknown == \E x \in w \cup p : x.alias # c.alias
           inner == \E x \in w : IsSubquery(x) /\ within[x.query].error # ""
           error == IF refused THEN "NotSupported" ELSE IF unknown THEN "UnknownColumn"
                    ELSE IF inner THEN "Subquery" ELSE ""
           rows == IF error = "" THEN Slice(Met(t, w, p, within), c.low, c.high) ELSE {}
<1>1. Answer(h, t, q, within) = [error |-> error, rows |-> rows]
  BY DEF Answer, Met
<1>2. error # "" <=> refused \/ unknown \/ inner
  <2> HIDE DEF refused, unknown, inner
  <2> QED
    OBVIOUS
<1> DEFINE r == Answer(h, t, q, within)
<1>3. r.error = error /\ r.rows = rows
  <2> HIDE DEF error, rows
  <2> QED
    BY <1>1
<1>4. error = "" => rows = Slice(Met(t, w, p, within), c.low, c.high)
  <2> HIDE DEF error
  <2> QED
    OBVIOUS
<1> HIDE DEF error, rows, r
<1>5. /\ r.error # "" <=> refused \/ unknown \/ inner
      /\ r.error = "" => r.rows = Slice(Met(t, w, p, within), c.low, c.high)
  <2> HIDE DEF refused, unknown, inner
  <2> QED
    BY <1>2, <1>3, <1>4
<1> QED
  BY <1>5 DEF r

\* The answer r is what was asked for.
Answers(ask, r) ==
    /\ r.error # "" <=> ask.refused
    /\ ~ask.refused => r.rows = AskedAmong(DOMAIN table, ask)

\* A query without subqueries answers with what was asked of it, and is refused if
\* that has an aggregate in PREWHERE.
LEMMA PlainAnswer ==
    ASSUME NEW h, NEW a, Faithful(h, a), NEW q \in DOMAIN h.queries, a[q].within = {}, NEW within
    PROVE  Answers(a[q], Answer(h, table, q, within))
<1> DEFINE c == h.queries[q]
           w == h.nodes[c.where]
           p == h.nodes[c.prewhere]
           ask == a[q]
           r == Answer(h, table, q, within)
<1>1. Meant(a, w, p, c.alias, ask) /\ c.low = ask.low /\ c.high = ask.high /\ ask \in Asked
  BY QueryParts
<1>2. /\ r.error # "" <=> \/ \E x \in p : ~IsSubquery(x) /\ x.condition.aggregate
                          \/ \E x \in w \cup p : x.alias # c.alias
                          \/ \E x \in w : IsSubquery(x) /\ within[x.query].error # ""
      /\ r.error = "" => r.rows = Slice(Met(table, w, p, within), c.low, c.high)
  BY AnswerParts
<1> HIDE DEF c, w, p, r
<1>3. \A x \in w \cup p : ~IsSubquery(x)
  BY <1>1 DEF Meant
<1>4. r.error # "" <=> ask.refused
  <2>1. ask.refused <=> \E x \in p : x.condition.aggregate
    BY <1>1 DEF Meant
  <2>2. \A x \in w \cup p : x.alias = c.alias
    BY <1>1 DEF Meant
  <2> HIDE DEF ask
  <2> QED
    BY <1>2, <1>3, <2>1, <2>2
<1>5. Met(table, w, p, within) = {i \in DOMAIN table : \A d \in ask.conditions : Holds(d, table[i])}
  <2>1. /\ \A x \in w \cup p : x.condition \in ask.conditions
        /\ \A d \in ask.conditions : \E x \in w \cup p : x.condition = d
    BY <1>1, <1>3 DEF Meant
  <2>2. Met(table, w, p, within) = {i \in DOMAIN table : \A x \in w \cup p : Holds(x.condition, table[i])}
    BY <1>3 DEF Met
  <2> HIDE DEF ask
  <2> QED
    BY <2>1, <2>2
<1>6. ~ask.refused => r.rows = AskedAmong(DOMAIN table, ask)
  <2> HIDE DEF ask
  <2> QED
    BY <1>1, <1>2, <1>4, <1>5 DEF AskedAmong
<1>7. Answers(ask, r)
  <2> HIDE DEF ask
  <2> QED
    BY <1>4, <1>6 DEF Answers
<1> QED
  BY <1>7 DEF r

\* Its rows, when it is not refused.
LEMMA PlainRows ==
    ASSUME NEW h, NEW a, Faithful(h, a), NEW q \in DOMAIN h.queries, a[q].within = {},
           ~a[q].refused
    PROVE  Selected(h, table, q).rows = AskedAmong(DOMAIN table, a[q])
<1> DEFINE inner == [in \in Subqueries(h, q) |-> Answer(h, table, in, <<>>)]
           r == Answer(h, table, q, inner)
<1>1. Selected(h, table, q) = r
  BY DEF Selected
<1>2. Answers(a[q], r)
  <2> HIDE DEF inner
  <2> QED
    BY PlainAnswer
<1> HIDE DEF r
<1> QED
  BY <1>1, <1>2 DEF Answers

\* The answers to the subqueries of a query.
LEMMA WithinParts ==
    ASSUME NEW h, NEW a, Faithful(h, a), NEW q \in DOMAIN h.queries,
           NEW x \in h.nodes[h.queries[q].where], IsSubquery(x)
    PROVE  LET r == [in \in Subqueries(h, q) |-> Answer(h, table, in, <<>>)][x.query] IN
           /\ x.query \in DOMAIN h.queries /\ a[x.query].within = {}
           /\ r.error # "" <=> a[x.query].refused
           /\ ~a[x.query].refused => r.rows = AskedAmong(DOMAIN table, a[x.query])
<1> DEFINE c == h.queries[q]
           y == x.query
<1>1. Meant(a, h.nodes[c.where], h.nodes[c.prewhere], c.alias, a[q])
  BY QueryParts
<1>2. y \in DOMAIN a /\ a[y].within = {}
  BY <1>1 DEF Meant
<1>3. y \in DOMAIN h.queries
  <2>1. a \in Seq(Asked) /\ Len(a) = Len(h.queries) /\ h.queries \in Seq(Query)
    BY DEF Faithful, Heap
  <2>2. DOMAIN a = 1..Len(a)
    BY <2>1, SeqDomain
  <2>3. DOMAIN h.queries = 1..Len(h.queries)
    BY <2>1, SeqDomain
  <2> QED
    BY <1>2, <2>1, <2>2, <2>3
<1>4. y \in Subqueries(h, q)
  BY DEF Subqueries
<1> HIDE DEF y
<1>5. [in \in Subqueries(h, q) |-> Answer(h, table, in, <<>>)][y] = Answer(h, table, y, <<>>)
  BY <1>4
<1>6. Answers(a[y], Answer(h, table, y, <<>>))
  BY <1>2, <1>3, PlainAnswer
<1>7. /\ y \in DOMAIN h.queries /\ a[y].within = {}
      /\ [in \in Subqueries(h, q) |-> Answer(h, table, in, <<>>)][y].error # "" <=> a[y].refused
      /\ ~a[y].refused => [in \in Subqueries(h, q) |-> Answer(h, table, in, <<>>)][y].rows
                            = AskedAmong(DOMAIN table, a[y])
  BY <1>2, <1>3, <1>5, <1>6 DEF Answers
<1> QED
  BY <1>7 DEF y

\* So does every query.
LEMMA SelectedMeant ==
    ASSUME Faithful(heap, asked), NEW q \in DOMAIN heap.queries
    PROVE  LET answer == Selected(heap, table, q)
               refused == asked[q].refused \/ \E in \in asked[q].within : asked[in].refused
           IN  /\ answer.error # "" <=> refused
               /\ ~refused => answer.rows = AskedRows(asked[q])
<1> DEFINE c == heap.queries[q]
           w == heap.nodes[c.where]
           p == heap.nodes[c.prewhere]
           ask == asked[q]
           within == [in \in Subqueries(heap, q) |-> Answer(heap, table, in, <<>>)]
           r == Answer(heap, table, q, within)
           refused == ask.refused \/ \E in \in ask.within : asked[in].refused
<1>1. Meant(asked, w, p, c.alias, ask) /\ c.low = ask.low /\ c.high = ask.high
  BY QueryParts
<1>2. /\ r.error # "" <=> \/ \E x \in p : ~IsSubquery(x) /\ x.condition.aggregate
                          \/ \E x \in w \cup p : x.alias # c.alias
                          \/ \E x \in w : IsSubquery(x) /\ within[x.query].error # ""
      /\ r.error = "" => r.rows = Slice(Met(table, w, p, within), c.low, c.high)
  BY AnswerParts
<1>3. ASSUME NEW x \in w, IsSubquery(x)
      PROVE  /\ within[x.query].error # "" <=> asked[x.query].refused
             /\ ~asked[x.query].refused =>
                  within[x.query].rows = AskedAmong(DOMAIN table, asked[x.query])
  BY <1>3, WithinParts
<1>4. Selected(heap, table, q) = r
  BY DEF Selected
<1> HIDE DEF c, w, p, r, within, ask
<1>5. /\ \A x \in w : IsSubquery(x) => \E in \in ask.within : asked[in] = asked[x.query]
      /\ \A in \in ask.within : \E x \in w : IsSubquery(x) /\ asked[x.query] = asked[in]
      /\ \A x \in p : ~IsSubquery(x)
      /\ ask.refused <=> \E x \in p : x.condition.aggregate
      /\ \A x \in w \cup p : x.alias = c.alias
  BY <1>1 DEF Meant
<1>6. (\E x \in w : IsSubquery(x) /\ within[x.query].error # "")
        <=> \E in \in ask.within : asked[in].refused
  <2>1. ASSUME NEW x \in w, IsSubquery(x), within[x.query].error # ""
        PROVE  \E in \in ask.within : asked[in].refused
    <3>1. PICK in \in ask.within : asked[in] = asked[x.query]
      BY <1>5, <2>1
    <3> QED
      BY <1>3, <2>1, <3>1
  <2>2. ASSUME NEW in \in ask.within, asked[in].refused
        PROVE  \E x \in w : IsSubquery(x) /\ within[x.query].error # ""
    <3>1. PICK x \in w : IsSubquery(x) /\ asked[x.query] = asked[in]
      BY <1>5
    <3> QED
      BY <1>3, <2>2, <3>1
  <2> QED
    BY <2>1, <2>2
<1>7. r.error # "" <=> refused
  BY <1>2, <1>5, <1>6
<1>8. ASSUME ~refused
      PROVE  r.rows = AskedRows(ask)
  <2> DEFINE ids == {i \in DOMAIN table : \A in \in ask.within :
                       i \in AskedAmong(DOMAIN table, asked[in])}
  <2>1. \A x \in w : IsSubquery(x) => ~asked[x.query].refused
    <3> SUFFICES ASSUME NEW x \in w, IsSubquery(x) PROVE ~asked[x.query].refused
      OBVIOUS
    <3>1. PICK in \in ask.within : asked[in] = asked[x.query]
      BY <1>5
    <3> QED
      BY <1>8, <3>1
  <2>2. \A x \in w : IsSubquery(x) => within[x.query].rows = AskedAmong(DOMAIN table, asked[x.query])
    BY <1>3, <2>1
  <2>3. ASSUME NEW i \in DOMAIN table
        PROVE  (\A x \in w : IsSubquery(x) => i \in within[x.query].rows)
                 <=> \A in \in ask.within : i \in AskedAmong(DOMAIN table, asked[in])
    <3>1. ASSUME \A x \in w : IsSubquery(x) => i \in within[x.query].rows, NEW in \in ask.within
          PROVE  i \in AskedAmong(DOMAIN table, asked[in])
      <4>1. PICK x \in w : IsSubquery(x) /\ asked[x.query] = asked[in]
        BY <1>5
      <4>2. i \in within[x.query].rows
        BY <3>1, <4>1
      <4>3. within[x.query].rows = AskedAmong(DOMAIN table, asked[x.query])
        BY <2>2, <4>1
      <4> QED
        BY <4>1, <4>2, <4>3
    <3>2. ASSUME \A in \in ask.within : i \in AskedAmong(DOMAIN table, asked[in]),
                 NEW x \in w, IsSubquery(x)
          PROVE  i \in within[x.query].rows
      <4>1. PICK in \in ask.within : asked[in] = asked[x.query]
        BY <1>5, <3>2
      <4>2. i \in AskedAmong(DOMAIN table, asked[x.query])
        BY <3>2, <4>1
      <4> QED
        BY <2>2, <3>2, <4>2
    <3> QED
      BY <3>1, <3>2
  <2>4. /\ \A x \in w \cup p : ~IsSubquery(x) => x.condition \in ask.conditions
        /\ \A d \in ask.conditions : \E x \in w \cup p : ~IsSubquery(x) /\ x.condition = d
    BY <1>1 DEF Meant
  <2>5. ASSUME NEW i \in DOMAIN table
        PROVE  i \in Met(table, w, p, within)
                 <=> i \in ids /\ \A d \in ask.conditions : Holds(d, table[i])
    <3>1. (\A x \in w \cup p : ~IsSubquery(x) => Holds(x.condition, table[i]))
            <=> \A d \in ask.conditions : Holds(d, table[i])
      BY <2>4
    <3>2. i \in Met(table, w, p, within)
            <=> /\ \A x \in w : IsSubquery(x) => i \in within[x.query].rows
                /\ \A x \in w \cup p : ~IsSubquery(x) => Holds(x.condition, table[i])
      BY <1>5 DEF Met
    <3>3. i \in ids <=> \A in \in ask.within : i \in AskedAmong(DOMAIN table, asked[in])
      OBVIOUS
    <3> HIDE DEF ids
    <3> QED
      BY <2>3, <3>1, <3>2, <3>3
  <2>6. Met(table, w, p, within) = {i \in ids : \A d \in ask.conditions : Holds(d, table[i])}
    <3>1. \A i : i \in Met(table, w, p, within) => i \in DOMAIN table
      BY DEF Met
    <3>2. \A i : i \in ids => i \in DOMAIN table
      OBVIOUS
    <3> HIDE DEF ids
    <3> QED
      BY <2>5, <3>1, <3>2
  <2>7. AskedRows(ask) = AskedAmong(ids, ask)
    BY DEF AskedRows
  <2> HIDE DEF ids
  <2>8. AskedRows(ask) = Slice(Met(table, w, p, within), ask.low, ask.high)
    BY <2>6, <2>7 DEF AskedAmong
  <2>9. r.error = ""
    BY <1>7, <1>8
  <2> QED
    BY <1>1, <1>2, <2>8, <2>9
<1> QED
  BY <1>4, <1>7, <1>8 DEF ask

-----------------------------------------------------------------------------
(* What is written.                                                         *)

\* Without limits a slice is all there is.
LEMMA SliceAll ==
    ASSUME NEW ids, IsFiniteSet(ids)
    PROVE  Slice(ids, 0, NoLimit) = ids
<1>1. ASSUME NEW i \in ids PROVE 0 <= Cardinality({j \in ids : j < i})
  <2>1. IsFiniteSet({j \in ids : j < i})
    BY FS_Subset
  <2>2. Cardinality({j \in ids : j < i}) \in Nat
    BY <2>1, FS_CardinalityType
  <2> QED
    BY <2>2
<1> QED
  BY <1>1 DEF Slice

\* An UPDATE or DELETE is compiled from a clone, and is for the rows that its query
\* set selects, unless it has a PREWHERE.
LEMMA CompiledMeant ==
    ASSUME Faithful(heap, asked), IsFiniteSet(DOMAIN table), NEW q \in DOMAIN heap.queries,
           ~Sliced(heap.queries[q]), Selected(heap, table, q).error = "",
           NEW h, h = Clone(heap, q), NEW last, last = Len(h.queries)
    PROVE  /\ Settings(h, last) = asked[q].settings
           /\ ~asked[q].prewhere => CompileWhere(h, table, last) = Selected(heap, table, q).rows
<1> DEFINE c == heap.queries[q]
           w == heap.nodes[c.where]
           p == heap.nodes[c.prewhere]
           ask == asked[q]
           b == Append(asked, ask)
           within == [in \in Subqueries(heap, q) |-> Answer(heap, table, in, <<>>)]
           r == Answer(heap, table, q, within)
<1>0. ask \in Asked /\ q \in DOMAIN asked
  BY QueryParts
<1>1. Meant(asked, w, p, c.alias, ask) /\ c.low = ask.low /\ c.high = ask.high
  <2>1. Meant(asked, w, p, c.alias, ask)
    BY QueryParts
  <2>2. Conforms(heap, asked, q)
    BY DEF Faithful
  <2> QED
    BY <2>1, <2>2 DEF Conforms
<1>2. /\ heap \in Heap /\ Placed(heap)
      /\ Added(heap, h, w, p, ask.settings, ask.low, ask.high, c.alias)
  BY QuerySetClone
<1>3. /\ r.error # "" <=> \/ \E x \in p : ~IsSubquery(x) /\ x.condition.aggregate
                          \/ \E x \in w \cup p : x.alias # c.alias
                          \/ \E x \in w : IsSubquery(x) /\ within[x.query].error # ""
      /\ r.error = "" => r.rows = Slice(Met(table, w, p, within), c.low, c.high)
  BY AnswerParts
<1>4. ASSUME NEW x \in w, IsSubquery(x)
      PROVE  /\ x.query \in DOMAIN heap.queries /\ asked[x.query].within = {}
             /\ within[x.query].error # "" <=> asked[x.query].refused
             /\ ~asked[x.query].refused =>
                  within[x.query].rows = AskedAmong(DOMAIN table, asked[x.query])
  BY <1>4, WithinParts
<1>5. Selected(heap, table, q) = r /\ r.error = ""
  BY DEF Selected
<1>6. c.low = 0 /\ c.high = NoLimit
  BY DEF Sliced
<1> HIDE DEF c, w, p, r, within, ask
<1>7. h.nodes[h.queries[last].where] = w
  <2>1. h.nodes[LastOf(h).where] = w
    <3>1. h.queries[Len(heap.queries) + 1] = LastOf(h)
      BY <1>2 DEF Added, LastOf
    <3> QED
      BY <1>2, <3>1 DEF Added
  <2>2. LastOf(h) = h.queries[last]
    BY DEF LastOf
  <2> QED
    BY <2>1, <2>2
<1>8. Settings(h, last) = ask.settings
  <2>1. last = Len(heap.queries) + 1
    BY <1>2 DEF Added
  <2> QED
    BY <1>2, <2>1 DEF Added, Settings
<1>9. Faithful(h, b)
  BY <1>0, <1>1, <1>2, AskedOne
<1>10. Grows(asked, b)
  <2>1. asked \in Seq(Asked)
    BY DEF Faithful
  <2> QED
    BY <1>0, <2>1, OneMore
<1>11. ASSUME NEW x \in w, IsSubquery(x)
       PROVE  Selected(h, table, x.query).rows = within[x.query].rows
  <2> DEFINE y == x.query
  <2>1. y \in DOMAIN heap.queries /\ asked[y].within = {}
    BY <1>4, <1>11
  <2>2. ~asked[y].refused
    BY <1>3, <1>4, <1>5, <1>11
  <2>3. y \in DOMAIN h.queries
    BY <1>2, <2>1 DEF Added, Extends, Grows
  <2>4. b[y] = asked[y]
    <3>2. y \in DOMAIN asked
      BY <2>1, QueryParts
    <3> QED
      BY <3>2, <1>10 DEF Grows
  <2>5. within[y].rows = AskedAmong(DOMAIN table, asked[y])
    BY <1>4, <1>11, <2>2
  <2> HIDE DEF y, b
  <2>7. b[y].within = {} /\ ~b[y].refused
    BY <2>1, <2>2, <2>4
  <2>8. Selected(h, table, y).rows = AskedAmong(DOMAIN table, b[y])
    BY <1>9, <2>3, <2>7, PlainRows
  <2>9. Selected(h, table, y).rows = within[y].rows
    BY <2>4, <2>5, <2>8
  <2> QED
    BY <2>9 DEF y
<1>12. ASSUME ~ask.prewhere
       PROVE  CompileWhere(h, table, last) = r.rows
  <2>1. p = {}
    BY <1>1, <1>12 DEF Meant
  <2>2. CompileWhere(h, table, last) =
          {i \in DOMAIN table : \A x \in w :
             IF IsSubquery(x) THEN i \in Selected(h, table, x.query).rows
             ELSE Holds(x.condition, table[i])}
    BY <1>7 DEF CompileWhere
  <2>3. Met(table, w, p, within) =
          {i \in DOMAIN table : \A x \in w :
             IF IsSubquery(x) THEN i \in within[x.query].rows ELSE Holds(x.condition, table[i])}
    BY <2>1 DEF Met
  <2>4. CompileWhere(h, table, last) = Met(table, w, p, within)
    BY <1>11, <2>2, <2>3
  <2>5. IsFiniteSet(Met(table, w, p, within))
    <3>1. Met(table, w, p, within) \subseteq DOMAIN table
      BY <2>3
    <3> QED
      BY <3>1, FS_Subset
  <2>6. r.rows = Met(table, w, p, within)
    BY <1>3, <1>5, <1>6, <2>5, SliceAll
  <2> QED
    BY <2>4, <2>6
<1> QED
  BY <1>5, <1>8, <1>12 DEF ask

\* An UPDATE or DELETE leaves the queries alone, and a finite table.
LEMMA WritesKeep ==
    ASSUME HeapInv, NEW q \in DOMAIN heap.queries, NEW v, Update(q, v) \/ Delete(q)
    PROVE  /\ heap' = heap /\ asked' = asked /\ IsFiniteSet(DOMAIN table')
           /\ WritesAsAsked' /\ InsertedAsGiven'
<1>1. PICK op \in {"update", "delete"} : Writes(op, q)
  BY DEF Update, Delete
<1>2. heap' = heap /\ asked' = asked
  BY <1>1 DEF Writes
<1>3. DOMAIN table' \subseteq DOMAIN table
  BY DEF Update, Delete
<1>4. IsFiniteSet(DOMAIN table')
  BY <1>3, FS_Subset DEF HeapInv
<1> DEFINE h == Clone(heap, q)
           last == Len(h.queries)
           rows == CompileWhere(h, table, last)
           read == Selected(heap, table, q).rows
           settings == Settings(h, last)
<1>5. /\ ~Sliced(heap.queries[q]) /\ Selected(heap, table, q).error = ""
      /\ wrote' = [op |-> op, asked |-> asked[q], read |-> read, rows |-> rows,
                   settings |-> settings]
  BY <1>1 DEF Writes
<1>6. settings = asked[q].settings /\ (~asked[q].prewhere => rows = read)
  BY <1>5, CompiledMeant DEF HeapInv
<1> HIDE DEF rows, read, settings
<1>7. /\ wrote'.op = op /\ wrote'.asked = asked[q] /\ wrote'.read = read
      /\ wrote'.rows = rows /\ wrote'.settings = settings
  BY <1>5
<1>8. WritesAsAsked'
  BY <1>6, <1>7 DEF WritesAsAsked
<1>9. InsertedAsGiven'
  BY <1>1, <1>7 DEF InsertedAsGiven
<1> QED
  BY <1>2, <1>4, <1>8, <1>9

\* An INSERT into the empty table leaves the queries alone, and stores the objects
\* as they were given.
LEMMA InsertKeeps ==
    ASSUME NEW n \in 1..MaxObjs, NEW objs \in [1..n -> Objs], Insert(objs)
    PROVE  /\ heap' = heap /\ asked' = asked /\ IsFiniteSet(DOMAIN table')
           /\ WritesAsAsked' /\ InsertedAsGiven'
<1> DEFINE rows == [i \in DOMAIN objs |->
                      [objs[i] EXCEPT !.a = IF Omitted(objs) THEN Default ELSE @]]
           failed == SentFails(objs)
<1>1. /\ heap' = heap /\ asked' = asked /\ table = <<>>
      /\ table' = IF failed THEN table ELSE rows
      /\ wrote' = [op |-> "insert", objs |-> objs, failed |-> failed, rows |-> table']
  BY DEF Insert
<1>2. n \in Nat /\ DOMAIN objs = 1..n /\ Len(objs) = n /\ objs \in Seq(Objs)
  BY QueriesAssumption
<1>3. DOMAIN rows = 1..n
  BY <1>2
<1>4. failed \in BOOLEAN
  BY DEF SentFails
<1>5. \A i \in 1..n : objs[i] \in [a: Int, b: Int]
  BY QueriesAssumption
<1>6. failed => Len(objs) > MaxRowsUseExpression
  BY DEF SentFails
<1>7. ~Omitted(objs) => rows = objs
  <2> HIDE DEF failed
  <2>1. ASSUME ~Omitted(objs), NEW i \in 1..n
        PROVE  rows[i] = objs[i]
    <3> DEFINE o == objs[i]
    <3>1. rows[i] = [o EXCEPT !.a = o.a]
      BY <1>2, <2>1
    <3>2. o \in [a: Int, b: Int]
      BY <1>5, <2>1
    <3> HIDE DEF o, rows
    <3>3. [o EXCEPT !.a = o.a] = o
      BY <3>2
    <3> QED
      BY <3>1, <3>3 DEF o
  <2> HIDE DEF rows
  <2>2. rows = [i \in DOMAIN rows |-> rows[i]]
    BY DEF rows
  <2>3. objs = [i \in 1..n |-> objs[i]]
    OBVIOUS
  <2> QED
    BY <1>3, <2>1, <2>2, <2>3
<1>8. ASSUME Omitted(objs), ~(Len(objs) > MaxRowsUseExpression)
      PROVE  rows = objs
  <2> HIDE DEF failed
  <2>0. \A i \in 1..n : objs[i].a = Default
    BY <1>2, <1>8 DEF Omitted
  <2>1. ASSUME NEW i \in 1..n
        PROVE  rows[i] = objs[i]
    <3> DEFINE o == objs[i]
    <3>1. rows[i] = [o EXCEPT !.a = Default]
      BY <1>2, <1>8, <2>1
    <3>2. o \in [a: Int, b: Int] /\ o.a = Default
      BY <1>5, <2>0, <2>1
    <3> HIDE DEF o, rows
    <3>3. [o EXCEPT !.a = Default] = o
      BY <3>2
    <3> QED
      BY <3>1, <3>3 DEF o
  <2> HIDE DEF rows
  <2>2. rows = [i \in DOMAIN rows |-> rows[i]]
    BY DEF rows
  <2>3. objs = [i \in 1..n |-> objs[i]]
    OBVIOUS
  <2> QED
    BY <1>3, <2>1, <2>2, <2>3
<1>9. Omitted(objs) /\ Len(objs) > MaxRowsUseExpression => objs[1].a = Default
  BY DEF Omitted
<1>10. IsFiniteSet(DOMAIN table')
  <2>1. DOMAIN table' \subseteq 1..n
    <3> HIDE DEF rows, failed
    <3>1. CASE failed
      BY <1>1, <3>1
    <3>2. CASE ~failed
      BY <1>1, <1>3, <3>2
    <3> QED
      BY <3>1, <3>2
  <2>2. IsFiniteSet(1..n)
    BY <1>2, FS_Interval
  <2> QED
    BY <2>1, <2>2, FS_Subset
<1> HIDE DEF rows, failed
<1>11. /\ wrote'.op = "insert" /\ wrote'.objs = objs /\ wrote'.failed = failed
       /\ wrote'.rows = table'
  BY <1>1
<1>12. WritesAsAsked'
  BY <1>11 DEF WritesAsAsked
<1>13. InsertedAsGiven'
  <2>1. CASE failed
    BY <1>1, <1>6, <1>11, <2>1 DEF InsertedAsGiven
  <2>2. CASE ~failed
    <3>1. wrote'.rows = rows
      BY <1>1, <1>11, <2>2
    <3>2. rows = objs \/ (Len(objs) > MaxRowsUseExpression /\ objs[1].a = Default)
      BY <1>7, <1>8, <1>9
    <3> QED
      BY <1>11, <2>2, <3>1, <3>2 DEF InsertedAsGiven
  <2> QED
    BY <1>4, <2>1, <2>2
<1> QED
  BY <1>1, <1>10, <1>12, <1>13

-----------------------------------------------------------------------------
(* The theorems.  They are about QueriesSpec, the query sets by themselves;   *)
(* what Fields does beside them changes none of their variables.            *)

\* The first query set selects everything.
LEMMA InitFaithful ==
    ASSUME QueriesInit
    PROVE  HeapInv
<1> DEFINE c == [where |-> 1, prewhere |-> 2, settings |-> 1, low |-> 0, high |-> NoLimit,
                 alias |-> "T"]
           ask == [conditions |-> {}, prewhere |-> FALSE, refused |-> FALSE, within |-> {},
                   settings |-> Unset, low |-> 0, high |-> NoLimit]
<1>1. /\ heap = [nodes |-> <<{}, {}>>, dicts |-> <<Unset>>, queries |-> <<c>>]
      /\ asked = <<ask>> /\ table = <<>>
  BY DEF QueriesInit
<1>2. c \in Query /\ c.where = 1 /\ c.prewhere = 2 /\ c.settings = 1 /\ c.low = 0
      /\ c.high = NoLimit /\ c.alias = "T"
  BY DEF Query, Alias, NoLimit
<1>3. /\ ask \in Asked /\ ask.conditions = {} /\ ~ask.prewhere /\ ~ask.refused
      /\ ask.within = {} /\ ask.settings = Unset /\ ask.low = 0 /\ ask.high = NoLimit
  BY DEF Asked, Unset, NoLimit
<1> HIDE DEF c, ask
<1>4. /\ heap.nodes = <<{}, {}>> /\ heap.dicts = <<Unset>> /\ heap.queries = <<c>>
  BY <1>1
<1>5. <<{}, {}>> \in Seq(SUBSET Atom)
  OBVIOUS
<1>6. <<Unset>> \in Seq(Int)
  BY DEF Unset
<1>7. <<c>> \in Seq(Query) /\ <<ask>> \in Seq(Asked)
  BY <1>2, <1>3
<1>8. heap \in Heap
  BY <1>1, <1>5, <1>6, <1>7 DEF Heap
<1>9. /\ DOMAIN heap.nodes = {1, 2} /\ DOMAIN heap.dicts = {1} /\ DOMAIN heap.queries = {1}
      /\ heap.nodes[1] = {} /\ heap.nodes[2] = {} /\ heap.dicts[1] = Unset
      /\ heap.queries[1] = c /\ asked[1] = ask /\ Len(asked) = Len(heap.queries)
  BY <1>1, <1>4
<1>10. Placed(heap)
  BY <1>2, <1>9 DEF Placed
<1>11. Meant(asked, {}, {}, "T", ask)
  BY <1>3 DEF Meant
<1>12. Conforms(heap, asked, 1)
  BY <1>2, <1>3, <1>9, <1>11 DEF Conforms
<1>13. Faithful(heap, asked)
  BY <1>1, <1>7, <1>8, <1>9, <1>10, <1>12 DEF Faithful
<1>14. IsFiniteSet(DOMAIN table)
  <2>1. DOMAIN table = {}
    BY <1>1
  <2> QED
    BY <2>1, FS_EmptySet
<1> QED
  BY <1>13, <1>14 DEF HeapInv

\* Every step leaves the queries there are as they were, and the others as asked.
LEMMA NextFaithful ==
    ASSUME HeapInv, WritesAsAsked, InsertedAsGiven, [QueriesNext]_queryVars
    PROVE  Extends(heap, heap') /\ HeapInv' /\ WritesAsAsked' /\ InsertedAsGiven'
<1>1. Extends(heap, heap)
  BY DEF Extends, Grows
<1>2. ASSUME heap' = heap, asked' = asked, IsFiniteSet(DOMAIN table')
      PROVE  Extends(heap, heap') /\ HeapInv'
  BY <1>1, <1>2 DEF HeapInv
<1>3. ASSUME Extends(heap, heap'), Faithful(heap', asked'), UNCHANGED <<table, wrote>>
      PROVE  Extends(heap, heap') /\ HeapInv' /\ WritesAsAsked' /\ InsertedAsGiven'
  BY <1>3 DEF HeapInv, WritesAsAsked, InsertedAsGiven
<1>4. ASSUME NEW n \in 1..MaxObjs, NEW objs \in [1..n -> Objs], Insert(objs)
      PROVE  Extends(heap, heap') /\ HeapInv' /\ WritesAsAsked' /\ InsertedAsGiven'
  BY <1>2, <1>4, InsertKeeps
<1>5. ASSUME NEW q \in DOMAIN heap.queries, Update(q, 2) \/ Delete(q)
      PROVE  Extends(heap, heap') /\ HeapInv' /\ WritesAsAsked' /\ InsertedAsGiven'
  BY <1>2, <1>5, WritesKeep
<1>6. ASSUME NEW q \in DOMAIN heap.queries, NEW c \in Conditions, Filter(q, c)
      PROVE  Extends(heap, heap') /\ HeapInv' /\ WritesAsAsked' /\ InsertedAsGiven'
  BY <1>3, <1>6, FilterKeeps DEF HeapInv, Filter, Ask
<1>7. ASSUME NEW q \in DOMAIN heap.queries, NEW c \in Conditions, Prewhere(q, c)
      PROVE  Extends(heap, heap') /\ HeapInv' /\ WritesAsAsked' /\ InsertedAsGiven'
  BY <1>3, <1>7, PrewhereKeeps DEF HeapInv, Prewhere, Ask
<1>8. ASSUME NEW q \in DOMAIN heap.queries, NEW s \in 1..2, WithSettings(q, s)
      PROVE  Extends(heap, heap') /\ HeapInv' /\ WritesAsAsked' /\ InsertedAsGiven'
  <2>1. s \in Int
    BY <1>8
  <2>2. Extends(heap, heap') /\ Faithful(heap', asked')
    BY <1>8, <2>1, WithSettingsKeeps DEF HeapInv
  <2> QED
    BY <1>3, <1>8, <2>2 DEF WithSettings, Ask
<1>9. ASSUME NEW q \in DOMAIN heap.queries, TakeSlice(q, 0, 1) \/ TakeSlice(q, 1, NoLimit)
      PROVE  Extends(heap, heap') /\ HeapInv' /\ WritesAsAsked' /\ InsertedAsGiven'
  <2>1. NoLimit \in Int
    BY DEF NoLimit
  <2>2. Extends(heap, heap') /\ Faithful(heap', asked')
    BY <1>9, <2>1, TakeSliceKeeps DEF HeapInv
  <2> QED
    BY <1>3, <1>9, <2>2 DEF TakeSlice, Ask
<1>10. ASSUME NEW q \in DOMAIN heap.queries, NEW in \in DOMAIN heap.queries, FilterIn(q, in)
       PROVE  Extends(heap, heap') /\ HeapInv' /\ WritesAsAsked' /\ InsertedAsGiven'
  BY <1>3, <1>10, FilterInKeeps DEF HeapInv, FilterIn
<1>11. ASSUME UNCHANGED queryVars
       PROVE  Extends(heap, heap') /\ HeapInv' /\ WritesAsAsked' /\ InsertedAsGiven'
  BY <1>1, <1>11 DEF queryVars, HeapInv, WritesAsAsked, InsertedAsGiven
<1> QED
  BY <1>4, <1>5, <1>6, <1>7, <1>8, <1>9, <1>10, <1>11 DEF QueriesNext

\* Extending a heap changes no query there is (clone() and what is done to it).
LEMMA ExtendsImmutable ==
    ASSUME HeapInv, Extends(heap, heap'), NEW q \in DOMAIN heap.queries
    PROVE  LET before == heap.queries[q]
               after == heap'.queries[q]
           IN  /\ heap'.nodes[after.where] = heap.nodes[before.where]
               /\ heap'.nodes[after.prewhere] = heap.nodes[before.prewhere]
               /\ heap'.dicts[after.settings] = heap.dicts[before.settings]
<1>1. Placed(heap)
  BY DEF HeapInv, Faithful
<1>2. heap'.queries[q] = heap.queries[q]
  BY DEF Extends, Grows
<1>3. /\ \A i \in DOMAIN heap.nodes : heap'.nodes[i] = heap.nodes[i]
      /\ \A i \in DOMAIN heap.dicts : heap'.dicts[i] = heap.dicts[i]
  BY DEF Extends, Grows
<1> QED
  BY <1>1, <1>2, <1>3 DEF Placed

\* The rows a query set selects, and its settings, when the heap is faithful.
LEMMA FaithfulRows ==
    ASSUME HeapInv
    PROVE  RowsAsFiltered
<1> SUFFICES ASSUME NEW q \in DOMAIN heap.queries
             PROVE  LET answer == Selected(heap, table, q)
                        refused == asked[q].refused \/ \E in \in asked[q].within : asked[in].refused
                    IN  /\ Settings(heap, q) = asked[q].settings
                        /\ answer.error # "" <=> refused
                        /\ ~refused => answer.rows = AskedRows(asked[q])
  BY DEF RowsAsFiltered
<1>1. Faithful(heap, asked)
  BY DEF HeapInv
<1>2. Settings(heap, q) = asked[q].settings
  <2>1. Conforms(heap, asked, q)
    BY <1>1 DEF Faithful
  <2> QED
    BY <2>1 DEF Conforms, Settings
<1> QED
  BY <1>1, <1>2, SelectedMeant

\* The three together are inductive.
LEMMA QueriesInvariant ==
    QueriesSpec => [](HeapInv /\ WritesAsAsked /\ InsertedAsGiven)
<1> DEFINE Inv == HeapInv /\ WritesAsAsked /\ InsertedAsGiven
<1>1. QueriesInit => Inv
  <2> SUFFICES ASSUME QueriesInit PROVE Inv
    OBVIOUS
  <2>1. wrote.op = "none"
    BY DEF QueriesInit
  <2>2. WritesAsAsked /\ InsertedAsGiven
    BY <2>1 DEF WritesAsAsked, InsertedAsGiven
  <2> QED
    BY <2>2, InitFaithful
<1>2. Inv /\ [QueriesNext]_queryVars => Inv'
  BY NextFaithful
<1> QED
  BY <1>1, <1>2, PTL DEF QueriesSpec

\* Whatever is chained, sliced, nested or written, every query of the process says
\* what was asked of it by the calls that made it, through nodes and dicts that are
\* there (Query.clone(), add_prewhere(), change_aliases()).
THEOREM HeapInvAlways == QueriesSpec => []HeapInv
BY QueriesInvariant, PTL

\* Every query set and every subquery selects the rows asked of it with the settings
\* asked of it, in WHERE or in PREWHERE, and fails for an aggregate in PREWHERE only
\* (models/sql/compiler.py and Query.resolve_expression()).
THEOREM RowsAsFilteredAlways == QueriesSpec => []RowsAsFiltered
<1>1. HeapInv => RowsAsFiltered
  BY FaithfulRows
<1> QED
  BY <1>1, HeapInvAlways, PTL

\* Objects are inserted as they were given, whichever of them leave a field to its
\* db_default, but for what is lost or refused as data (SQLInsertCompiler).
THEOREM InsertedAsGivenAlways == QueriesSpec => []InsertedAsGiven
BY QueriesInvariant, PTL

\* An UPDATE or DELETE of a query set without PREWHERE is for the rows it reads, with
\* its settings (SQLUpdateCompiler, SQLDeleteCompiler).
THEOREM WritesAsAskedAlways == QueriesSpec => []WritesAsAsked
BY QueriesInvariant, PTL

\* No call on a query set changes the conditions or the settings of a query there is:
\* what clone() shares, no one changes in place.
THEOREM QuerySetsImmutableAlways == QueriesSpec => QuerySetsImmutable
<1> DEFINE Inv == HeapInv /\ WritesAsAsked /\ InsertedAsGiven
           Same == \A q \in DOMAIN heap.queries :
                     LET before == heap.queries[q]
                         after == heap'.queries[q]
                     IN  /\ heap'.nodes[after.where] = heap.nodes[before.where]
                         /\ heap'.nodes[after.prewhere] = heap.nodes[before.prewhere]
                         /\ heap'.dicts[after.settings] = heap.dicts[before.settings]
<1>1. Inv /\ [QueriesNext]_queryVars => [Same]_queryVars
  <2> SUFFICES ASSUME Inv, [QueriesNext]_queryVars PROVE Same
    OBVIOUS
  <2>1. Extends(heap, heap')
    BY NextFaithful
  <2> QED
    BY <2>1, ExtendsImmutable
<1> QED
  BY <1>1, QueriesInvariant, PTL DEF QueriesSpec, QuerySetsImmutable
=============================================================================
