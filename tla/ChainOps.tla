------------------------------ MODULE ChainOps ------------------------------
(***************************************************************************)
(* The block store as a value, [td, head]: the total difficulties known by *)
(* hash and the head.  Insert is what one complete WriteBlock does to it.  *)
(* Blockchain is the code that carries it out write by write and is shown  *)
(* to implement it; Sequencing uses it for the store of each node.         *)
(***************************************************************************)
EXTENDS Naturals

Put(f, k, v) == [x \in DOMAIN f \cup {k} |-> IF x = k THEN v ELSE f[x]]

\* The store that holds only its genesis block.
NewStore(g) == [td |-> [h \in {g} |-> g.difficulty], head |-> g]

\* A block at or below the head's number, or with an unknown parent, changes
\* nothing; any other one is remembered, and becomes the head when it extends
\* the head or outweighs it.
Insert(c, b) ==
    IF b.number <= c.head.number \/ b.parent \notin DOMAIN c.td THEN c
    ELSE LET t == c.td[b.parent] + b.difficulty
         IN  [td |-> Put(c.td, b, t),
              head |-> IF b.parent = c.head \/ t > c.td[c.head] THEN b ELSE c.head]
=============================================================================
