------------------------------ MODULE LruCache ------------------------------
(***************************************************************************)
(* What a cache with a byte budget and least-recently-used eviction        *)
(* promises, without clocks or accounts: the keys it holds, and which of   *)
(* them was used before which.  RenderCache, the cache of model.rs as the  *)
(* viewer uses it, implements this specification.                          *)
(***************************************************************************)
EXTENDS Naturals, Sequences, FiniteSets

CONSTANTS
  Keys,    \* what can be cached
  Size,    \* bytes of each key's value
  Budget   \* bytes the cache may hold

VARIABLES
  held,   \* keys held
  older,  \* pairs of keys held of which the first was used before the second
  asked   \* the keys last asked for, in that order

Init == held = {} /\ older = {} /\ asked = <<>>

\* The bytes of the values of K.
Weight(K) == Cardinality(UNION {{k} \X (1..Size[k]) : k \in K})

Asked(s, k) == \E i \in DOMAIN s : s[i] = k

AskedBefore(s, j, k) == \E m, n \in DOMAIN s : m < n /\ s[m] = j /\ s[n] = k

\* What is asked for and held becomes most recent, in the order it is asked.
Use ==
  /\ asked' \in Seq(Keys)
  /\ older' = {p \in held \X held :
                 \/ AskedBefore(asked', p[1], p[2])
                 \/ ~Asked(asked', p[1]) /\ (Asked(asked', p[2]) \/ p \in older)}
  /\ UNCHANGED held

\* The ways to keep only the most recent of K.
Recent(K) == {L \in SUBSET K : \A j, k \in K : j \in L /\ <<j, k>> \in older => k \in L}

\* Room is made from the old end only, and no more of it than is needed.
Put(k) ==
  LET rest    == held \ {k}
      fits(L) == Weight(L) + Size[k] <= Budget
  IN  /\ Size[k] <= Budget
      /\ \E L \in Recent(rest) :
           /\ fits(L) /\ \A M \in Recent(rest) : fits(M) => M \subseteq L
           /\ held' = L \cup {k}
           /\ older' = (older \cap (L \X L)) \cup (L \X {k})
      /\ UNCHANGED asked

Next == Use \/ \E k \in Keys : Put(k)

Spec == Init /\ [][Next]_<<held, older, asked>>
=============================================================================
