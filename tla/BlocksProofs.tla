---------------------------- MODULE BlocksProofs ----------------------------
(***************************************************************************)
(* Lemmas about chains and stores: what Run and Replay do to one more      *)
(* transaction or block, when one chain is a prefix of another, and what a *)
(* node loads from its store.                                              *)
(***************************************************************************)
EXTENDS Store, LedgerProofs

-----------------------------------------------------------------------------
(* Chains have no type of their own: a block holds its predecessor.        *)

\* s is a sequence, of whatever it holds.
IsSeq(s) == s \in Seq(Range(s))

\* A sequence over a set is one of what it holds.
LEMMA SeqIsSeq ==
    ASSUME NEW S, NEW s \in Seq(S)
    PROVE  IsSeq(s)
  <1>1. Len(s) \in Nat /\ s \in [1 .. Len(s) -> S] /\ DOMAIN s = 1 .. Len(s)
    OBVIOUS
  <1>2. s \in [1 .. Len(s) -> Range(s)]
    BY <1>1 DEF Range
  <1> QED
    BY <1>1, <1>2 DEF IsSeq

\* Length, domain and elements of a sequence.
LEMMA SeqProps ==
    ASSUME NEW s, IsSeq(s)
    PROVE  /\ Len(s) \in Nat /\ DOMAIN s = 1 .. Len(s)
           /\ s = <<>> <=> Len(s) = 0
           /\ \A i \in 1 .. Len(s) : s[i] \in Range(s)
           /\ \A x \in Range(s) : \E i \in 1 .. Len(s) : x = s[i]
  <1>1. s \in Seq(Range(s))
    BY DEF IsSeq
  <1>2. Len(s) \in Nat /\ DOMAIN s = 1 .. Len(s) /\ (s = <<>> <=> Len(s) = 0)
    BY <1>1
  <1> QED
    BY <1>2 DEF Range

\* The chain of a node that has not started.
LEMMA EmptyIsSeq == IsSeq(<<>>) /\ Len(<<>>) = 0 /\ Range(<<>>) = {}
  BY DEF IsSeq, Range

\* A chain of one block.
LEMMA OneIsSeq ==
    ASSUME NEW e
    PROVE  IsSeq(<<e>>) /\ Len(<<e>>) = 1 /\ <<e>>[1] = e /\ Range(<<e>>) = {e}
  <1>1. <<e>> \in Seq({e}) /\ Len(<<e>>) = 1 /\ <<e>>[1] = e /\ DOMAIN <<e>> = {1}
    OBVIOUS
  <1> QED
    BY <1>1, SeqIsSeq DEF Range

\* Appending a block keeps those before it.
LEMMA AppendProps ==
    ASSUME NEW s, IsSeq(s), NEW e
    PROVE  /\ IsSeq(Append(s, e))
           /\ Len(Append(s, e)) = Len(s) + 1
           /\ \A i \in 1 .. Len(s) : Append(s, e)[i] = s[i]
           /\ Append(s, e)[Len(s) + 1] = e
           /\ Range(Append(s, e)) = Range(s) \cup {e}
  <1> DEFINE t == Append(s, e)
  <1>1. s \in Seq(Range(s) \cup {e})
    BY DEF IsSeq
  <1>2. /\ t \in Seq(Range(s) \cup {e})
        /\ Len(t) = Len(s) + 1 /\ Len(s) \in Nat
        /\ \A i \in 1 .. Len(s) : t[i] = s[i]
        /\ t[Len(s) + 1] = e
        /\ DOMAIN t = 1 .. Len(s) + 1 /\ DOMAIN s = 1 .. Len(s)
    BY <1>1
  <1> HIDE DEF t
  <1>3. IsSeq(t)
    BY <1>2, SeqIsSeq
  <1>4. Range(t) = Range(s) \cup {e}
    BY <1>2 DEF Range
  <1> QED
    BY <1>2, <1>3, <1>4 DEF t

\* Chains with the same blocks at the same heights are equal.
LEMMA EqualSeqs ==
    ASSUME NEW s, IsSeq(s), NEW t, IsSeq(t), Len(s) = Len(t),
           \A i \in 1 .. Len(s) : s[i] = t[i]
    PROVE  s = t
  <1>1. s = [i \in 1 .. Len(s) |-> s[i]] /\ t = [i \in 1 .. Len(t) |-> t[i]]
    BY DEF IsSeq
  <1>2. [i \in 1 .. Len(s) |-> s[i]] = [i \in 1 .. Len(t) |-> t[i]]
    OBVIOUS
  <1> QED
    BY <1>1, <1>2, Zenon

\* A prefix, element by element.
LEMMA PrefixProps ==
    ASSUME NEW s, IsSeq(s), NEW t, IsSeq(t)
    PROVE  IsPrefix(s, t) <=>
                Len(s) <= Len(t) /\ \A i \in 1 .. Len(s) : s[i] = t[i]
  <1>1. Len(s) \in Nat /\ Len(t) \in Nat
    BY SeqProps
  <1>2. Len(s) <= Len(t) =>
            /\ SubSeq(s, 1, Len(s)) = [i \in 1 .. Len(s) |-> s[i]]
            /\ SubSeq(t, 1, Len(s)) = [i \in 1 .. Len(s) |-> t[i]]
    BY <1>1
  <1> QED
    BY <1>1, <1>2 DEF IsPrefix

\* Sequences that agree up to k have the same beginning, and all of a
\* sequence is the sequence.
LEMMA SubSeqSame ==
    ASSUME NEW s, IsSeq(s), NEW t, IsSeq(t), NEW k \in Nat,
           k <= Len(s), k <= Len(t), \A i \in 1 .. k : s[i] = t[i]
    PROVE  SubSeq(s, 1, k) = SubSeq(t, 1, k)
  <1>1. /\ SubSeq(s, 1, k) = [i \in 1 .. k |-> s[i]]
        /\ SubSeq(t, 1, k) = [i \in 1 .. k |-> t[i]]
    OBVIOUS
  <1>2. [i \in 1 .. k |-> s[i]] = [i \in 1 .. k |-> t[i]]
    OBVIOUS
  <1> QED
    BY <1>1, <1>2, Zenon

\* All of a chain is the chain.
LEMMA SubSeqAll ==
    ASSUME NEW s, IsSeq(s)
    PROVE  SubSeq(s, 1, Len(s)) = s
  <1>1. SubSeq(s, 1, Len(s)) = [i \in 1 .. Len(s) |-> s[i]]
    BY SeqProps
  <1>2. s = [i \in 1 .. Len(s) |-> s[i]]
    BY DEF IsSeq
  <1> QED
    BY <1>1, <1>2, Zenon

-----------------------------------------------------------------------------
(* Run and Replay *)

TxFold == INSTANCE FoldTheorems WITH Op <- LAMBDA acc, tx : ApplyTransaction(tx, acc)
BlockFold == INSTANCE FoldTheorems WITH Op <- LAMBDA acc, b : Run(b.txs, acc)

\* AddBlock's loop over the transactions of a block is a fold.
LEMMA RunIsFold ==
    ASSUME NEW txs, NEW s
    PROVE  Run(txs, s) = TxFold!Fold(s, txs)
  BY DEF Run, TxFold!Fold, FoldLeft, TxFold!FoldLeft, MapThenFoldSet,
         TxFold!MapThenFoldSet, Max, TxFold!Max

\* The state after no transaction, and after one more.
LEMMA RunEmpty ==
    ASSUME NEW s
    PROVE  Run(<<>>, s) = s
  BY RunIsFold, TxFold!FoldEmpty

\* One transaction more is one ApplyTransaction more.
LEMMA RunNext ==
    ASSUME NEW p, IsSeq(p), NEW q, IsSeq(q), NEW s,
           Len(q) = Len(p) + 1, \A i \in 1 .. Len(p) : q[i] = p[i]
    PROVE  Run(q, s) = ApplyTransaction(q[Len(q)], Run(p, s))
  <1> DEFINE S == Range(p) \cup Range(q)
  <1>1. p \in Seq(S) /\ q \in Seq(S)
    BY DEF IsSeq
  <1>2. TxFold!Fold(s, q) = ApplyTransaction(q[Len(q)], TxFold!Fold(s, p))
    BY <1>1, TxFold!FoldAppend
  <1> QED
    BY <1>2, RunIsFold

\* Replaying a chain is a fold over its blocks.
LEMMA ReplayIsFold ==
    ASSUME NEW c, c # <<>>
    PROVE  Replay(c) = BlockFold!Fold(NewState(Allocations), c)
  BY DEF Replay, BlockFold!Fold, FoldLeft, BlockFold!FoldLeft, MapThenFoldSet,
         BlockFold!MapThenFoldSet, Max, BlockFold!Max

\* The world state of a chain with one more block.
LEMMA ReplayNext ==
    ASSUME NEW c, IsSeq(c), c # <<>>, NEW d, IsSeq(d),
           Len(d) = Len(c) + 1, \A i \in 1 .. Len(c) : d[i] = c[i]
    PROVE  Replay(d) = Run(d[Len(d)].txs, Replay(c))
  <1> DEFINE S == Range(c) \cup Range(d)
             s == NewState(Allocations)
  <1>1. c \in Seq(S) /\ d \in Seq(S) /\ d # <<>>
    BY SeqProps DEF IsSeq
  <1>2. BlockFold!Fold(s, d) = Run(d[Len(d)].txs, BlockFold!Fold(s, c))
    BY <1>1, BlockFold!FoldAppend
  <1> QED
    BY <1>1, <1>2, ReplayIsFold

\* A chain that only holds a block without transactions, as a genesis block.
LEMMA ReplayGenesis ==
    ASSUME NEW b, b.txs = <<>>
    PROVE  Replay(<<b>>) = NewState(Allocations)
  <1> DEFINE s == NewState(Allocations)
             S == {b}
  <1>1. <<>> \in Seq(S) /\ <<b>> \in Seq(S) /\ <<b>> # <<>>
        /\ Len(<<b>>) = Len(<<>>) + 1 /\ <<b>>[Len(<<b>>)] = b
        /\ \A i \in 1 .. Len(<<>>) : <<b>>[i] = <<>>[i]
    OBVIOUS
  <1>2. BlockFold!Fold(s, <<b>>) = Run(b.txs, BlockFold!Fold(s, <<>>))
    BY <1>1, BlockFold!FoldAppend
  <1>3. BlockFold!Fold(s, <<>>) = s
    BY BlockFold!FoldEmpty
  <1> QED
    BY <1>1, <1>2, <1>3, ReplayIsFold, RunEmpty

-----------------------------------------------------------------------------
(* What valid transactions and blocks do to the world state *)

\* r is sound, no nonce of s is above that of r, and the spends among the
\* first k of txs have nonces from those of s up to those of r.
UsesUp(s, txs, k, r) ==
    /\ r \in SoundState
    /\ \A a \in Account : s.nonces[a] <= r.nonces[a]
    /\ \A i \in 1 .. k : IsSpend(txs[i]) =>
            /\ s.nonces[txs[i].from] <= txs[i].nonce
            /\ txs[i].nonce < r.nonces[txs[i].from]

\* One transaction more.
LEMMA UsesUpNext ==
    ASSUME NEW s \in SoundState, NEW txs \in Seq(Tx), NEW k \in Nat, NEW r,
           k < Len(txs), UsesUp(s, txs, k, r), NEW j, j = k + 1,
           ValidateTransaction(txs[j], r)
    PROVE  UsesUp(s, txs, j, ApplyTransaction(txs[j], r))
  <1> DEFINE tx == txs[j]
             t == ApplyTransaction(tx, r)
  <1>1. tx \in Tx /\ r \in SoundState
    BY DEF UsesUp
  <1>2. /\ t \in SoundState
        /\ \A a \in Account : r.nonces[a] <= t.nonces[a]
        /\ IsSpend(tx) => tx.nonce = r.nonces[tx.from] /\ tx.nonce < t.nonces[tx.from]
    BY <1>1, ApplySound, NoncesGrow
  <1>3. /\ s.nonces \in [Account -> Nat] /\ r.nonces \in [Account -> Nat]
        /\ t.nonces \in [Account -> Nat]
    BY <1>1, <1>2 DEF SoundState, State
  <1>4. ASSUME NEW i \in 1 .. Len(txs)
        PROVE  txs[i].from \in Account /\ txs[i].nonce \in Int
    <2>1. txs[i] \in Tx
      OBVIOUS
    <2> QED
      BY <2>1 DEF Tx, Int64
  <1>5. tx = txs[j]
    OBVIOUS
  <1> HIDE DEF tx, t
  <1>6. \A a \in Account : s.nonces[a] <= t.nonces[a]
    BY <1>2, <1>3 DEF UsesUp
  <1>7. ASSUME NEW i \in 1 .. j, IsSpend(txs[i])
        PROVE  /\ s.nonces[txs[i].from] <= txs[i].nonce
               /\ txs[i].nonce < t.nonces[txs[i].from]
    <2>1. CASE i = j
      BY <2>1, <1>2, <1>3, <1>4, <1>5, <1>7 DEF UsesUp
    <2>2. CASE i # j
      <3>1. i \in 1 .. k /\ i \in 1 .. Len(txs)
        BY <2>2
      <3>2. /\ s.nonces[txs[i].from] <= txs[i].nonce
            /\ txs[i].nonce < r.nonces[txs[i].from]
            /\ r.nonces[txs[i].from] <= t.nonces[txs[i].from]
        BY <3>1, <1>2, <1>4, <1>7 DEF UsesUp
      <3> QED
        BY <3>1, <3>2, <1>3, <1>4
    <2> QED
      BY <2>1, <2>2
  <1>8. UsesUp(s, txs, j, t)
    BY <1>2, <1>6, <1>7 DEF UsesUp
  <1> QED
    BY <1>8 DEF t, tx

\* Transactions that are valid one after the other leave a sound state, in
\* which the nonces of their spends are used up.
LEMMA RunUsesUp ==
    ASSUME NEW s \in SoundState, NEW txs \in Seq(Tx), ValidRun(txs, s)
    PROVE  /\ \A k \in 0 .. Len(txs) : UsesUp(s, txs, k, Run(SubSeq(txs, 1, k), s))
           /\ UsesUp(s, txs, Len(txs), Run(txs, s))
  <1> DEFINE R(k) == Run(SubSeq(txs, 1, k), s)
             T == {k \in Nat : k <= Len(txs) => UsesUp(s, txs, k, R(k))}
  <1>1. 0 \in T
    <2>1. SubSeq(txs, 1, 0) = <<>>
      OBVIOUS
    <2>2. R(0) = s
      BY <2>1, RunEmpty
    <2>3. s.nonces \in [Account -> Nat]
      BY DEF SoundState, State
    <2>4. UsesUp(s, txs, 0, s)
      BY <2>3 DEF UsesUp
    <2> QED
      BY <2>2, <2>4
  <1>2. ASSUME NEW k \in Nat, k \in T
        PROVE  k + 1 \in T
    <2> SUFFICES ASSUME k < Len(txs) PROVE UsesUp(s, txs, k + 1, R(k + 1))
      OBVIOUS
    <2>1. PICK j : j = k + 1
      OBVIOUS
    <2>2. UsesUp(s, txs, k, R(k))
      BY <1>2
    <2>3. j \in 1 .. Len(txs) /\ j - 1 = k
      BY <2>1
    <2>4. ValidateTransaction(txs[j], R(k))
      BY <2>3 DEF ValidRun
    <2> DEFINE p == SubSeq(txs, 1, k)
               q == SubSeq(txs, 1, j)
    <2>5. /\ p \in Seq(Tx) /\ q \in Seq(Tx) /\ Len(p) = k /\ Len(q) = j
          /\ \A i \in 1 .. k : q[i] = p[i]
          /\ q[j] = txs[j]
      BY <2>1, <2>3
    <2>6. IsSeq(p) /\ IsSeq(q)
      BY <2>5, SeqIsSeq
    <2>7. Run(q, s) = ApplyTransaction(q[Len(q)], Run(p, s))
      <3> HIDE DEF p, q
      <3> QED
        BY <2>1, <2>5, <2>6, RunNext
    <2>8. R(j) = ApplyTransaction(txs[j], R(k))
      BY <2>5, <2>7
    <2> HIDE DEF R
    <2>9. UsesUp(s, txs, j, ApplyTransaction(txs[j], R(k)))
      BY <2>1, <2>2, <2>4, UsesUpNext
    <2> QED
      BY <2>1, <2>8, <2>9
  <1>3. \A k \in Nat : k \in T
    <2> HIDE DEF T
    <2> QED
      BY <1>1, <1>2, TxFold!CountUp
  <1>4. \A k \in 0 .. Len(txs) : UsesUp(s, txs, k, R(k))
    BY <1>3
  <1>5. SubSeq(txs, 1, Len(txs)) = txs /\ Len(txs) \in 0 .. Len(txs)
    OBVIOUS
  <1> QED
    BY <1>4, <1>5

\* A chain of which every block is valid on the state its predecessors left.
ValidBlocks(c) ==
    /\ IsSeq(c) /\ c # <<>> /\ c[1].txs = <<>>
    /\ \A i \in 2 .. Len(c) :
        c[i].txs \in Seq(Tx) /\ ValidRun(c[i].txs, Replay(SubSeq(c, 1, i - 1)))

\* The initial allocations make a sound state.
LEMMA NewStateSound == NewState(Allocations) \in SoundState
  <1>1. Allocations \in [Account -> Int64]
    BY BlocksAssumption, LedgerAssumption DEF Int64
  <1> QED
    BY <1>1 DEF NewState, SoundState, State, NoLock

\* The state after the first k blocks of c.
After(c, k) == Replay(SubSeq(c, 1, k))

\* After the genesis block the world has the genesis allocations.
LEMMA AfterFirst ==
    ASSUME NEW c, ValidBlocks(c)
    PROVE  After(c, 1) = NewState(Allocations)
  <1>1. IsSeq(c) /\ Len(c) \in Nat \ {0}
    BY SeqProps DEF ValidBlocks
  <1>2. <<c[1]>> = SubSeq(c, 1, 1)
    BY <1>1
  <1> QED
    BY <1>2, ReplayGenesis DEF ValidBlocks, After

\* The next block runs on the world that those before it left.
LEMMA AfterNext ==
    ASSUME NEW c, ValidBlocks(c), NEW k \in Nat \ {0}, NEW j, j = k + 1, j <= Len(c)
    PROVE  After(c, j) = Run(c[j].txs, After(c, k))
  <1>1. IsSeq(c) /\ Len(c) \in Nat \ {0}
    BY SeqProps DEF ValidBlocks
  <1> DEFINE p == SubSeq(c, 1, k)
             q == SubSeq(c, 1, j)
  <1>2. c \in Seq(Range(c))
    BY <1>1 DEF IsSeq
  <1>3. /\ p \in Seq(Range(c)) /\ q \in Seq(Range(c)) /\ Len(p) = k /\ Len(q) = j
        /\ \A i \in 1 .. k : q[i] = p[i]
        /\ q[j] = c[j]
    BY <1>1, <1>2
  <1>4. IsSeq(p) /\ IsSeq(q) /\ p # <<>>
    BY <1>3, SeqIsSeq, EmptyIsSeq
  <1>5. Replay(q) = Run(q[Len(q)].txs, Replay(p))
    <2> HIDE DEF p, q
    <2> QED
      BY <1>3, <1>4, ReplayNext
  <1> QED
    BY <1>3, <1>5 DEF After

\* The state after every block is sound, and has used up the nonces of the
\* spends in the chain so far.
SpendsUsedUp(c, k) ==
    /\ After(c, k) \in SoundState
    /\ \A i \in 2 .. k : \A l \in 1 .. Len(c[i].txs) :
        IsSpend(c[i].txs[l]) => c[i].txs[l].nonce < After(c, k).nonces[c[i].txs[l].from]

\* If up to a height no block holds a spend whose nonce its sender still
\* has, then neither up to the next one: the block there uses up the nonces
\* of its own spends, and no nonce comes back.
LEMMA SpendsUsedUpNext ==
    ASSUME NEW c, ValidBlocks(c), NEW k \in Nat \ {0}, NEW j, j = k + 1, j <= Len(c),
           SpendsUsedUp(c, k)
    PROVE  /\ SpendsUsedUp(c, j)
           /\ UsesUp(After(c, k), c[j].txs, Len(c[j].txs), After(c, j))
  <1> DEFINE txs == c[j].txs
             s == After(c, k)
             r == After(c, j)
  <1>1. j \in 2 .. Len(c) /\ j - 1 = k /\ Len(c) \in Nat
    BY SeqProps DEF ValidBlocks
  <1>2. txs \in Seq(Tx) /\ ValidRun(txs, s) /\ s \in SoundState
    BY <1>1 DEF ValidBlocks, After, SpendsUsedUp
  <1>3. r = Run(txs, s)
    BY AfterNext
  <1>4. UsesUp(s, txs, Len(txs), r)
    BY <1>2, <1>3, RunUsesUp
  <1>5. /\ r \in SoundState
        /\ s.nonces \in [Account -> Nat] /\ r.nonces \in [Account -> Nat]
        /\ \A a \in Account : s.nonces[a] <= r.nonces[a]
    BY <1>2, <1>4 DEF UsesUp, SoundState, State
  <1>6. ASSUME NEW i \in 2 .. j, NEW l \in 1 .. Len(c[i].txs), IsSpend(c[i].txs[l])
        PROVE  c[i].txs[l].nonce < r.nonces[c[i].txs[l].from]
    <2>1. CASE i = j
      BY <2>1, <1>4, <1>6 DEF UsesUp
    <2>2. CASE i # j
      <3>1. i \in 2 .. k /\ i \in 2 .. Len(c)
        BY <1>1, <2>2
      <3>2. c[i].txs \in Seq(Tx)
        BY <3>1 DEF ValidBlocks
      <3>3. c[i].txs[l] \in Tx
        BY <3>2
      <3>4. c[i].txs[l].from \in Account /\ c[i].txs[l].nonce \in Int
        BY <3>3 DEF Tx, Int64
      <3>5. c[i].txs[l].nonce < s.nonces[c[i].txs[l].from]
        BY <3>1, <1>6 DEF SpendsUsedUp
      <3> QED
        BY <3>4, <3>5, <1>5
    <2> QED
      BY <2>1, <2>2
  <1> QED
    BY <1>4, <1>5, <1>6 DEF SpendsUsedUp

\* At every height, the spends of the blocks so far have nonces that their
\* senders have used up.
LEMMA ChainUsesUp ==
    ASSUME NEW c, ValidBlocks(c)
    PROVE  \A k \in 1 .. Len(c) : SpendsUsedUp(c, k)
  <1> DEFINE T == {k \in Nat : k + 1 <= Len(c) => SpendsUsedUp(c, k + 1)}
  <1>1. 0 \in T
    <2>1. SpendsUsedUp(c, 1)
      BY AfterFirst, NewStateSound DEF SpendsUsedUp
    <2> QED
      BY <2>1
  <1>2. ASSUME NEW k \in Nat, k \in T
        PROVE  k + 1 \in T
    <2> SUFFICES ASSUME k + 2 <= Len(c) PROVE SpendsUsedUp(c, k + 2)
      OBVIOUS
    <2>1. PICK i \in Nat \ {0} : i = k + 1
      OBVIOUS
    <2>2. PICK j : j = i + 1
      OBVIOUS
    <2>3. Len(c) \in Nat
      BY SeqProps DEF ValidBlocks
    <2>4. SpendsUsedUp(c, i) /\ j <= Len(c) /\ j = k + 2
      BY <1>2, <2>1, <2>2, <2>3
    <2>5. SpendsUsedUp(c, j)
      BY <2>2, <2>4, SpendsUsedUpNext
    <2> QED
      BY <2>4, <2>5
  <1>3. \A k \in Nat : k \in T
    <2> HIDE DEF T
    <2> QED
      BY <1>1, <1>2, TxFold!CountUp
  <1>4. ASSUME NEW k \in 1 .. Len(c) PROVE SpendsUsedUp(c, k)
    <2>1. Len(c) \in Nat
      BY SeqProps DEF ValidBlocks
    <2>2. k - 1 \in Nat /\ (k - 1) + 1 = k /\ k - 1 \in T
      BY <2>1, <1>3
    <2> QED
      BY <2>1, <2>2
  <1> QED
    BY <1>4

\* No spend is in two blocks of a chain.
LEMMA SpendInOneBlock ==
    ASSUME NEW c, ValidBlocks(c), NEW tx, IsSpend(tx),
           NEW i \in 2 .. Len(c), NEW j \in 2 .. Len(c), i < j,
           NEW l \in 1 .. Len(c[i].txs), tx = c[i].txs[l],
           NEW m \in 1 .. Len(c[j].txs), tx = c[j].txs[m]
    PROVE  FALSE
  <1>1. Len(c) \in Nat
    BY SeqProps DEF ValidBlocks
  <1>2. PICK k \in Nat \ {0} : j = k + 1
    BY <1>1
  <1>3. k \in 1 .. Len(c) /\ i \in 2 .. k /\ j <= Len(c)
    BY <1>1, <1>2
  <1>4. SpendsUsedUp(c, k)
    BY <1>3, ChainUsesUp
  <1>5. UsesUp(After(c, k), c[j].txs, Len(c[j].txs), After(c, j))
    BY <1>2, <1>3, <1>4, SpendsUsedUpNext
  <1>6. tx.nonce < After(c, k).nonces[tx.from]
    BY <1>3, <1>4 DEF SpendsUsedUp
  <1>7. After(c, k).nonces[tx.from] <= tx.nonce
    BY <1>5 DEF UsesUp
  <1>8. c[j].txs \in Seq(Tx)
    BY DEF ValidBlocks
  <1>9. tx \in Tx
    BY <1>8
  <1>10. tx.nonce \in Int /\ After(c, k).nonces[tx.from] \in Nat
    BY <1>4, <1>9 DEF SpendsUsedUp, SoundState, State, Tx, Int64
  <1> QED
    BY <1>6, <1>7, <1>10

-----------------------------------------------------------------------------
(* Stores *)

\* Storing a state.
LEMMA StoreStateOK ==
    ASSUME NEW d, DOMAIN d = {"blocks", "height", "state"}, d.state \in SoundState,
           NEW s \in SoundState
    PROVE  /\ DOMAIN StoreState(d, s) = {"blocks", "height", "state"}
           /\ StoreState(d, s).blocks = d.blocks /\ StoreState(d, s).height = d.height
           /\ StoreState(d, s).state \in SoundState
  <1> DEFINE hasBalance(a) == s.balances[a] # 0 \/ s.nonces[a] # 0
             bal == [a \in Account |-> IF hasBalance(a) THEN s.balances[a]
                                       ELSE d.state.balances[a]]
             lck == [c \in ContractId |-> IF s.locked[c] # NoLock THEN s.locked[c]
                                          ELSE d.state.locked[c]]
             non == [a \in Account |-> IF s.nonces[a] # 0 THEN s.nonces[a]
                                       ELSE d.state.nonces[a]]
             st == [balances |-> bal, locked |-> lck, nonces |-> non]
  <1>1. s \in State /\ d.state \in State
    BY DEF SoundState
  <1>2. bal \in [Account -> Int64] /\ non \in [Account -> Nat]
    BY <1>1 DEF State
  <1>3. lck \in [ContractId -> EscrowLock \cup {NoLock}]
        /\ \A c \in ContractId : lck[c].amount >= 0
    BY <1>1 DEF State, SoundState
  <1>4. st \in SoundState
    BY <1>2, <1>3 DEF SoundState, State
  <1>5. StoreState(d, s) = [d EXCEPT !.state = st]
    BY DEF StoreState
  <1> HIDE DEF st
  <1> QED
    BY <1>4, <1>5

\* What LoadState returns.
LEMMA LoadedState ==
    ASSUME NEW d, d.state \in SoundState
    PROVE  LoadState(d) \in SoundState
  <1>1. PICK s \in SoundState : s = d.state
    OBVIOUS
  <1>2. [s.balances EXCEPT ![NoAddr] = 0] \in [Account -> Int64]
    <2>1. 0 \in Int64
      BY LedgerAssumption DEF Int64
    <2>2. s.balances \in [Account -> Int64]
      BY DEF SoundState, State
    <2> QED
      BY <2>1, <2>2
  <1>3. LoadState(d) = [s EXCEPT !.balances = [s.balances EXCEPT ![NoAddr] = 0]]
    BY <1>1 DEF LoadState
  <1> QED
    BY <1>2, <1>3 DEF SoundState, State

\* What LoadAllBlocks returns, block by block.
LEMMA LoadedChain ==
    ASSUME NEW d, d.height \in -1 .. MaxHeight
    PROVE  /\ IsSeq(LoadAllBlocks(d)) /\ Len(LoadAllBlocks(d)) = d.height + 1
           /\ \A i \in 1 .. d.height + 1 : LoadAllBlocks(d)[i] = d.blocks[i - 1]
  <1> DEFINE S == {d.blocks[h] : h \in 0 .. d.height}
             c == LoadAllBlocks(d)
  <1>1. d.height \in Int /\ d.height + 1 \in Nat
    BY StoreAssumption
  <1>2. \A i \in 1 .. d.height + 1 : i - 1 \in 0 .. d.height
    BY <1>1
  <1>3. c = [i \in 1 .. d.height + 1 |-> d.blocks[i - 1]]
    BY DEF LoadAllBlocks
  <1>4. c \in [1 .. d.height + 1 -> S]
    BY <1>2, <1>3
  <1>5. c \in Seq(S) /\ Len(c) = d.height + 1
    BY <1>1, <1>4
  <1> QED
    BY <1>3, <1>5, SeqIsSeq
=============================================================================
