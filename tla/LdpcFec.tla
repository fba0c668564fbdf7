------------------------------- MODULE LdpcFec -------------------------------
(***************************************************************************)
(* Forward error correction in the tunnel (tunnel/ldpc): the sender makes     *)
(* parity symbols of a batch with a random sparse matrix, the receiver        *)
(* recovers lost symbols by substitution.  The content of a symbol is the set  *)
(* of source symbols whose bytes are added in it (XOR), so that what is        *)
(* decoded can be told from what was sent whatever the bytes are.              *)
(* Both ends draw the same matrix, as their seed is the same; ldpc_rand is     *)
(* any choice.                                                               *)
(***************************************************************************)
EXTENDS Integers, FiniteSets, SequencesExt

CONSTANTS
  Shapes,           \* numbers of source and parity symbols
  LeftDegree,       \* ones in the column of a source symbol
  NbSymbolsPerPkt,  \* symbols in a packet
  Draws             \* what ldpc_rand gives when parity symbols are shuffled

VARIABLES
  code,             \* what both ends make of the shape and the seed
  session,          \* the decoder (LDPCFecSession, ldpc_dec_wrapper)
  result,           \* what processPacket returned: 0, 1 or -1
  given             \* history: symbols that came in a packet

vars == <<code, session, result, given>>

Null == {-1}        \* no buffer; the content of a symbol has no such member

Rows == 0 .. code.nbParity - 1
Sources == 0 .. code.nbSource - 1
Symbols == 0 .. code.nbSource + code.nbParity - 1

\* AddToSymbol
Plus(to, from) == (to \ from) \cup (from \ to)

IsSource(s) == s < code.nbSource
GetMatrixCol(s) == IF IsSource(s) THEN s + code.nbParity ELSE s - code.nbSource
GetSymbolSeqno(c) == IF c < code.nbParity THEN c + code.nbSource ELSE c - code.nbParity

-----------------------------------------------------------------------------
(* The matrix: a set of pairs of a row and a column.                          *)

Find(ones, r, c) == <<r, c>> \in ones
Insert(ones, r, c) == ones \cup {<<r, c>>}
Delete(ones, r, c) == ones \ {<<r, c>>}

\* One more one in column c, in a row of those that are left in the list u, else anywhere.
OneMore(m, c, rows) ==
  LET Free == { r \in rows : ~Find(m.ones, r, c) }
      Listed == { r \in Free : m.left[r] > 0 }
  IN IF Listed # {}
     THEN { [ones |-> Insert(m.ones, r, c), left |-> [m.left EXCEPT ![r] = @ - 1]] : r \in Listed }
     ELSE { [m EXCEPT !.ones = Insert(@, r, c)] : r \in Free }

\* LeftDegree ones in each column of a source symbol, spread evenly over the rows.
EvenBoth(nbSource, rows) ==
  LET columns == [i \in 1 .. LeftDegree * nbSource |-> Cardinality(rows) + (i - 1) \div LeftDegree]
      u == [r \in rows |-> Cardinality({ i \in 0 .. Len(columns) - 1 : i % Cardinality(rows) = r })]
  IN { m.ones : m \in FoldLeft(LAMBDA ms, c : UNION { OneMore(m, c, rows) : m \in ms },
                               { [ones |-> {}, left |-> u] }, columns) }

\* Every row has two ones at least.
TwoInRow(ones, r, columns) ==
  LET used == { c \in columns : Find(ones, r, c) }
      lack == IF Cardinality(used) >= 2 THEN 0 ELSE 2 - Cardinality(used)
  IN { ones \cup ({r} \X more) : more \in { s \in SUBSET (columns \ used) : Cardinality(s) = lack } }

\* The columns that a row of the triangle may get below its staircase.
RECURSIVE Descents(_, _)
Descents(j, l) ==
  IF l >= j THEN {{}} ELSE UNION { { {i} \cup d : d \in Descents(i, l + 1) } : i \in 0 .. j - 1 }

Triangles(rows) ==
  LET Steps == { <<i, j>> \in rows \X rows : j \in {i, i - 1} }
  IN FoldSet(LAMBDA r, ts : { t \cup ({r} \X d) : t \in ts, d \in Descents(r - 1, 0) },
             {Steps}, rows \ {0})

\* CreatePchkMatrix, for TypeTRIANGLE and Evenboth
Matrices(shape) ==
  LET rows == 0 .. shape.nbParity - 1
      columns == shape.nbParity .. shape.nbParity + shape.nbSource - 1
      Filled == FoldSet(LAMBDA r, ms : UNION { TwoInRow(m, r, columns) : m \in ms },
                        EvenBoth(shape.nbSource, rows), rows)
  IN { m \cup t : m \in Filled, t \in Triangles(rows) }

\* InitScheme: the order in which parity symbols are sent, and its inverse.
Tables(draws) ==
  LET identity == [i \in DOMAIN draws |-> i]
      Swap(t, i) ==
        LET j == draws[i]
            order == [t.ESItoTxseq EXCEPT ![i] = t.ESItoTxseq[j], ![j] = t.ESItoTxseq[i]]
        IN [ESItoTxseq |-> order,
            txseqToESI |-> [[t.txseqToESI EXCEPT ![order[i]] = i] EXCEPT ![order[j]] = j]]
  IN FoldLeft(Swap, [ESItoTxseq |-> identity, txseqToESI |-> identity],
              [i \in 1 .. Cardinality(DOMAIN draws) |-> i - 1])

-----------------------------------------------------------------------------
(* The sender                                                               *)

\* BuildParitySymbol, in the order of encodeData: the sum of the rest of its row.
Parity[r \in Nat] ==
  FoldSet(LAMBDA c, sum : Plus(sum, IF c < code.nbParity THEN Parity[c] ELSE {GetSymbolSeqno(c)}),
          {}, { e[2] : e \in { o \in code.ones : o[1] = r } } \ {r})

Content(s) == IF IsSource(s) THEN {s} ELSE Parity[s - code.nbSource]

PktsFor(n) == (n + NbSymbolsPerPkt - 1) \div NbSymbolsPerPkt
NbPkts == PktsFor(code.nbSource) + PktsFor(code.nbParity)

\* BuildPkt: the symbols of a packet; what is left of the last one is filled from the front.
BuildPkt(p) ==
  LET first == p * NbSymbolsPerPkt
      parity == first - PktsFor(code.nbSource) * NbSymbolsPerPkt
  IN [j \in 1 .. NbSymbolsPerPkt |->
        IF NbSymbolsPerPkt = 1 THEN p
        ELSE IF p < PktsFor(code.nbSource) THEN (first + j - 1) % code.nbSource
        ELSE code.nbSource + code.tables.txseqToESI[(parity + j - 1) % code.nbParity]]

-----------------------------------------------------------------------------
(* The receiver                                                             *)

Column(d, s) == { e[1] : e \in { o \in d.ones : o[2] = GetMatrixCol(s) } }
Row(d, r) == { e[2] : e \in { o \in d.ones : o[1] = r } }
Complete(d) == \A s \in Sources : d.canvas[s] # Null

\* DecomposePkt: the numbers of the symbols, from that of the first.
DecomposePkt(esi) ==
  [j \in 1 .. NbSymbolsPerPkt |->
     IF NbSymbolsPerPkt = 1 THEN esi
     ELSE IF IsSource(esi) THEN (esi + j - 1) % code.nbSource
     ELSE code.nbSource + code.tables.txseqToESI[
            (j - 1 + code.tables.ESItoTxseq[esi - code.nbSource]) % code.nbParity]]

\* SymbolAlreadyKnown, as the first step of a decoding step
AlreadyKnown(d, s) == Column(d, s) = {} \/ d.canvas[s] # Null

\* m_triangleWithSmallFECRatio, which divides integers
SmallRatio == (code.nbSource + code.nbParity) \div code.nbSource < 2

\* Whether the symbol is kept: a parity symbol is if two new sums or more would hold it.
Keep(d, s) ==
  \/ IsSource(s)
  \/ /\ ~SmallRatio
     /\ Cardinality({ r \in Column(d, s) : d.sums[r] = Null /\ d.unknown[r] > 2 }) > 1

\* A symbol that is at hand is added to the sum of row r, and its entry goes; a parity
\* symbol without entries is freed.
Absorb(d, r, c) ==
  LET s == GetSymbolSeqno(c)
      rest == [d EXCEPT !.sums[r] = Plus(@, d.canvas[s]), !.ones = Delete(@, r, c)]
  IN IF ~IsSource(s) /\ Column(rest, s) = {} THEN [rest EXCEPT !.canvas[s] = Null] ELSE rest

\* The value of s goes into equation r (step 2).
Inject(d, r, s, value, keep) ==
  LET counted == [d EXCEPT !.unknown[r] = @ - 1]
      last == counted.unknown[r] = 1
      started == IF d.sums[r] = Null /\ (~keep \/ last)
                 THEN [counted EXCEPT !.sums[r] = {}] ELSE counted
      added == [started EXCEPT
                  !.sums[r] = IF Cardinality(Row(d, r)) > 1 THEN Plus(@, value) ELSE @,
                  !.ones = Delete(@, r, GetMatrixCol(s))]
      AtHand == { c \in Row(added, r) : d.canvas[GetSymbolSeqno(c)] # Null }
  IN IF started.sums[r] = Null THEN started
     ELSE IF last \/ (~keep /\ ~SmallRatio)
          THEN FoldSet(LAMBDA c, e : Absorb(e, r, c), added, AtHand)
          ELSE added

\* DecodingStepWithSymbol: inject, then solve the equations with one symbol left, the last first.
RECURSIVE DecodingStepWithSymbol(_, _, _)
DecodingStepWithSymbol(d, s, value) ==
  LET keep == Keep(d, s)
      stored == IF keep THEN [d EXCEPT !.canvas[s] = value] ELSE d
      rows == SetToSortSeq(Column(d, s), <)
      injected == FoldLeft(LAMBDA e, r : Inject(e, r, s, value, keep), stored, rows)
      CheckOfDeg1 == SelectSeq(rows, LAMBDA r : Cardinality(Row(injected, r)) = 1)
      Solve(e, r) ==
        IF Complete(e) \/ Cardinality(Row(e, r)) # 1 THEN e
        ELSE LET col == CHOOSE col \in Row(e, r) : TRUE
                 solved == [e EXCEPT !.sums[r] = Null, !.ones = Delete(@, r, col)]
             IN DecodingStepWithSymbol(solved, GetSymbolSeqno(col), e.sums[r])
  IN IF AlreadyKnown(d, s) THEN d
     ELSE IF IsSource(s) /\ Complete(stored) THEN stored
     ELSE FoldLeft(Solve, injected, Reverse(CheckOfDeg1))

\* DecodingStepWithPkt
DecodingStepWithPkt(d, esi, contents) ==
  FoldLeft(LAMBDA e, j : IF j > 1 /\ Complete(e) THEN e
                         ELSE DecodingStepWithSymbol(e, DecomposePkt(esi)[j], contents[j]),
           d, [j \in 1 .. NbSymbolsPerPkt |-> j])

\* InitSession, as a decoder
NewSession(c) ==
  [ ones |-> c.ones,
    canvas |-> [s \in 0 .. c.nbSource + c.nbParity - 1 |-> Null],
    sums |-> [r \in 0 .. c.nbParity - 1 |-> Null],
    unknown |-> [r \in 0 .. c.nbParity - 1 |-> Cardinality({ e \in c.ones : e[1] = r })],
    packetNum |-> 0 ]

Init ==
  /\ \E shape \in Shapes : \E ones \in Matrices(shape) :
     \E draws \in { ds \in Draws : DOMAIN ds = 0 .. shape.nbParity - 1 } :
       code = [nbSource |-> shape.nbSource, nbParity |-> shape.nbParity, ones |-> ones,
               tables |-> Tables(draws)]
  /\ session = NewSession(code)
  /\ result = 0
  /\ given = {}

\* What processPacket returns once n packets have come: done, given up or neither.
ProcessPacket(d, n) ==
  IF n >= PktsFor(code.nbSource) /\ Complete(d) THEN 1 ELSE IF n >= NbPkts THEN -1 ELSE 0

\* A fragment arrives, for the first time or again (on_udp_data).  It ends with the first
\* result that is not 0; getObject then copies the source symbols.
Receive(p) ==
  /\ result = 0
  /\ LET symbols == BuildPkt(p)
         decoded == DecodingStepWithPkt(session, Head(symbols),
                                        [j \in DOMAIN symbols |-> Content(symbols[j])])
     IN /\ session' = [decoded EXCEPT !.packetNum = @ + 1]
        /\ result' = ProcessPacket(decoded, session'.packetNum)
        /\ given' = given \cup Range(symbols)
  /\ UNCHANGED code

\* The sender sends each packet once; a packet that is lost never arrives.
Sent == 0 .. NbPkts - 1

Next == \E p \in Sent : Receive(p)

-----------------------------------------------------------------------------
(* Properties                                                               *)

\* What substitution can find, by its definition: the least set with the given symbols and,
\* of each equation that lacks one symbol, that symbol.
Derivable ==
  LET Equation(r) == { GetSymbolSeqno(e[2]) : e \in { o \in code.ones : o[1] = r } }
      Closed(known) == \A r \in Rows : Cardinality(Equation(r) \ known) # 1
  IN CHOOSE known \in SUBSET Symbols :
       /\ given \subseteq known /\ Closed(known)
       /\ \A less \in SUBSET known : given \subseteq less /\ Closed(less) => less = known

\* The decoder finds what substitution can find and nothing else, whatever packets arrive in
\* whatever order and how often, and what it finds is what was sent.  So it gives up with
\* every packet counted only if some came twice (ldpc_fec_iterative_decoding.cpp).
Recovers ==
  /\ result = 1 => Complete(session)
  /\ \A s \in Sources : session.canvas[s] \in {Null, {s}}
  /\ \/ Complete(session)
     \/ { s \in Sources : session.canvas[s] # Null } = Derivable \cap Sources
=============================================================================
