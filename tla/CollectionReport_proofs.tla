----------------------- MODULE CollectionReport_proofs -----------------------
(***************************************************************************)
(* For every table and every limit, whatever the driver of the printer     *)
(* refuses and whatever WriteText seems to return: a strip is in order and *)
(* lacks only what was refused, its total is that of all the rows, and the *)
(* reports of all periods add up to the same.                              *)
(***************************************************************************)
EXTENDS CollectionReport, SumTheorems

AnyText == [part : Parts, n : Int]

\* The rows were read in the order of the table.
RowsInOrder ==
    \A a, b \in DOMAIN allTransactions : a < b => allTransactions[a] < allTransactions[b]

\* The rows or texts whose turn is over.
Done == IF pc = "write" /\ part \in {"row", "text"} THEN i - 1 ELSE i

\* The text has had its turn.
Past(t) ==
    \/ /\ part \in {"row", "total"} \/ (part = "title" /\ pc \in {"status", "noPaper"})
       /\ t = Text("title", 0)
    \/ part \in {"row", "total"} /\ \E j \in 1..Done : t = Text("row", allTransactions[j])
    \/ part = "total" /\ pc # "write" /\ t = Text("total", parsedNetAmt)
    \/ part = "text" /\ \E n \in 1..Done : t = Text("text", n)

OnStrip(t) == \E x \in DOMAIN strip : strip[x] = t

\* The text may be on the strip although it was refused, or be there twice.
MayRepeat(t) == asked /\ t.part \in {"title", "total"}

\* What has had its turn was printed or refused, and nothing else was.
StripOK ==
    /\ \A x \in DOMAIN strip : Past(strip[x])
    /\ \A t \in refused : Past(t)
    /\ \A t : Past(t) => t \in refused \/ OnStrip(t)
    /\ \A x \in DOMAIN strip :
          MayRepeat(strip[x]) \/ (strip[x] \notin refused /\ \A y \in DOMAIN strip : strip[y] = strip[x] => y = x)

\* Where the program is goes with what it prints.
PlaceOK ==
    /\ pc \in {"menu", "ask", "check", "missing"} => strip = <<>> /\ refused = {} /\ part = "title"
    /\ pc \in {"check", "missing"} => kind \in Fixed
    /\ pc \in {"write", "status", "noPaper", "feed"} => (kind \in Fixed <=> part = "text")
    /\ pc = "noPaper" => asked
    /\ pc = "feed" => part = "total" \/ (part = "text" /\ i = Texts(kind))
    /\ part = "title" => i = 0

IInv == TypeOK /\ PlaceOK /\ RowsInOrder /\ StripOK /\ StripInOrder

-----------------------------------------------------------------------------
\* A strip is in order if what is added may stand after all of it.
LEMMA AppendInOrder ==
    ASSUME strip \in Seq(AnyText), StripInOrder, NEW e \in AnyText, strip' = Append(strip, e),
           \A x \in DOMAIN strip : Before(strip[x], e)
    PROVE  StripInOrder'
<1>1. /\ Len(strip) \in Nat /\ DOMAIN strip = 1..Len(strip) /\ DOMAIN strip' = 1..(Len(strip) + 1)
      /\ \A x \in DOMAIN strip : strip'[x] = strip[x]
      /\ strip'[Len(strip) + 1] = e
  OBVIOUS
<1>2. \A x, y \in DOMAIN strip : x < y => Before(strip[x], strip[y])
  BY DEF StripInOrder
<1>3. ASSUME NEW x \in DOMAIN strip', NEW y \in DOMAIN strip', x < y
      PROVE  Before(strip'[x], strip'[y])
  <2>1. x \in DOMAIN strip
    BY <1>1, <1>3
  <2>2. CASE y \in DOMAIN strip
    BY <1>1, <1>2, <1>3, <2>1, <2>2
  <2>3. CASE y = Len(strip) + 1
    BY <1>1, <2>1, <2>3
  <2> QED BY <1>1, <2>2, <2>3
<1> QED BY <1>3 DEF StripInOrder

\* The rows that are read are rows of the table.
LEMMA ReadType ==
    ASSUME TypeOK, NEW k, NEW x, NEW s \in InOrder(Read(k, x))
    PROVE  s \in Seq(DOMAIN trans) /\ \A a, b \in DOMAIN s : a < b => s[a] < s[b]
<1>1. Read(k, x) \subseteq DOMAIN trans
  BY DEF Read, FirstOf, Matching
<1>2. DOMAIN trans = 1..Len(trans) /\ Len(trans) \in Nat
  BY TablesAssumption DEF TypeOK
<1>3. IsFiniteSet(Read(k, x))
  <2>1. IsFiniteSet(1..Len(trans))
    BY <1>2, FS_Interval
  <2>2. Read(k, x) \subseteq 1..Len(trans)
    BY <1>1, <1>2, Zenon
  <2> QED BY <2>1, <2>2, FS_Subset, Zenon
<1>4. Cardinality(Read(k, x)) \in Nat
  BY <1>3, FS_CardinalityType
<1>5. s \in [1..Cardinality(Read(k, x)) -> Read(k, x)] /\ \A a, b \in DOMAIN s : a < b => s[a] < s[b]
  BY DEF InOrder
<1> HIDE DEF Read
<1> QED BY <1>1, <1>4, <1>5

\* A row's number and its amount.
LEMMA RowType ==
    ASSUME TypeOK, NEW j \in DOMAIN allTransactions
    PROVE  allTransactions[j] \in Int /\ trans[allTransactions[j]].Net_Amt \in Int
<1> DEFINE R == [Date_Time : Seq(Nat), Cust_ID : Seq(Nat), Net_Amt : Int]
<1>1. allTransactions \in Seq(DOMAIN trans) /\ trans \in Seq(R)
  BY TablesAssumption DEF TypeOK
<1>2. \A r \in R : r.Net_Amt \in Int
  OBVIOUS
<1> HIDE DEF R
<1>3. allTransactions[j] \in DOMAIN trans
  BY <1>1
<1>4. allTransactions[j] \in Int /\ trans[allTransactions[j]] \in R
  BY <1>1, <1>3
<1> QED BY <1>2, <1>4

\* The text whose turn it is.
LEMMA CurrentType ==
    ASSUME TypeOK
    PROVE  Current \in AnyText /\ Current.part = part
<1>1. part \in Parts /\ i \in Int /\ parsedNetAmt \in Int
  BY DEF TypeOK, Texts
<1>2. part = "row" => allTransactions[i] \in Int
  <2>1. part = "row" => i \in DOMAIN allTransactions
    BY DEF TypeOK
  <2> QED BY <2>1, RowType
<1> QED BY <1>1, <1>2 DEF Current, Text, AnyText, Parts

\* Before a text is sent for the first time it has not had its turn.
LEMMA CurrentIsNew ==
    ASSUME TypeOK, RowsInOrder, pc = "write"
    PROVE  ~Past(Current)
<1>1. CASE part = "title"
  BY <1>1 DEF Past
<1>2. CASE part = "row"
  <2>1. i \in DOMAIN allTransactions /\ Done = i - 1
    BY <1>2 DEF TypeOK, Done
  <2>2. ASSUME NEW j \in 1..Done PROVE allTransactions[j] # allTransactions[i]
    <3>1. j \in DOMAIN allTransactions /\ j < i
      BY <2>1 DEF TypeOK
    <3>2. allTransactions[j] < allTransactions[i] /\ allTransactions[j] \in Int /\ allTransactions[i] \in Int
      BY <2>1, <3>1, RowType DEF RowsInOrder
    <3> QED BY <3>2
  <2> QED BY <1>2, <2>2 DEF Past, Current, Text
<1>3. CASE part = "total"
  BY <1>3 DEF Past, Current, Text
<1>4. CASE part = "text"
  <2>1. i \in Int /\ Done = i - 1
    BY <1>4 DEF TypeOK, Done, Texts
  <2>2. \A n \in 1..Done : n # i
    BY <2>1
  <2>3. Current = Text("text", i)
    BY <1>4 DEF Current
  <2> QED BY <1>4, <2>2, <2>3 DEF Past, Text
<1> QED BY <1>1, <1>2, <1>3, <1>4 DEF TypeOK, Parts

\* What has had its turn may stand before the text whose turn it is.
LEMMA PastIsBefore ==
    ASSUME TypeOK, RowsInOrder, NEW t, Past(t),
           pc = "write" \/ part \in {"title", "total"}
    PROVE  Before(t, Current)
<1>1. CASE t = Text("title", 0)
  BY <1>1 DEF Before, Text
<1>2. ASSUME NEW j \in 1..Done, part \in {"row", "total"}, t = Text("row", allTransactions[j])
      PROVE  Before(t, Current)
  <2>1. CASE part = "total"
    BY <1>2, <2>1 DEF Before, Current, Text
  <2>2. CASE part = "row"
    <3>1. i \in DOMAIN allTransactions /\ Done = i - 1
      BY <2>2 DEF TypeOK, Done
    <3>2. j \in DOMAIN allTransactions /\ j < i
      BY <3>1 DEF TypeOK
    <3>3. allTransactions[j] < allTransactions[i]
      BY <3>1, <3>2 DEF RowsInOrder
    <3> QED BY <1>2, <2>2, <3>3 DEF Before, Current, Text
  <2> QED BY <1>2, <2>1, <2>2
<1>3. CASE part = "total" /\ t = Text("total", parsedNetAmt)
  BY <1>3 DEF Before, Current, Text
<1>4. ASSUME NEW n \in 1..Done, part = "text", t = Text("text", n)
      PROVE  Before(t, Current)
  <2>1. i \in Int /\ Done = i - 1
    BY <1>4 DEF TypeOK, Done, Texts
  <2>2. n < i
    BY <2>1
  <2> QED BY <1>4, <2>2 DEF Before, Current, Text
<1> QED BY <1>1, <1>2, <1>3, <1>4 DEF Past

\* A step of the printing loop ends the turn of the current text.
LEMMA LoopStep ==
    ASSUME TypeOK, PlaceOK, part # "text", Returned, UNCHANGED <<trans, query>>,
           part = "total" => parsedNetAmt' = parsedNetAmt
    PROVE  \A t : Past(t)' <=> Past(t) \/ t = Current
<1> SUFFICES ASSUME NEW t PROVE Past(t)' <=> Past(t) \/ t = Current
  OBVIOUS
<1>1. /\ allTransactions' = allTransactions /\ Len(allTransactions) \in Nat
      /\ i \in 0..Len(allTransactions) /\ part \in {"title", "row", "total"}
      /\ part = "row" => i > 0
      /\ part = "title" => i = 0
      /\ pc # "feed" \/ part = "total"
  BY DEF TypeOK, PlaceOK, query, Parts
<1>2. \/ part' = part /\ i' = i /\ pc' \in {"status", "feed"} /\ (pc' = "feed" => part = "total")
      \/ part # "total" /\ part' = "row" /\ i' = i + 1 /\ pc' = "write"
      \/ part # "total" /\ part' = "total" /\ i' = i /\ pc' = "write"
  BY DEF Returned, Continue
<1>3. Done' = i
  BY <1>1, <1>2 DEF Done
<1>4. CASE part = "title"
  <2>1. 1..i = {}
    BY <1>1, <1>4
  <2>2. Past(t)' <=> t = Text("title", 0)
    BY <1>2, <1>3, <1>4, <2>1 DEF Past, Text
  <2>3. Past(t) => t = Text("title", 0)
    BY <1>4 DEF Past
  <2> QED BY <1>4, <2>2, <2>3 DEF Current
<1>5. CASE part = "row"
  <2>1. Past(t)' <=> t = Text("title", 0) \/ \E j \in 1..i : t = Text("row", allTransactions[j])
    BY <1>1, <1>2, <1>3, <1>5 DEF Past, Text
  <2>2. Past(t) <=> t = Text("title", 0) \/ \E j \in 1..Done : t = Text("row", allTransactions[j])
    BY <1>5 DEF Past
  <2>3. Done \in {i - 1, i} /\ i \in 1..i
    BY <1>1, <1>5 DEF Done
  <2>4. \A j \in 1..i : j \in 1..Done \/ j = i
    BY <1>1, <2>3
  <2>5. \A j \in 1..Done : j \in 1..i
    BY <1>1, <2>3
  <2>6. Current = Text("row", allTransactions[i])
    BY <1>5 DEF Current
  <2> QED BY <2>1, <2>2, <2>3, <2>4, <2>5, <2>6
<1>6. CASE part = "total"
  <2>1. Done = i /\ part' = "total" /\ pc' # "write" /\ parsedNetAmt' = parsedNetAmt
    BY <1>2, <1>6 DEF Done
  <2>2. Past(t)' <=> \/ t = Text("title", 0) \/ \E j \in 1..i : t = Text("row", allTransactions[j])
                     \/ t = Text("total", parsedNetAmt)
    BY <1>1, <1>3, <2>1 DEF Past, Text
  <2>3. Past(t) <=> \/ t = Text("title", 0) \/ \E j \in 1..i : t = Text("row", allTransactions[j])
                    \/ (pc # "write" /\ t = Text("total", parsedNetAmt))
    BY <1>6, <2>1 DEF Past
  <2>4. Current = Text("total", parsedNetAmt)
    BY <1>6 DEF Current
  <2> QED BY <2>2, <2>3, <2>4
<1> QED BY <1>1, <1>4, <1>5, <1>6

\* ... and so does each of the texts that are printed without a loop.
LEMMA TextStep ==
    ASSUME TypeOK, WriteText
    PROVE  \A t : Past(t)' <=> Past(t) \/ t = Current
<1> SUFFICES ASSUME NEW t PROVE Past(t)' <=> Past(t) \/ t = Current
  OBVIOUS
<1>1. part = "text" /\ part' = "text" /\ Done = i - 1 /\ Done' = i /\ i \in Nat \ {0}
  BY DEF WriteText, Done, TypeOK, Texts
<1>2. Past(t)' <=> \E n \in 1..i : t = Text("text", n)
  BY <1>1 DEF Past, Text
<1>3. Past(t) <=> \E n \in 1..(i - 1) : t = Text("text", n)
  BY <1>1 DEF Past
<1>4. \A n : n \in 1..i <=> n \in 1..(i - 1) \/ n = i
  BY <1>1
<1>5. Current = Text("text", i)
  BY <1>1 DEF Current
<1> QED BY <1>2, <1>3, <1>4, <1>5

\* The strip stays as it should when the driver prints or refuses the text
\* whose turn ends, or a title or total that is sent again.
LEMMA SendKeeps ==
    ASSUME IInv, Send(Current), asked' = asked,
           \A t : Past(t)' <=> Past(t) \/ t = Current,
           pc = "write" \/ (asked /\ part \in {"title", "total"})
    PROVE  /\ strip' \in Seq(AnyText) /\ refused' \subseteq AnyText
           /\ StripOK' /\ StripInOrder'
<1> PICK c \in AnyText : c = Current
  BY CurrentType DEF IInv
<1>1. /\ strip \in Seq(AnyText) /\ refused \subseteq AnyText /\ c.part = part
      /\ Len(strip) \in Nat /\ DOMAIN strip = 1..Len(strip)
  BY CurrentType DEF IInv, TypeOK, AnyText
<1>2. \/ strip' = Append(strip, c) /\ refused' = refused
      \/ strip' = strip /\ refused' = refused \cup {c}
  BY DEF Send
<1>3. \A t : Past(t)' <=> Past(t) \/ t = c
  OBVIOUS
<1>4. ~Past(c) \/ (asked /\ c.part \in {"title", "total"})
  BY <1>1, CurrentIsNew DEF IInv
<1>5. \A x \in DOMAIN strip : Before(strip[x], c)
  BY PastIsBefore DEF IInv, StripOK
<1>6. strip' \in Seq(AnyText) /\ refused' \subseteq AnyText
  BY <1>1, <1>2
<1>7. StripInOrder'
  <2>1. CASE strip' = Append(strip, c)
    BY <1>1, <1>5, <2>1, AppendInOrder DEF IInv
  <2>2. CASE strip' = strip
    BY <2>2 DEF IInv, StripInOrder
  <2> QED BY <1>2, <2>1, <2>2
<1>8. StripOK'
  <2>1. /\ \A x \in DOMAIN strip : Past(strip[x])
        /\ \A t \in refused : Past(t)
        /\ \A t : Past(t) => t \in refused \/ OnStrip(t)
        /\ \A x \in DOMAIN strip : MayRepeat(strip[x])
              \/ (strip[x] \notin refused /\ \A y \in DOMAIN strip : strip[y] = strip[x] => y = x)
    BY DEF IInv, StripOK
  <2>2. \A t : MayRepeat(t)' = MayRepeat(t)
    BY DEF MayRepeat
  <2>3. ~Past(c) \/ MayRepeat(c)
    BY <1>4 DEF MayRepeat
  <2>4. PICK S, R : strip' = S /\ refused' = R
    OBVIOUS
  <2>5. /\ \A x \in DOMAIN S : Past(S[x])'
        /\ \A t \in R : Past(t)'
        /\ \A t : Past(t)' => t \in R \/ \E x \in DOMAIN S : S[x] = t
        /\ \A x \in DOMAIN S : MayRepeat(S[x])
              \/ (S[x] \notin R /\ \A y \in DOMAIN S : S[y] = S[x] => y = x)
    <3>1. CASE S = Append(strip, c) /\ R = refused
      <4> DEFINE L == Len(strip) + 1
      <4>1. /\ DOMAIN S = DOMAIN strip \cup {L} /\ S[L] = c /\ L \notin DOMAIN strip
            /\ \A x \in DOMAIN strip : S[x] = strip[x]
        BY <1>1, <3>1
      <4> HIDE DEF L
      <4>2. \A x \in DOMAIN S : Past(S[x])'
        BY <1>3, <2>1, <4>1
      <4>3. \A t \in R : Past(t)'
        BY <1>3, <2>1, <3>1
      <4>4. \A t : Past(t)' => t \in R \/ \E x \in DOMAIN S : S[x] = t
        BY <1>3, <2>1, <3>1, <4>1 DEF OnStrip
      <4>5. ASSUME NEW x \in DOMAIN S, ~MayRepeat(S[x])
            PROVE  S[x] \notin R /\ \A y \in DOMAIN S : S[y] = S[x] => y = x
        <5>1. CASE x = L
          <6>1. ~Past(c) /\ S[x] = c
            BY <2>3, <4>1, <4>5, <5>1
          <6>2. c \notin R /\ \A y \in DOMAIN strip : S[y] # c
            BY <2>1, <3>1, <4>1, <6>1
          <6> QED BY <4>1, <5>1, <6>1, <6>2
        <5>2. CASE x \in DOMAIN strip
          <6>1. S[x] = strip[x] /\ ~MayRepeat(strip[x]) /\ Past(strip[x])
            BY <2>1, <4>1, <4>5, <5>2
          <6>2. strip[x] # c
            BY <2>3, <6>1
          <6>3. strip[x] \notin refused /\ \A y \in DOMAIN strip : strip[y] = strip[x] => y = x
            BY <2>1, <5>2, <6>1
          <6> QED BY <3>1, <4>1, <6>1, <6>2, <6>3
        <5> QED BY <4>1, <4>5, <5>1, <5>2
      <4> QED BY <4>2, <4>3, <4>4, <4>5
    <3>2. CASE S = strip /\ R = refused \cup {c}
      <4>1. /\ \A x \in DOMAIN S : Past(S[x])'
            /\ \A t \in R : Past(t)'
        BY <1>3, <2>1, <3>2
      <4>2. \A t : Past(t)' => t \in R \/ \E x \in DOMAIN S : S[x] = t
        BY <1>3, <2>1, <3>2 DEF OnStrip
      <4>3. ASSUME NEW x \in DOMAIN strip, ~MayRepeat(strip[x])
            PROVE  strip[x] \notin refused \cup {c} /\ \A y \in DOMAIN strip : strip[y] = strip[x] => y = x
        BY <2>1, <2>3, <4>3
      <4> QED BY <3>2, <4>1, <4>2, <4>3
    <3> QED BY <1>2, <2>4, <3>1, <3>2
  <2> QED BY <2>2, <2>4, <2>5 DEF StripOK, OnStrip
<1> QED BY <1>6, <1>7, <1>8

\* While no text ends its turn, the strip stays as it is.
LEMMA StripKeeps ==
    ASSUME IInv, UNCHANGED <<strip, refused>>, \A t : Past(t)' <=> Past(t), asked => asked'
    PROVE  StripOK' /\ StripInOrder'
<1>1. \A t : MayRepeat(t) => MayRepeat(t)'
  BY DEF MayRepeat
<1>2. \A t : OnStrip(t)' <=> OnStrip(t)
  BY DEF OnStrip
<1>3. StripOK'
  <2>1. /\ \A x \in DOMAIN strip : Past(strip[x])
        /\ \A t \in refused : Past(t)
        /\ \A t : Past(t) => t \in refused \/ OnStrip(t)
        /\ \A x \in DOMAIN strip : MayRepeat(strip[x])
              \/ (strip[x] \notin refused /\ \A y \in DOMAIN strip : strip[y] = strip[x] => y = x)
    BY DEF IInv, StripOK
  <2>2. /\ \A x \in DOMAIN strip : Past(strip[x])'
        /\ \A t \in refused : Past(t)'
        /\ \A t : Past(t)' => t \in refused \/ OnStrip(t)'
    BY <1>2, <2>1
  <2>3. \A x \in DOMAIN strip : MayRepeat(strip[x])'
           \/ (strip[x] \notin refused /\ \A y \in DOMAIN strip : strip[y] = strip[x] => y = x)
    BY <1>1, <2>1
  <2> QED BY <2>2, <2>3 DEF StripOK
<1> QED BY <1>3 DEF IInv, StripInOrder

\* Where nothing has been sent, nothing has had its turn.
LEMMA CleanStrip ==
    ASSUME strip' = <<>>, refused' = {}, part' = "title", pc' \notin {"status", "noPaper"}
    PROVE  StripOK' /\ StripInOrder'
<1>1. \A t : ~Past(t)'
  BY DEF Past
<1>2. DOMAIN strip' = {}
  OBVIOUS
<1> QED BY <1>1, <1>2 DEF StripOK, StripInOrder

-----------------------------------------------------------------------------
\* A report starts on a clean strip.
LEMMA OpenEstablishes ==
    ASSUME IInv, pc \in {"menu", "ask"}, NEW k \in Kinds, NEW x, OpenReport(k, x)
    PROVE  IInv'
<1>t. TypeOK
  BY DEF IInv
<1>1. PICK s \in InOrder(Read(k, x)) : allTransactions' = s
  BY DEF OpenReport
<1>2. s \in Seq(DOMAIN trans) /\ \A a, b \in DOMAIN s : a < b => s[a] < s[b]
  BY <1>t, ReadType
<1>3. /\ strip' = <<>> /\ refused' = {} /\ asked' = asked /\ part' = "title" /\ pc' = "write" /\ i' = 0
      /\ kind' = k /\ k \notin Fixed /\ parsedNetAmt' = 0 /\ trans' = trans /\ paper' = paper
      /\ open' \in BOOLEAN
  BY <1>t DEF OpenReport, OpenPrinter, history, IInv, PlaceOK, Kinds, Fixed, TypeOK
<1>4. TypeOK'
  BY <1>t, <1>1, <1>2, <1>3 DEF TypeOK, Working, Parts
<1>5. StripOK' /\ StripInOrder'
  BY <1>3, CleanStrip
<1>6. PlaceOK' /\ RowsInOrder'
  BY <1>1, <1>2, <1>3 DEF PlaceOK, RowsInOrder
<1> QED BY <1>4, <1>5, <1>6 DEF IInv

\* A report that returns leaves a clean strip.
LEMMA ReturnEstablishes ==
    ASSUME TypeOK, Return, UNCHANGED <<trans, paper>>, open' \in BOOLEAN
    PROVE  IInv'
<1>1. TypeOK'
  <2>1. /\ trans' \in Tables /\ pc' = "menu" /\ kind' = "date" /\ part' = "title" /\ i' = 0
        /\ parsedNetAmt' = 0 /\ allTransactions' = <<>> /\ strip' = <<>> /\ refused' = {}
        /\ paper' \in BOOLEAN /\ open' \in BOOLEAN /\ asked' = FALSE
    BY DEF TypeOK, Return
  <2>2. /\ allTransactions' \in Seq(DOMAIN trans')
        /\ i' \in IF part' = "text" THEN 1..Texts(kind') ELSE 0..Len(allTransactions')
    BY <2>1
  <2>3. strip' \in Seq([part : Parts, n : Int]) /\ refused' \subseteq [part : Parts, n : Int]
    BY <2>1
  <2>4. {paper', open', asked'} \subseteq BOOLEAN
    BY <2>1, Zenon
  <2>5. parsedNetAmt' \in Int /\ kind' \in Kinds \cup Fixed /\ part' \in Parts
    BY <2>1 DEF Kinds, Parts
  <2>6. part' # "row" /\ part' # "text"
    BY <2>1
  <2> QED BY <2>1, <2>2, <2>3, <2>4, <2>5, <2>6, Zenon DEF TypeOK
<1>2. StripOK' /\ StripInOrder'
  BY CleanStrip DEF Return
<1>3. PlaceOK' /\ RowsInOrder'
  BY DEF Return, PlaceOK, RowsInOrder
<1> QED BY <1>1, <1>2, <1>3 DEF IInv

\* Going on to the next part, or to the question why the last is not there.
LEMMA ReturnedKeeps ==
    ASSUME IInv, part # "text", pc \in {"write", "status", "noPaper"}, Returned,
           UNCHANGED <<trans, query, device>>, parsedNetAmt' \in Int, asked' = asked,
           strip' \in Seq(AnyText), refused' \subseteq AnyText, StripOK', StripInOrder'
    PROVE  IInv'
<1>1. /\ TypeOK /\ i \in 0..Len(allTransactions) /\ Len(allTransactions) \in Nat
      /\ part \in {"title", "row", "total"} /\ (part = "row" => i > 0) /\ (part = "title" => i = 0)
      /\ kind \notin Fixed
  BY DEF IInv, TypeOK, Parts, PlaceOK
<1>2. /\ pc' \in {"write", "status", "feed"}
      /\ part' \in {"title", "row", "total"} /\ i' \in 0..Len(allTransactions)
      /\ part' = "row" => i' > 0
      /\ part' = "title" => i' = 0
      /\ pc' = "feed" => part' = "total"
  BY <1>1 DEF Returned, Continue
<1>3. allTransactions' = allTransactions /\ kind' = kind
  BY DEF query
<1>4. TypeOK'
  BY <1>1, <1>2, <1>3 DEF TypeOK, AnyText, device, Working, Parts
<1>5. PlaceOK' /\ RowsInOrder'
  BY <1>1, <1>2, <1>3 DEF PlaceOK, IInv, RowsInOrder
<1> QED BY <1>4, <1>5 DEF IInv

\* A text of the loop is sent for the first time, or again.
LEMMA WriteKeeps == IInv /\ (Write \/ Retry) => IInv'
<1> SUFFICES ASSUME IInv, Write \/ Retry PROVE IInv'
  OBVIOUS
<1>1. /\ TypeOK /\ PlaceOK /\ Returned /\ UNCHANGED <<trans, query, device>> /\ asked' = asked
      /\ part # "text" /\ pc \in {"write", "noPaper"} /\ (pc = "noPaper" => asked)
      /\ part = "total" => parsedNetAmt' = parsedNetAmt
  BY DEF IInv, TypeOK, PlaceOK, Write, Retry
<1>2. parsedNetAmt' \in Int
  <2>1. part = "row" => i \in DOMAIN allTransactions
    BY <1>1 DEF TypeOK
  <2>2. part = "row" => trans[allTransactions[i]].Net_Amt \in Int
    BY <1>1, <2>1, RowType
  <2> QED BY <1>1, <2>2 DEF Write, Retry, TypeOK
<1>3. \A t : Past(t)' <=> Past(t) \/ t = Current
  BY <1>1, LoopStep
<1>4. CASE Send(Current) /\ (pc = "write" \/ part \in {"title", "total"})
  BY <1>1, <1>2, <1>3, <1>4, SendKeeps, ReturnedKeeps
<1>5. CASE pc = "noPaper" /\ part = "row" /\ UNCHANGED <<strip, refused>>
  <2>1. Past(Current)
    <3>1. i \in 1..Done /\ Current = Text("row", allTransactions[i])
      BY <1>1, <1>5 DEF TypeOK, Done, Current
    <3> QED BY <1>5, <3>1 DEF Past
  <2>2. \A t : Past(t)' <=> Past(t)
    BY <1>3, <2>1
  <2>3. StripOK' /\ StripInOrder'
    BY <1>1, <1>5, <2>2, StripKeeps
  <2>4. strip' \in Seq(AnyText) /\ refused' \subseteq AnyText
    BY <1>1, <1>5 DEF TypeOK, AnyText
  <2> QED BY <1>1, <1>2, <2>3, <2>4, ReturnedKeeps
<1>6. part \in {"title", "row", "total"}
  BY <1>1 DEF TypeOK, Parts
<1> QED BY <1>1, <1>4, <1>5, <1>6 DEF Write, Retry

\* The paper loop ends, or asks.
LEMMA CheckPaperKeeps == IInv /\ CheckPaper => IInv'
<1> SUFFICES ASSUME IInv, CheckPaper PROVE IInv'
  OBVIOUS
<1>1. /\ TypeOK /\ PlaceOK /\ pc = "status" /\ part # "text" /\ part \in {"title", "row", "total"}
      /\ UNCHANGED <<trans, query, parsedNetAmt, device, strip, refused>>
      /\ parsedNetAmt \in Int
      /\ strip' \in Seq(AnyText) /\ refused' \subseteq AnyText
  BY DEF IInv, TypeOK, CheckPaper, Parts, AnyText
<1>2. CASE Continue /\ asked' = asked
  <2>1. Past(Current)
    <3>1. part = "row" => i \in 1..Done
      BY <1>1 DEF TypeOK, Done
    <3> QED BY <1>1, <3>1 DEF Past, Current
  <2>2. \A t : Past(t)' <=> Past(t)
    BY <1>1, <1>2, <2>1, LoopStep DEF Returned
  <2>3. StripOK' /\ StripInOrder'
    BY <1>1, <1>2, <2>2, StripKeeps
  <2> QED BY <1>1, <1>2, <2>3, ReturnedKeeps DEF Returned
<1>3. CASE pc' = "noPaper" /\ asked' = TRUE /\ UNCHANGED <<part, i>>
  <2>1. TypeOK'
    BY <1>1, <1>3 DEF TypeOK, query, device
  <2>2. \A t : Past(t)' <=> Past(t)
    <3>1. Done' = Done /\ allTransactions' = allTransactions
      BY <1>1, <1>3 DEF Done, query
    <3> QED BY <1>1, <1>3, <3>1 DEF Past, Text
  <2>3. StripOK' /\ StripInOrder'
    BY <1>1, <1>3, <2>2, StripKeeps
  <2>4. PlaceOK' /\ RowsInOrder'
    BY <1>1, <1>3 DEF PlaceOK, IInv, RowsInOrder, query
  <2> QED BY <2>1, <2>3, <2>4 DEF IInv
<1> QED BY <1>2, <1>3 DEF CheckPaper

\* What is printed without a loop starts on a clean strip ...
LEMMA CheckOnceKeeps == IInv /\ CheckOnce => IInv'
<1> SUFFICES ASSUME IInv, CheckOnce PROVE IInv'
  OBVIOUS
<1>1. strip = <<>> /\ refused = {} /\ part = "title" /\ i = 0 /\ kind \in Fixed /\ TypeOK
  BY DEF CheckOnce, IInv, PlaceOK
<1>2. /\ UNCHANGED <<trans, kind, allTransactions, parsedNetAmt, paper, open, strip, refused>>
      /\ asked' \in BOOLEAN
      /\ \/ part' = "text" /\ i' = 1 /\ pc' = "write"
         \/ part' = "title" /\ i' = 0 /\ pc' = "missing"
  BY <1>1 DEF CheckOnce, query, device, TypeOK
<1>3. TypeOK'
  <2>2. i' \in IF part' = "text" THEN 1..Texts(kind') ELSE 0..Len(allTransactions')
    BY <1>1, <1>2 DEF TypeOK, Texts
  <2>3. part' \in Parts /\ part' # "row" /\ pc' \in {"menu", "ask", "noPaper", "missing"} \cup Working
    BY <1>2 DEF Parts, Working
  <2>4. {paper', open', asked'} \subseteq BOOLEAN
    BY <1>1, <1>2 DEF TypeOK
  <2>5. part' = "text" => kind' \in Fixed /\ pc' \in {"write", "feed"}
    BY <1>1, <1>2
  <2>6. parsedNetAmt' \in Int /\ trans' \in Tables /\ kind' \in Kinds \cup Fixed
        /\ allTransactions' \in Seq(DOMAIN trans')
        /\ strip' \in Seq([part : Parts, n : Int]) /\ refused' \subseteq [part : Parts, n : Int]
    BY <1>1, <1>2 DEF TypeOK
  <2> QED BY <2>2, <2>3, <2>4, <2>5, <2>6 DEF TypeOK
<1>4. StripOK' /\ StripInOrder'
  <2>1. \A t : ~Past(t)'
    BY <1>2 DEF Past, Done
  <2>2. DOMAIN strip' = {} /\ refused' = {}
    BY <1>1, <1>2
  <2> QED BY <2>1, <2>2 DEF StripOK, StripInOrder
<1>5. PlaceOK' /\ RowsInOrder'
  BY <1>1, <1>2 DEF PlaceOK, IInv, RowsInOrder
<1> QED BY <1>3, <1>4, <1>5 DEF IInv

\* ... and its texts are sent in turn.
LEMMA WriteTextKeeps == IInv /\ WriteText => IInv'
<1> SUFFICES ASSUME IInv, WriteText PROVE IInv'
  OBVIOUS
<1>1. /\ TypeOK /\ pc = "write" /\ part = "text" /\ kind \in Fixed /\ i \in 1..Texts(kind)
      /\ UNCHANGED <<trans, kind, allTransactions, parsedNetAmt, paper, open, part>> /\ asked' = asked
      /\ Send(Current) /\ Texts(kind) \in Nat
  BY DEF IInv, TypeOK, WriteText, query, device, Texts
<1>2. pc' \in {"write", "feed"} /\ i' \in 1..Texts(kind) /\ (pc' = "feed" => i' = Texts(kind))
  BY <1>1 DEF WriteText
<1>3. /\ strip' \in Seq(AnyText) /\ refused' \subseteq AnyText
      /\ StripOK' /\ StripInOrder'
  BY <1>1, TextStep, SendKeeps
<1>4. TypeOK'
  <2>1. i' \in IF part' = "text" THEN 1..Texts(kind') ELSE 0..Len(allTransactions')
    BY <1>1, <1>2
  <2> QED BY <1>1, <1>2, <1>3, <2>1 DEF TypeOK, AnyText, Parts, Working
<1>5. PlaceOK' /\ RowsInOrder'
  BY <1>1, <1>2 DEF PlaceOK, IInv, RowsInOrder
<1> QED BY <1>3, <1>4, <1>5 DEF IInv

\* Steps that change what was picked, or the place, before anything is sent.
LEMMA AskKeeps == IInv /\ (PickCustomer \/ AskToPrint \/ OpenFixed) => IInv'
<1> SUFFICES ASSUME IInv, PickCustomer \/ AskToPrint \/ OpenFixed PROVE IInv'
  OBVIOUS
<1>1. /\ TypeOK /\ UNCHANGED <<trans, allTransactions, part, i, parsedNetAmt, paper, strip, refused, asked>>
      /\ kind' \in Kinds \cup Fixed /\ open' \in BOOLEAN
      /\ pc \in {"menu", "ask"} /\ pc' \in {"ask", "check"}
      /\ pc' = "check" => kind' \in Fixed
  BY DEF IInv, PickCustomer, AskToPrint, OpenFixed, OpenPrinter, printed, device, history, Kinds, TypeOK
<1>2. strip = <<>> /\ refused = {} /\ part = "title" /\ i = 0
  BY <1>1 DEF IInv, PlaceOK
<1>3. TypeOK'
  BY <1>1, <1>2 DEF TypeOK, Working
<1>4. StripOK' /\ StripInOrder'
  BY <1>1, <1>2, CleanStrip
<1>5. PlaceOK' /\ RowsInOrder'
  BY <1>1, <1>2 DEF PlaceOK, IInv, RowsInOrder
<1> QED BY <1>3, <1>4, <1>5 DEF IInv

\* Keys and paper that change nothing of what is printed.
LEMMA OutsideKeeps == IInv /\ (OtherKey \/ Paper \/ UNCHANGED vars) => IInv'
<1> SUFFICES ASSUME IInv, OtherKey \/ Paper \/ UNCHANGED vars PROVE IInv'
  OBVIOUS
<1>1. /\ UNCHANGED <<trans, kind, key, allTransactions, part, i, parsedNetAmt, open, strip, refused, asked>>
      /\ paper' \in BOOLEAN
      /\ pc' = pc \/ (pc = "noPaper" /\ pc' = "status")
  BY DEF OtherKey, Paper, vars, query, printed, device, history, IInv, TypeOK
<1>2. TypeOK'
  BY <1>1 DEF IInv, TypeOK, Working
<1>3. \A t : Past(t)' <=> Past(t)
  <2>1. Done' = Done
    BY <1>1 DEF Done
  <2>2. CASE pc' = pc
    BY <1>1, <2>1, <2>2 DEF Past, Text
  <2>3. CASE pc = "noPaper" /\ pc' = "status"
    BY <1>1, <2>1, <2>3 DEF Past, Text
  <2> QED BY <1>1, <2>2, <2>3
<1>4. StripOK' /\ StripInOrder'
  BY <1>1, <1>3, StripKeeps
<1>5. PlaceOK' /\ RowsInOrder'
  BY <1>1 DEF PlaceOK, IInv, RowsInOrder
<1> QED BY <1>2, <1>4, <1>5 DEF IInv

\* The invariant holds at every step.
THEOREM Invariance == Spec => []IInv
<1>1. Init => IInv
  <2> SUFFICES ASSUME Init PROVE IInv
    OBVIOUS
  <2>1. TypeOK
    <3>1. /\ allTransactions \in Seq(DOMAIN trans)
          /\ i \in IF part = "text" THEN 1..Texts(kind) ELSE 0..Len(allTransactions)
      BY DEF Init
    <3>2. strip \in Seq([part : Parts, n : Int]) /\ refused \subseteq [part : Parts, n : Int]
      BY DEF Init
    <3>3. {paper, open, asked} \subseteq BOOLEAN
      BY Zenon DEF Init
    <3>4. parsedNetAmt \in Int /\ kind \in Kinds \cup Fixed /\ part \in Parts
      BY DEF Init, Kinds, Parts
    <3>5. part # "row" /\ part # "text"
      BY DEF Init
    <3> QED BY <3>1, <3>2, <3>3, <3>4, <3>5, Zenon DEF Init, TypeOK
  <2>2. \A t : ~Past(t)
    BY DEF Init, Past
  <2>3. DOMAIN strip = {}
    BY DEF Init
  <2> QED BY <2>1, <2>2, <2>3 DEF Init, IInv, PlaceOK, RowsInOrder, StripOK, StripInOrder
<1>2. IInv /\ [Next]_vars => IInv'
  <2> SUFFICES ASSUME IInv, [Next]_vars PROVE IInv'
    OBVIOUS
  <2>t. TypeOK
    BY DEF IInv
  <2>1. CASE ListPeriods
    BY <2>1, OpenEstablishes DEF ListPeriods
  <2>2. CASE EnteringDate
    <3>1. "date" \in Kinds
      BY DEF Kinds
    <3> QED BY <2>2, <3>1, OpenEstablishes DEF EnteringDate
  <2>3. CASE PrintCustomer
    <3>1. kind \in Kinds
      BY <2>3 DEF PrintCustomer, Kinds
    <3> QED BY <2>3, <3>1, OpenEstablishes DEF PrintCustomer
  <2>4. CASE PickCustomer \/ AskToPrint \/ OpenFixed
    BY <2>4, AskKeeps
  <2>5. CASE LeaveQuestion \/ Cancel \/ GiveUp \/ Feed
    <3>1. Return /\ UNCHANGED <<trans, paper>> /\ open' \in BOOLEAN
      BY <2>t, <2>5 DEF LeaveQuestion, Cancel, GiveUp, Feed, device, TypeOK
    <3> QED BY <2>t, <3>1, ReturnEstablishes
  <2>6. CASE Write \/ Retry
    BY <2>6, WriteKeeps
  <2>7. CASE CheckPaper
    BY <2>7, CheckPaperKeeps
  <2>8. CASE CheckOnce
    BY <2>8, CheckOnceKeeps
  <2>9. CASE WriteText
    BY <2>9, WriteTextKeeps
  <2>10. CASE OtherKey \/ Paper \/ UNCHANGED vars
    BY <2>10, OutsideKeeps
  <2> QED BY <2>1, <2>2, <2>3, <2>4, <2>5, <2>6, <2>7, <2>8, <2>9, <2>10 DEF Next, User, Program
<1> QED BY <1>1, <1>2, PTL DEF Spec

\* Every variable keeps its type: the row whose turn it is was read.
THEOREM TypeCorrect == Spec => []TypeOK
<1>1. IInv => TypeOK
  BY DEF IInv
<1> QED BY <1>1, Invariance, PTL

\* The strip is in the order of the table, without repeated rows, whatever is
\* refused or printed again.
THEOREM StripsAreInOrder == Spec => []StripInOrder
<1>1. IInv => StripInOrder
  BY DEF IInv
<1> QED BY <1>1, Invariance, PTL

-----------------------------------------------------------------------------
(* The total, and what is missing *)

\* The amounts of the rows.
NetOfRow == [j \in DOMAIN allTransactions |-> trans[allTransactions[j]].Net_Amt]

\* The rows whose turn it was are added up; after the last comes the total.
AddedUp ==
    /\ part # "text" => parsedNetAmt = SumFunctionOnSet(NetOfRow, 1..Done)
    /\ part = "total" => i = Len(allTransactions)

\* The amounts that are added up are integers.
LEMMA NetOfRowType ==
    ASSUME TypeOK
    PROVE  /\ \A j \in DOMAIN allTransactions : NetOfRow[j] \in Int
           /\ DOMAIN NetOfRow = DOMAIN allTransactions
           /\ DOMAIN allTransactions = 1..Len(allTransactions) /\ Len(allTransactions) \in Nat
<1>1. allTransactions \in Seq(DOMAIN trans)
  BY DEF TypeOK
<1>2. \A j \in DOMAIN allTransactions : NetOfRow[j] \in Int
  BY RowType DEF NetOfRow
<1> QED BY <1>1, <1>2 DEF NetOfRow

\* A step of the printing loop adds up the row whose turn it is.
LEMMA LoopAddsUp ==
    ASSUME TypeOK, AddedUp, part # "text", Returned, UNCHANGED <<trans, query>>,
           parsedNetAmt' = IF pc = "write" /\ part = "row" THEN parsedNetAmt + NetOfRow[i]
                           ELSE parsedNetAmt
    PROVE  AddedUp'
<1>1. Done' = i /\ part' \in {"title", "row", "total"} /\ NetOfRow' = NetOfRow
  BY DEF TypeOK, Returned, Continue, Parts, Done, query, NetOfRow
<1>2. part' = "total" => i' = Len(allTransactions)'
  BY DEF Returned, Continue, AddedUp, query
<1>3. parsedNetAmt' = SumFunctionOnSet(NetOfRow, 1..i)
  <2>1. CASE pc = "write" /\ part = "row"
    <3>1. i \in 1..Len(allTransactions) /\ Done = i - 1
      BY <2>1, NetOfRowType DEF TypeOK, Done
    <3>2. i \in Nat \ {0} /\ \A j \in 1..i : NetOfRow[j] \in Int
      BY <3>1, NetOfRowType
    <3> QED BY <2>1, <3>1, <3>2, SumUpto DEF AddedUp
  <2>2. CASE ~(pc = "write" /\ part = "row")
    BY <2>2 DEF AddedUp, Done
  <2> QED BY <2>1, <2>2
<1> QED BY <1>1, <1>2, <1>3 DEF AddedUp

\* At the beginning nothing is added up, and nothing is written.
LEMMA StartsAtZero ==
    ASSUME part' = "title", i' = 0, parsedNetAmt' = 0
    PROVE  AddedUp'
<1>1. Done' = 0 /\ 1..0 = {}
  BY DEF Done
<1> QED BY <1>1, SumOfNothing DEF AddedUp

\* ... and every step adds up what it should.
LEMMA AddedUpKeeps == IInv /\ AddedUp /\ [Next]_vars => AddedUp'
<1> SUFFICES ASSUME IInv, AddedUp, [Next]_vars PROVE AddedUp'
  OBVIOUS
<1>t. TypeOK
  BY DEF IInv
<1>1. CASE part' = "title" /\ i' = 0 /\ parsedNetAmt' = 0
  BY <1>1, StartsAtZero
<1>2. CASE PickCustomer \/ AskToPrint \/ OpenFixed \/ OtherKey \/ Paper \/ UNCHANGED vars
  <2>1. UNCHANGED <<trans, allTransactions, part, i, parsedNetAmt>>
    BY <1>2 DEF PickCustomer, AskToPrint, OpenFixed, OtherKey, Paper, vars, query, printed, device
  <2>2. (pc = "write" <=> pc' = "write") \/ (i = 0 /\ part = "title" /\ pc' # "write")
    BY <1>2 DEF PickCustomer, AskToPrint, OpenFixed, OtherKey, Paper, vars, IInv, PlaceOK
  <2>3. Done' = Done
    BY <2>1, <2>2 DEF Done
  <2> QED BY <2>1, <2>3 DEF AddedUp, NetOfRow
<1>3. CASE Write \/ (CheckPaper /\ pc' # "noPaper") \/ Retry
  <2>1. Returned /\ UNCHANGED <<trans, query>> /\ part # "text"
    BY <1>t, <1>3 DEF Write, CheckPaper, Retry, TypeOK, Returned
  <2>2. parsedNetAmt' = IF pc = "write" /\ part = "row" THEN parsedNetAmt + NetOfRow[i] ELSE parsedNetAmt
    <3>1. part = "row" => NetOfRow[i] = trans[allTransactions[i]].Net_Amt
      BY <1>t, NetOfRowType DEF NetOfRow, TypeOK
    <3> QED BY <1>3, <3>1 DEF Write, CheckPaper, Retry
  <2> QED BY <1>t, <2>1, <2>2, LoopAddsUp
<1>4. CASE CheckPaper /\ pc' = "noPaper"
  <2>1. UNCHANGED <<trans, query, printed>> /\ pc # "write"
    BY <1>4 DEF CheckPaper, Continue, printed
  <2> QED BY <1>4, <2>1 DEF query, printed, AddedUp, NetOfRow, Done
<1>5. CASE CheckOnce \/ WriteText
  <2>1. part' = "text" \/ (part' = "title" /\ i' = 0 /\ parsedNetAmt' = 0)
    <3>1. pc = "check" => part = "title" /\ i = 0 /\ Done = 0 /\ 1..0 = {}
      BY DEF IInv, PlaceOK, Done
    <3>2. pc = "check" => parsedNetAmt = 0
      BY <3>1, SumOfNothing DEF AddedUp
    <3> QED BY <1>5, <3>1, <3>2 DEF CheckOnce, WriteText
  <2>2. CASE part' = "text"
    BY <2>2 DEF AddedUp
  <2> QED BY <1>1, <2>1, <2>2
<1>6. CASE ListPeriods \/ EnteringDate \/ PrintCustomer \/ LeaveQuestion \/ Cancel \/ GiveUp \/ Feed
  BY <1>1, <1>6 DEF ListPeriods, EnteringDate, PrintCustomer, LeaveQuestion, Cancel, GiveUp, Feed, OpenReport, Return
<1> QED BY <1>2, <1>3, <1>4, <1>5, <1>6 DEF Next, User, Program

\* The sum agrees with the table at every step.
LEMMA SumInvariance == Spec => []AddedUp
<1>1. Init => AddedUp
  <2> SUFFICES ASSUME Init PROVE AddedUp
    OBVIOUS
  <2>1. part = "title" /\ i = 0 /\ parsedNetAmt = 0 /\ pc = "menu" /\ Done = 0 /\ 1..0 = {}
    BY DEF Init, Done
  <2> QED BY <2>1, SumOfNothing DEF AddedUp
<1>2. IInv /\ AddedUp /\ [Next]_vars => AddedUp'
  BY AddedUpKeeps
<1> QED BY <1>1, <1>2, Invariance, PTL DEF Spec

\* The total that is printed is that of every row that was read.
LEMMA TotalIsNet == TypeOK /\ AddedUp /\ part = "total" => parsedNetAmt = NetOf(allTransactions)
<1> SUFFICES ASSUME TypeOK, AddedUp, part = "total" PROVE parsedNetAmt = NetOf(allTransactions)
  OBVIOUS
<1>1. parsedNetAmt = SumFunctionOnSet(NetOfRow, 1..i) /\ i = Len(allTransactions)
  BY DEF AddedUp, Done
<1>2. DOMAIN NetOfRow = 1..Len(allTransactions)
  BY NetOfRowType
<1> QED BY <1>1, <1>2 DEF NetOf, SumFunction, NetOfRow

\* TOTAL is the total of every row that was read, also of those the driver
\* refused.
THEOREM TotalsAreOfAllRows == Spec => []TotalOfAllRows
<1>1. IInv /\ AddedUp => TotalOfAllRows
  <2> SUFFICES ASSUME IInv, AddedUp, NEW x \in DOMAIN strip, strip[x].part = "total"
               PROVE  strip[x].n = NetOf(allTransactions)
    BY DEF TotalOfAllRows
  <2>1. Past(strip[x])
    BY DEF IInv, StripOK
  <2>2. part = "total" /\ strip[x].n = parsedNetAmt
    BY <2>1 DEF Past, Text
  <2> QED BY <2>2, TotalIsNet DEF IInv
<1> QED BY <1>1, Invariance, SumInvariance, PTL

\* What is printed to its end lacks only what the driver refused, and has
\* nothing twice but the title or the total, when it asked for paper.
THEOREM OnlyRefusedIsLost == Spec => []AllButRefused
<1>1. IInv /\ AddedUp => AllButRefused
  <2> SUFFICES ASSUME IInv, AddedUp, pc = "feed" PROVE AllButRefused
    BY DEF AllButRefused
  <2>1. /\ kind \in Fixed <=> part = "text"
        /\ part = "total" \/ (part = "text" /\ i = Texts(kind))
        /\ TypeOK
    BY DEF IInv, PlaceOK
  <2>2. \A t : t \in Whole <=> Past(t)
    <3> SUFFICES ASSUME NEW t PROVE t \in Whole <=> Past(t)
      OBVIOUS
    <3>1. CASE part = "text"
      <4>1. Done = Texts(kind)
        BY <2>1, <3>1 DEF Done
      <4> QED BY <2>1, <3>1, <4>1 DEF Whole, Past
    <3>2. CASE part = "total"
      <4>1. parsedNetAmt = NetOf(allTransactions) /\ Done = Len(allTransactions)
            /\ DOMAIN allTransactions = 1..Len(allTransactions)
        BY <2>1, <3>2, TotalIsNet, NetOfRowType DEF AddedUp, Done
      <4>2. Past(t) <=> \/ t = Text("title", 0) \/ t = Text("total", NetOf(allTransactions))
                        \/ \E j \in DOMAIN allTransactions : t = Text("row", allTransactions[j])
        BY <3>2, <4>1 DEF Past
      <4>3. kind \notin Fixed
        BY <2>1, <3>2
      <4> QED BY <4>2, <4>3 DEF Whole
    <3> QED BY <2>1, <3>1, <3>2
  <2>3. \A t \in Whole : t \in refused \/ \E x \in DOMAIN strip : strip[x] = t
    BY <2>2 DEF IInv, StripOK, OnStrip
  <2>4. ASSUME NEW x \in DOMAIN strip
        PROVE  /\ strip[x] \in Whole
               /\ \/ asked /\ strip[x].part \in {"title", "total"}
                  \/ strip[x] \notin refused /\ \A y \in DOMAIN strip : strip[y] = strip[x] => y = x
    <3>1. Past(strip[x])
      BY DEF IInv, StripOK
    <3>2. MayRepeat(strip[x])
          \/ (strip[x] \notin refused /\ \A y \in DOMAIN strip : strip[y] = strip[x] => y = x)
      BY DEF IInv, StripOK
    <3> QED BY <2>2, <3>1, <3>2 DEF MayRepeat
  <2> QED BY <2>3, <2>4 DEF AllButRefused
<1> QED BY <1>1, Invariance, SumInvariance, PTL

-----------------------------------------------------------------------------
(* The reports of all periods *)

\* The days, months, years or customers of the table.
Keys(k) == {KeyOf(k, n) : n \in HasKey(k)}

\* What a row says of its date and customer.
LEMMA ColumnType ==
    ASSUME TypeOK, NEW k \in Kinds, NEW n \in DOMAIN trans
    PROVE  /\ Column(k, n) \in Seq(Nat)
           /\ Width(k) \in 1..3
           /\ n \in HasKey(k) => Len(Column(k, n)) >= Width(k)
           /\ n \notin HasKey(k) => Len(Column(k, n)) = 0
<1> DEFINE R == [Date_Time : Seq(Nat), Cust_ID : Seq(Nat), Net_Amt : Int]
<1>1. trans \in Seq(R) /\ Len(trans[n].Date_Time) \in {0, 3} /\ Len(trans[n].Cust_ID) \in {0, 1}
  BY TablesAssumption DEF TypeOK
<1>2. \A r \in R : r.Date_Time \in Seq(Nat) /\ r.Cust_ID \in Seq(Nat)
  OBVIOUS
<1> HIDE DEF R
<1>3. trans[n].Date_Time \in Seq(Nat) /\ trans[n].Cust_ID \in Seq(Nat)
  BY <1>1, <1>2
<1>4. Column(k, n) \in Seq(Nat) /\ Len(Column(k, n)) \in IF k = "customer" THEN {0, 1} ELSE {0, 3}
  BY <1>1, <1>3 DEF Column
<1>5. Width(k) \in 1..3 /\ (k = "customer" => Width(k) = 1)
  BY DEF Width, Kinds
<1>6. Column(k, n) = <<>> <=> Len(Column(k, n)) = 0
  BY <1>4
<1>7. n \in HasKey(k) <=> Len(Column(k, n)) # 0
  BY <1>6 DEF HasKey
<1> HIDE DEF Column, Width, HasKey
<1>8. CASE k = "customer"
  BY <1>4, <1>5, <1>7, <1>8
<1>9. CASE k # "customer"
  BY <1>4, <1>5, <1>7, <1>9
<1> QED BY <1>8, <1>9

\* The rows that a key matches are those that have this key.
LEMMA MatchingIsByKey ==
    ASSUME TypeOK, NEW k \in Kinds, NEW x \in Keys(k)
    PROVE  Matching(k, x) = {n \in HasKey(k) : KeyOf(k, n) = x}
<1>1. PICK m \in HasKey(k) : x = KeyOf(k, m)
  BY DEF Keys
<1>2. HasKey(k) \subseteq DOMAIN trans
  BY DEF HasKey
<1>3. x \in Seq(Nat) /\ Len(x) = Width(k) /\ SubSeq(x, 1, Len(x)) = x /\ Width(k) \in 1..3
  <2>1. Column(k, m) \in Seq(Nat) /\ Len(Column(k, m)) >= Width(k) /\ Width(k) \in 1..3
    BY <1>1, <1>2, ColumnType
  <2>2. \A c \in Seq(Nat), w \in 1..3 : Len(c) >= w =>
           SubSeq(c, 1, w) \in Seq(Nat) /\ Len(SubSeq(c, 1, w)) = w
    OBVIOUS
  <2>3. x \in Seq(Nat) /\ Len(x) = Width(k)
    BY <1>1, <2>1, <2>2 DEF KeyOf
  <2> QED BY <2>1, <2>3
<1>4. ASSUME NEW n \in DOMAIN trans
      PROVE  IsPrefix(x, Column(k, n)) <=> n \in HasKey(k) /\ KeyOf(k, n) = x
  <2>1. /\ Len(Column(k, n)) \in Nat
        /\ n \in HasKey(k) => Len(Column(k, n)) >= Width(k)
        /\ n \notin HasKey(k) => Len(Column(k, n)) = 0
    BY <1>4, ColumnType
  <2>2. IsPrefix(x, Column(k, n)) <=> Width(k) <= Len(Column(k, n)) /\ SubSeq(Column(k, n), 1, Width(k)) = x
    BY <1>3 DEF IsPrefix
  <2> QED BY <1>3, <2>1, <2>2 DEF KeyOf
<1> QED BY <1>2, <1>4 DEF Matching

\* The rows are finitely many, and numbered.
LEMMA RowsFinite ==
    ASSUME TypeOK, NEW S \in SUBSET DOMAIN trans
    PROVE  IsFiniteSet(S) /\ Len(trans) \in Nat /\ S \subseteq 1..Len(trans)
<1>1. DOMAIN trans = 1..Len(trans) /\ Len(trans) \in Nat
  BY TablesAssumption DEF TypeOK
<1>2. IsFiniteSet(1..Len(trans))
  BY <1>1, FS_Interval
<1>3. S \in SUBSET (1..Len(trans))
  BY <1>1
<1> QED BY <1>1, <1>2, <1>3, FS_Subset

\* Only rows have keys.
LEMMA RowsOfKeys == \A k : HasKey(k) \subseteq DOMAIN trans
  BY DEF HasKey

\* There are finitely many keys.
LEMMA KeysFinite ==
    ASSUME TypeOK, NEW k
    PROVE  IsFiniteSet(Keys(k))
<1> DEFINE f == [n \in HasKey(k) |-> KeyOf(k, n)]
<1>1. f \in Surjection(HasKey(k), Keys(k))
  BY DEF Surjection, Keys
<1>2. IsFiniteSet(HasKey(k))
  BY RowsFinite, RowsOfKeys
<1> HIDE DEF f
<1> QED BY <1>1, <1>2, FS_Surjection

\* While no limit is reached, a report reads the rows of its key ...
LEMMA ReadsAll ==
    ASSUME TypeOK, WithinLimits, NEW k \in Kinds, NEW x \in Keys(k)
    PROVE  Read(k, x) = {n \in HasKey(k) : KeyOf(k, n) = x}
<1> DEFINE S == Matching(k, x)
<1>1. S = {n \in HasKey(k) : KeyOf(k, n) = x} /\ S \subseteq DOMAIN trans
  BY MatchingIsByKey DEF Matching
<1>2. Cardinality(S) <= ReadLimit
  BY DEF WithinLimits, Keys
<1>3. IsFiniteSet(S) /\ S \subseteq Int
  <2>1. IsFiniteSet(S) /\ S \subseteq 1..Len(trans) /\ Len(trans) \in Nat
    BY <1>1, RowsFinite
  <2> QED BY <2>1
<1> HIDE DEF S
<1>4. ASSUME NEW n \in S PROVE Cardinality({j \in S : j < n}) < ReadLimit
  <2>1. {j \in S : j < n} \in SUBSET S /\ {j \in S : j < n} # S
    BY <1>3, <1>4
  <2>2. ReadLimit \in Nat
    BY LimitsAssumption
  <2> QED BY <1>2, <1>3, <2>1, <2>2, FewEnough
<1> QED BY <1>1, <1>4 DEF Read, FirstOf, S

\* ... and a list offers every key.
LEMMA OffersAll ==
    ASSUME TypeOK, WithinLimits, NEW k \in Kinds
    PROVE  Offered(k) = Keys(k)
<1> DEFINE Same(n) == {m \in HasKey(k) : KeyOf(k, m) = KeyOf(k, n)}
           first == {n \in HasKey(k) : \A m \in HasKey(k) : KeyOf(k, m) = KeyOf(k, n) => n <= m}
           last  == {n \in HasKey(k) : \A m \in HasKey(k) : KeyOf(k, m) = KeyOf(k, n) => m <= n}
<1>1. /\ IsFiniteSet(HasKey(k)) /\ HasKey(k) \subseteq 1..Len(trans) /\ Len(trans) \in Nat
      /\ HasKey(k) \subseteq Nat
  BY RowsFinite, RowsOfKeys
<1>2. Cardinality(Keys(k)) <= ListLimit /\ IsFiniteSet(Keys(k)) /\ ListLimit \in Nat
  BY KeysFinite, LimitsAssumption DEF WithinLimits, Keys
<1>3. ASSUME NEW T \in {first, last} PROVE IsFiniteSet(T) /\ Cardinality(T) <= ListLimit
  <2> DEFINE f == [n \in T |-> KeyOf(k, n)]
  <2>1. T \subseteq HasKey(k)
    BY <1>3
  <2>2. ASSUME NEW n \in T, NEW m \in T, KeyOf(k, n) = KeyOf(k, m) PROVE n = m
    <3>1. n \in Nat /\ m \in Nat
      BY <1>1, <2>1
    <3>2. (n <= m /\ m <= n)
      BY <1>3, <2>1, <2>2
    <3> QED BY <3>1, <3>2
  <2>3. f \in Injection(T, Keys(k))
    BY <2>1, <2>2 DEF Injection, IsInjective, Keys
  <2> HIDE DEF f
  <2>4. IsFiniteSet(T) /\ Cardinality(T) <= Cardinality(Keys(k))
    BY <1>2, <2>3, FS_Injection
  <2>5. Cardinality(T) \in Nat /\ Cardinality(Keys(k)) \in Nat
    BY <1>2, <2>4, FS_CardinalityType
  <2> QED BY <1>2, <2>4, <2>5
<1>4. ASSUME NEW n \in first PROVE Cardinality({j \in first : j < n}) < ListLimit
  <2>1. {j \in first : j < n} \in SUBSET first /\ {j \in first : j < n} # first
    BY <1>1, <1>4
  <2> HIDE DEF first
  <2> QED BY <1>2, <1>3, <2>1, FewEnough
<1>5. ASSUME NEW n \in last PROVE Cardinality({j \in last : j > n}) < ListLimit
  <2>1. {j \in last : j > n} \in SUBSET last /\ {j \in last : j > n} # last
    BY <1>1, <1>5
  <2> HIDE DEF last
  <2> QED BY <1>2, <1>3, <2>1, FewEnough
<1>6. ASSUME NEW n \in HasKey(k)
      PROVE  (\E m \in first : KeyOf(k, m) = KeyOf(k, n)) /\ (\E m \in last : KeyOf(k, m) = KeyOf(k, n))
  <2>1. Same(n) \in SUBSET Nat /\ Same(n) \in SUBSET (1..Len(trans)) /\ Same(n) # {}
    BY <1>1, <1>6
  <2>2. \E m \in Same(n) : \A l \in Same(n) : m <= l
    <3> HIDE DEF Same
    <3> QED BY <2>1, LeastExists
  <2>3. \E m \in Same(n) : \A l \in Same(n) : l <= m
    <3> HIDE DEF Same
    <3> QED BY <1>1, <2>1, GreatestExists
  <2> QED BY <2>2, <2>3
<1>7. Offered(k) = {KeyOf(k, n) : n \in IF k = "customer" THEN first ELSE last}
  BY <1>4, <1>5 DEF Offered, FirstOf
<1> DEFINE T == IF k = "customer" THEN first ELSE last
<1>8. T \subseteq HasKey(k)
  OBVIOUS
<1>9. \A n \in HasKey(k) : \E m \in T : KeyOf(k, m) = KeyOf(k, n)
  BY <1>6
<1>10. Offered(k) = {KeyOf(k, n) : n \in T}
  BY <1>7
<1> HIDE DEF T
<1> QED BY <1>8, <1>9, <1>10 DEF Keys

\* The amounts of the table.
Net == [n \in DOMAIN trans |-> trans[n].Net_Amt]

\* ... which are integers.
LEMMA NetType == TypeOK => \A n \in DOMAIN trans : Net[n] \in Int
<1> SUFFICES ASSUME TypeOK, NEW n \in DOMAIN trans PROVE Net[n] \in Int
  OBVIOUS
<1> DEFINE R == [Date_Time : Seq(Nat), Cust_ID : Seq(Nat), Net_Amt : Int]
<1>1. trans \in Seq(R)
  BY TablesAssumption DEF TypeOK
<1>2. \A r \in R : r.Net_Amt \in Int
  OBVIOUS
<1> HIDE DEF R
<1>3. trans[n] \in R
  BY <1>1
<1> QED BY <1>2, <1>3 DEF Net

\* The amounts of rows, whatever function they are taken from.
LEMMA NetOfRows ==
    ASSUME TypeOK, NEW S \in SUBSET DOMAIN trans
    PROVE  /\ SumFunction([n \in S |-> trans[n].Net_Amt]) = SumFunctionOnSet(Net, S)
           /\ SumFunctionOnSet(Net, S) \in Int
<1> DEFINE g == [n \in S |-> trans[n].Net_Amt]
<1>1. IsFiniteSet(S) /\ \A n \in S : Net[n] \in Int /\ g[n] = Net[n]
  BY RowsFinite, NetType DEF Net
<1>2. DOMAIN g = S
  OBVIOUS
<1> HIDE DEF g
<1>3. SumFunctionOnSet(Net, S) = SumFunctionOnSet(g, S)
  BY <1>1, SumEqual
<1>4. SumFunction(g) = SumFunctionOnSet(g, S)
  BY <1>2 DEF SumFunction
<1> QED BY <1>1, <1>3, <1>4, SumIsInt DEF g

\* Rows that have keys of a set add up to the reports on these keys.
LEMMA ReportsAddUp ==
    ASSUME TypeOK, WithinLimits, NEW k \in Kinds, NEW T \in SUBSET Keys(k)
    PROVE  SumFunction([x \in T |-> SumFunction([n \in Read(k, x) |-> trans[n].Net_Amt])])
             = SumFunctionOnSet(Net, {n \in HasKey(k) : KeyOf(k, n) \in T})
<1> DEFINE S == {n \in HasKey(k) : KeyOf(k, n) \in T}
           h == [x \in T |-> SumFunction([n \in Read(k, x) |-> trans[n].Net_Amt])]
           group == [n \in S |-> KeyOf(k, n)]
<1>1. IsFiniteSet(S) /\ S \subseteq DOMAIN trans
  BY RowsFinite, RowsOfKeys
<1>2. IsFiniteSet(T)
  BY KeysFinite, FS_Subset
<1>3. \A n \in S : Net[n] \in Int /\ group[n] \in T
  BY <1>1, NetType
<1>4. ASSUME NEW x \in T PROVE h[x] = SumFunctionOnSet(Net, InGroup(S, group, x))
  <2>1. Read(k, x) = InGroup(S, group, x)
    <3>1. Read(k, x) = {n \in HasKey(k) : KeyOf(k, n) = x}
      BY <1>4, ReadsAll
    <3> QED BY <3>1, <1>4 DEF InGroup
  <2>2. Read(k, x) \in SUBSET DOMAIN trans
    BY <1>1, <2>1 DEF InGroup
  <2> HIDE DEF S, group
  <2> QED BY <2>1, <2>2, NetOfRows
<1>5. DOMAIN h = T
  OBVIOUS
<1> HIDE DEF S, h, group
<1>6. SumFunctionOnSet(Net, S) = SumFunctionOnSet(h, T)
  BY <1>1, <1>2, <1>3, <1>4, SumByGroup
<1> QED BY <1>5, <1>6 DEF SumFunction, S, h

\* A year is the beginning of its months and dates.
LEMMA YearOfKey ==
    ASSUME TypeOK, NEW k \in {"month", "date"}, NEW n \in HasKey("year"), NEW y \in Keys("year")
    PROVE  /\ n \in HasKey(k)
           /\ IsPrefix(y, KeyOf(k, n)) <=> KeyOf("year", n) = y
<1>1. HasKey(k) = HasKey("year") /\ Column(k, n) = Column("year", n) /\ HasKey(k) \subseteq DOMAIN trans
  BY DEF HasKey, Column
<1>2. k \in Kinds /\ "year" \in Kinds /\ Width("year") = 1 /\ Width(k) \in {2, 3}
  BY DEF Kinds, Width
<1>3. PICK m \in HasKey("year") : y = KeyOf("year", m)
  BY DEF Keys
<1>4. Column("year", m) \in Seq(Nat) /\ Len(Column("year", m)) >= 1
  BY <1>1, <1>2, <1>3, ColumnType
<1>5. y \in Seq(Nat) /\ Len(y) = 1 /\ y = SubSeq(y, 1, 1)
  <2>1. \A c \in Seq(Nat) : Len(c) >= 1 =>
          SubSeq(c, 1, 1) \in Seq(Nat) /\ Len(SubSeq(c, 1, 1)) = 1 /\ SubSeq(SubSeq(c, 1, 1), 1, 1) = SubSeq(c, 1, 1)
    OBVIOUS
  <2> QED BY <1>2, <1>3, <1>4, <2>1 DEF KeyOf
<1>6. Column(k, n) \in Seq(Nat) /\ Len(Column(k, n)) >= Width(k)
  BY <1>1, <1>2, ColumnType
<1>7. \A c \in Seq(Nat), w \in {2, 3} : Len(c) >= w =>
        Len(SubSeq(c, 1, w)) = w /\ SubSeq(SubSeq(c, 1, w), 1, 1) = SubSeq(c, 1, 1)
  OBVIOUS
<1>8. Len(KeyOf(k, n)) >= 1 /\ SubSeq(KeyOf(k, n), 1, 1) = KeyOf("year", n)
  BY <1>1, <1>2, <1>6, <1>7 DEF KeyOf
<1>9. IsPrefix(y, KeyOf(k, n)) <=> y = KeyOf("year", n)
  BY <1>5, <1>8 DEF IsPrefix
<1> QED BY <1>1, <1>9

\* While no limit is reached, the reports of every kind add up to the same.
LEMMA PeriodsAgree == TypeOK => PeriodsAddUp
<1> DEFINE N(rows) == SumFunction([n \in rows |-> trans[n].Net_Amt])
           Sum(k, keys) == SumFunction([x \in keys |-> N(Read(k, x))])
           Within(k, y) == {x \in Offered(k) : IsPrefix(y, x)}
<1> SUFFICES ASSUME TypeOK, WithinLimits
             PROVE  /\ \A k \in Kinds : Sum(k, Offered(k)) = N(HasKey(k))
                    /\ \A y \in Offered("year") : /\ Sum("month", Within("month", y)) = Sum("year", {y})
                                                  /\ Sum("date", Within("date", y)) = Sum("year", {y})
  BY DEF PeriodsAddUp
<1>1. ASSUME NEW k \in Kinds PROVE Sum(k, Offered(k)) = N(HasKey(k))
  <2>1. Sum(k, Keys(k)) = SumFunctionOnSet(Net, {n \in HasKey(k) : KeyOf(k, n) \in Keys(k)})
    BY ReportsAddUp
  <2>2. {n \in HasKey(k) : KeyOf(k, n) \in Keys(k)} = HasKey(k)
    BY DEF Keys
  <2>3. N(HasKey(k)) = SumFunctionOnSet(Net, HasKey(k))
    BY NetOfRows, RowsOfKeys
  <2> QED BY <2>1, <2>2, <2>3, OffersAll
<1>2. ASSUME NEW y \in Offered("year"), NEW k \in {"month", "date"}
      PROVE  Sum(k, Within(k, y)) = Sum("year", {y})
  <2>1. k \in Kinds /\ "year" \in Kinds
    BY DEF Kinds
  <2>2. y \in Keys("year") /\ Within(k, y) = {x \in Keys(k) : IsPrefix(y, x)}
    BY <2>1, OffersAll
  <2>3. Sum(k, Within(k, y)) = SumFunctionOnSet(Net, {n \in HasKey(k) : KeyOf(k, n) \in Within(k, y)})
    BY <2>1, <2>2, ReportsAddUp
  <2>4. Sum("year", {y}) = SumFunctionOnSet(Net, {n \in HasKey("year") : KeyOf("year", n) \in {y}})
    BY <2>1, <2>2, ReportsAddUp
  <2>5. HasKey(k) = HasKey("year")
    BY DEF HasKey, Column
  <2>6. {n \in HasKey(k) : KeyOf(k, n) \in Within(k, y)} = {n \in HasKey("year") : KeyOf("year", n) \in {y}}
    BY <2>2, <2>5, YearOfKey DEF Keys
  <2> QED BY <2>3, <2>4, <2>6
<1> QED BY <1>1, <1>2

\* While no limit is reached, every dated transaction is on one day's, one
\* month's and one year's report, and the reports add up.
THEOREM PeriodsReconcile == Spec => []PeriodsAddUp
<1>1. IInv => PeriodsAddUp
  BY PeriodsAgree DEF IInv
<1> QED BY <1>1, Invariance, PTL
=============================================================================
