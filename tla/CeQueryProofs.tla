---------------------------- MODULE CeQueryProofs ----------------------------
(***************************************************************************)
(* Proofs about CeQuery, for any number of records, page and byte limits,   *)
(* and any durations that satisfy DurationsAssumption.  The inductive       *)
(* invariant says what holds while a request is out: the session asked for  *)
(* continues behind the records received, the time is within the budget and *)
(* one request of its end, and every file written is still there.           *)
(***************************************************************************)
EXTENDS CeQuery, SequenceTheorems, TLAPS

USE ConstantsAssumption, DurationsAssumption

\* While a request is out, and all along where it says nothing of pc.
Underway ==
    /\ Len(files) = IF caller = "mcp" THEN pages ELSE 0
    /\ pc = "asked" =>
          /\ From = Len(received) /\ shown = None
          /\ pages < maxPages
          /\ sentAt <= Budget /\ now <= sentAt + Delay
          /\ \A i \in 1..Len(files) : \E file \in disk : file.page = i

IInv ==
    /\ TypeOK /\ Underway
    /\ NoGapNoRepeat /\ CompleteSaysComplete /\ NothingPlain /\ FilesThere

-----------------------------------------------------------------------------
(* Pages *)

\* Of the pages the server may answer with, those that parse_page takes say how
\* many records they hold, whether more follow, and then where.
LEMMA GoodPage ==
    ASSUME TypeOK, NEW p \in Answers, PageError(p) = None
    PROVE  /\ p.count \in Nat /\ From + p.count <= Total
           /\ p.more <=> From + p.count < Total
           /\ p.more => p.session = From + p.count
<1>1. From \in 0..Total /\ Total \in Nat
  BY DEF TypeOK, From
<1>2. PICK n \in 0..(Total - From) :
         \/ p = Sound(n)
         \/ p = [Sound(n) EXCEPT !.session = None]
         \/ p = [Sound(n) EXCEPT !.count = None]
         \/ p = [Sound(n) EXCEPT !.refused = TRUE]
         \/ \E b \in BOOLEAN : p = [Sound(n) EXCEPT !.fault = TRUE, !.refused = b]
         \/ \E b \in BOOLEAN : p = [Sound(n) EXCEPT !.doctype = TRUE, !.refused = b]
         \/ \E b \in BOOLEAN : p = [Sound(n) EXCEPT !.xml = FALSE, !.refused = b]
  <2>1. PICK q \in {Sound(n) : n \in 0..(Total - From)} :
           p \in {q, [q EXCEPT !.session = None], [q EXCEPT !.count = None],
                  [q EXCEPT !.refused = TRUE]}
                 \union {[q EXCEPT !.fault = TRUE, !.refused = b] : b \in BOOLEAN}
                 \union {[q EXCEPT !.doctype = TRUE, !.refused = b] : b \in BOOLEAN}
                 \union {[q EXCEPT !.xml = FALSE, !.refused = b] : b \in BOOLEAN}
    BY Zenon DEF Answers
  <2>2. PICK n \in 0..(Total - From) : q = Sound(n)
    BY <2>1, Zenon
  <2> QED BY <2>1, <2>2, Zenon
<1>3. Sound(n) = [xml |-> TRUE, doctype |-> FALSE, fault |-> FALSE, refused |-> FALSE,
                  count |-> n, more |-> From + n < Total, session |-> From + n]
  BY DEF Sound
<1> HIDE DEF Sound
<1>4. "http_error" # None /\ "parse_error" # None /\ "soap_fault" # None
      /\ "missing_query_session" # None
  BY DEF Errors, Reasons
<1>5. CASE p = Sound(n) \/ p = [Sound(n) EXCEPT !.session = None]
  <2>1. /\ p.count = n /\ p.more = (From + n < Total)
        /\ p.session = None \/ p.session = From + n
        /\ p.xml /\ ~p.doctype /\ ~p.fault /\ ~p.refused
    BY <1>3, <1>5
  <2>2. p.count # None
    BY <1>1, <2>1
  <2>3. p.more => p.session # None
    BY <1>4, <2>1, <2>2 DEF PageError
  <2>4. n \in Nat /\ From + n <= Total
    BY <1>1
  <2> QED BY <2>1, <2>3, <2>4
<1>6. CASE p = [Sound(n) EXCEPT !.count = None]
  <2>1. p.count = None /\ p.xml /\ ~p.doctype /\ ~p.fault /\ ~p.refused
    BY <1>3, <1>6
  <2> QED BY <1>4, <2>1 DEF PageError
<1>7. CASE p = [Sound(n) EXCEPT !.refused = TRUE]
  <2>1. p.xml /\ ~p.doctype /\ ~p.fault /\ p.refused
    BY <1>3, <1>7
  <2> QED BY <1>4, <2>1 DEF PageError
<1>8. CASE \E b \in BOOLEAN : p = [Sound(n) EXCEPT !.fault = TRUE, !.refused = b]
  <2>1. p.xml /\ ~p.doctype /\ p.fault
    BY <1>3, <1>8
  <2> QED BY <1>4, <2>1 DEF PageError
<1>9. CASE \E b \in BOOLEAN : p = [Sound(n) EXCEPT !.doctype = TRUE, !.refused = b]
  <2>1. p.xml /\ p.doctype
    BY <1>3, <1>9
  <2> QED BY <1>4, <2>1 DEF PageError
<1>10. CASE \E b \in BOOLEAN : p = [Sound(n) EXCEPT !.xml = FALSE, !.refused = b]
  <2>1. ~p.xml
    BY <1>3, <1>10
  <2> QED BY <1>4, <2>1 DEF PageError
<1> QED BY <1>2, <1>5, <1>6, <1>7, <1>8, <1>9, <1>10

\* parse_page reports one of its errors, or none.
LEMMA ErrorNamed == \A p : PageError(p) \in Errors \union {None}
  BY DEF PageError, Errors

\* The records of a good page continue those received.
LEMMA Extended ==
    ASSUME NEW n \in Nat, received \in Seq(1..Total), NoGapNoRepeat,
           Len(received) + n <= Total,
           NEW more, more = [i \in 1..n |-> Len(received) + i]
    PROVE  /\ received \o more \in Seq(1..Total)
           /\ Len(received \o more) = Len(received) + n
           /\ \A i \in 1..(Len(received) + n) : (received \o more)[i] = i
<1>1. more \in Seq(1..Total) /\ Len(more) = n
  <2>1. Len(received) \in Nat
    OBVIOUS
  <2>2. \A i \in 1..n : Len(received) + i \in 1..Total
    BY <2>1
  <2> QED BY <2>2
<1>2. /\ received \o more \in Seq(1..Total)
      /\ Len(received \o more) = Len(received) + Len(more)
      /\ \A i \in 1..(Len(received) + Len(more)) :
            (received \o more)[i] = IF i <= Len(received) THEN received[i]
                                    ELSE more[i - Len(received)]
  BY <1>1, ConcatProperties
<1>3. ASSUME NEW i \in 1..(Len(received) + n) PROVE (received \o more)[i] = i
  <2>1. Len(received) \in Nat
    OBVIOUS
  <2>2. CASE i <= Len(received)
    BY <1>1, <1>2, <2>1, <2>2 DEF NoGapNoRepeat
  <2>3. CASE ~(i <= Len(received))
    <3>1. i - Len(received) \in 1..n
      BY <2>1, <2>3
    <3> QED BY <1>1, <1>2, <2>1, <2>3, <3>1
  <2> QED BY <2>2, <2>3
<1> QED BY <1>1, <1>2, <1>3

\* Of a page the loop goes on with.
LEMMA Kept ==
    ASSUME IInv, NEW p \in Answers, PageError(p) = None, pc = "asked", Keep(p)
    PROVE  /\ pages' = pages + 1
           /\ received' \in Seq(1..Total)
           /\ Len(received') = From + p.count
           /\ \A i \in 1..Len(received') : received'[i] = i
<1>1. From = Len(received) /\ received \in Seq(1..Total) /\ NoGapNoRepeat
  BY DEF IInv, Underway, TypeOK
<1>2. p.count \in Nat /\ From + p.count <= Total
  BY GoodPage DEF IInv
<1>3. received' = received \o RecordsOf(p) /\ pages' = pages + 1
  BY DEF Keep
<1>4. RecordsOf(p) = [i \in 1..p.count |-> Len(received) + i]
  BY <1>1 DEF RecordsOf
<1> QED BY <1>1, <1>2, <1>3, <1>4, Extended

\* Where a good page leaves the call: over, complete or cut off at the page limit;
\* raised; or asking for what follows, in time.
LEMMA Followed ==
    ASSUME IInv, NEW p \in Answers, PageError(p) = None, pc = "asked",
           After(p, pages + 1)
    PROVE  /\ session' \in 0..Total \union {None} /\ now' = now /\ sentAt' \in 0..now
           /\ \/ /\ pc' = "returned" /\ stopped' = "exhausted"
                 /\ From + p.count = Total
              \/ /\ pc' = "returned" /\ stopped' = "max_pages"
                 /\ From + p.count < Total
              \/ pc' = "raised" /\ stopped' = None
              \/ /\ pc' = "asked" /\ stopped' = None /\ pages + 1 < maxPages
                 /\ From' = From + p.count /\ From + p.count < Total
                 /\ sentAt' = now /\ now <= Budget
<1>1. /\ stopped = None /\ session \in 0..Total \union {None}
      /\ now \in Nat /\ sentAt \in 0..now /\ Budget \in Nat /\ From \in Nat
      /\ pages \in Nat /\ maxPages \in Nat
  BY DEF IInv, TypeOK, From
<1>2. /\ p.count \in Nat /\ From + p.count <= Total
      /\ p.more <=> From + p.count < Total
      /\ p.more => p.session = From + p.count
  BY GoodPage DEF IInv
<1>3. CASE ~p.more
  <2>1. Give("exhausted")
    BY <1>3 DEF After
  <2>2. From + p.count = Total
    BY <1>1, <1>2, <1>3
  <2> QED BY <1>1, <2>1, <2>2 DEF Give, clock
<1>4. CASE p.more /\ pages + 1 >= maxPages
  <2>1. Give("max_pages")
    BY <1>4 DEF After
  <2> QED BY <1>1, <1>2, <1>4, <2>1 DEF Give, clock
<1>5. CASE p.more /\ ~(pages + 1 >= maxPages)
  <2>1. AskMore(p)
    BY <1>5 DEF After
  <2>2. CASE Late
    BY <1>1, <2>1, <2>2 DEF AskMore, Raised, clock
  <2>3. CASE ~Late
    <3>1. pc' = "asked" /\ session' = p.session /\ sentAt' = now /\ now' = now
          /\ stopped' = stopped
      BY <2>1, <2>3 DEF AskMore, Send
    <3>2. session' = From + p.count /\ session' \in 0..Total /\ session' # None
      BY <1>1, <1>2, <1>5, <3>1
    <3>3. From' = From + p.count
      BY <3>2 DEF From
    <3>4. now <= Budget
      BY <1>1, <2>3 DEF Late
    <3> QED BY <1>1, <1>2, <1>5, <3>1, <3>2, <3>3, <3>4
  <2> QED BY <2>2, <2>3
<1> QED BY <1>3, <1>4, <1>5

\* Nothing this young is pruned: a file of the call outlives it.
LEMMA NotPruned ==
    ASSUME IInv, pc = "asked"
    PROVE  Pruned = disk
<1>1. ASSUME NEW file \in disk PROVE ~Old(file)
  <2>1. file.at \in Nat /\ now \in Nat /\ sentAt \in Nat
    BY DEF IInv, TypeOK
  <2>2. sentAt <= Budget /\ now <= sentAt + Delay
    BY DEF IInv, Underway
  <2> QED BY <2>1, <2>2 DEF Old
<1> QED BY <1>1 DEF Pruned

-----------------------------------------------------------------------------
(* The inductive invariant *)

LEMMA IInvInit == Init => IInv
<1> SUFFICES ASSUME Init PROVE IInv
  OBVIOUS
<1> USE DEF Init, InitFiles
<1>1. TypeOK
  <2>1. maxPages \in Nat /\ 0 \in 0..maxPages /\ 0 \in 0..MaxBytes
    BY DEF Init
  <2> QED BY <2>1 DEF TypeOK
<1>2. Underway
  <2>1. From = 0 /\ maxPages \in Nat \ {0}
    BY DEF From
  <2> QED BY <2>1 DEF Underway
<1>3. NoGapNoRepeat /\ CompleteSaysComplete /\ NothingPlain /\ FilesThere
  BY DEF NoGapNoRepeat, CompleteSaysComplete, NothingPlain, FilesThere, Reasons, Contents
<1> QED BY <1>1, <1>2, <1>3 DEF IInv

\* The call ends without a new page: what it holds stays as it is.
LEMMA EndStep ==
    ASSUME IInv, pc = "asked", NEW reason \in (Reasons \ {"exhausted", "max_pages"}) \union {None},
           UNCHANGED <<caller, filter, maxPages, session, received, pages, files, clock, disk>>,
           spent' \in 0..MaxBytes,
           pc' = IF reason = None THEN "raised" ELSE "returned", stopped' = reason,
           shown' \in Contents \union {None},
           filter /\ shown' = "plain" => lastPage'.refused /\ (~lastPage'.xml \/ lastPage'.doctype)
    PROVE  IInv'
<1> USE DEF IInv, TypeOK, clock
<1>1. TypeOK'
  BY DEF Reasons
<1>2. Underway'
  BY DEF Underway
<1>3. NoGapNoRepeat'
  BY DEF NoGapNoRepeat
<1>4. CompleteSaysComplete'
  BY DEF CompleteSaysComplete, Reasons
<1>5. NothingPlain'
  BY DEF NothingPlain
<1>6. FilesThere'
  BY DEF FilesThere, Underway
<1> QED BY <1>1, <1>2, <1>3, <1>4, <1>5, <1>6

\* A REST error page joins the pages, not the records.
LEMMA RestErrorStep ==
    ASSUME IInv, NEW p \in Answers, NEW size \in Sizes, RestPage(p, size),
           PageError(p) # None, spent + size <= MaxBytes
    PROVE  IInv'
<1>1. /\ pc = "asked" /\ caller = "rest" /\ Give(PageError(p)) /\ Keep(p)
      /\ spent' = spent + size
      /\ UNCHANGED <<caller, filter, maxPages, files, shown, disk>>
  <2>1. ~(spent + size > MaxBytes)
    <3>1. spent \in Nat /\ size \in Nat /\ MaxBytes \in Nat
      BY DEF IInv, TypeOK
    <3> QED BY <3>1
  <2> QED BY <2>1 DEF RestPage
<1>2. PageError(p) \in Errors
  BY ErrorNamed
<1>3. /\ spent' \in 0..MaxBytes /\ received' = received /\ pages' = pages + 1
      /\ pages' \in 0..maxPages /\ Len(files) = 0
  BY <1>1 DEF IInv, TypeOK, Underway, Keep
<1>4. /\ pc' = "returned" /\ stopped' = PageError(p) /\ session' = session
      /\ now' = now /\ sentAt' = sentAt
  BY <1>1 DEF Give, clock
<1> USE <1>1, <1>2, <1>3, <1>4 DEF IInv, TypeOK
<1>5. TypeOK'
  BY DEF Reasons
<1>6. Underway'
  BY DEF Underway
<1>7. NoGapNoRepeat' /\ CompleteSaysComplete'
  BY DEF NoGapNoRepeat, CompleteSaysComplete, Errors
<1>8. NothingPlain'
  BY DEF NothingPlain, Underway, Contents
<1>9. FilesThere'
  BY DEF FilesThere
<1> QED BY <1>5, <1>6, <1>7, <1>8, <1>9

\* A good page, in either loop.
LEMMA GoodStep ==
    ASSUME IInv, pc = "asked", NEW p \in Answers, PageError(p) = None,
           Keep(p), After(p, pages + 1),
           UNCHANGED <<caller, filter, maxPages, shown>>, spent' \in 0..MaxBytes,
           \/ caller = "rest" /\ UNCHANGED <<files, disk>>
           \/ /\ caller = "mcp" /\ Write(pages + 1)
              /\ files' = Append(files, IF filter THEN "tokens" ELSE "plain")
    PROVE  IInv'
<1> USE DEF IInv
<1>1. /\ pages \in Nat /\ pages < maxPages /\ pages' = pages + 1 /\ shown = None
      /\ received' \in Seq(1..Total) /\ Len(received') = From + p.count
      /\ \A i \in 1..Len(received') : received'[i] = i
  BY Kept DEF Underway, TypeOK
<1>2. /\ session' \in 0..Total \union {None} /\ now' = now /\ sentAt' \in 0..now
      /\ \/ /\ pc' = "returned" /\ stopped' = "exhausted"
            /\ From + p.count = Total
         \/ /\ pc' = "returned" /\ stopped' = "max_pages"
            /\ From + p.count < Total
         \/ pc' = "raised" /\ stopped' = None
         \/ /\ pc' = "asked" /\ stopped' = None /\ pages + 1 < maxPages
            /\ From' = From + p.count /\ From + p.count < Total
            /\ sentAt' = now /\ now <= Budget
  BY Followed
<1>3. /\ files' \in Seq(Contents)
      /\ Len(files') = IF caller = "mcp" THEN pages' ELSE 0
      /\ filter => \A i \in DOMAIN files' : files'[i] = "tokens"
      /\ disk' \subseteq [page : 1..Len(files'), at : 0..now']
      /\ \A i \in 1..Len(files') : \E file \in disk' : file.page = i
  <2>1. /\ Len(files) = IF caller = "mcp" THEN pages ELSE 0
        /\ \A i \in 1..Len(files) : \E file \in disk : file.page = i
        /\ disk \subseteq [page : 1..Len(files), at : 0..now]
        /\ files \in Seq(Contents) /\ now \in Nat
        /\ filter => \A i \in 1..Len(files) : files[i] = "tokens"
    BY DEF Underway, TypeOK, NothingPlain
  <2>2. CASE caller = "rest" /\ UNCHANGED <<files, disk>>
    BY <1>2, <2>1, <2>2
  <2>3. CASE /\ caller = "mcp" /\ Write(pages + 1)
             /\ files' = Append(files, IF filter THEN "tokens" ELSE "plain")
    <3>1. disk' = disk \union {[page |-> pages + 1, at |-> now]}
      BY <2>3, NotPruned DEF Write
    <3>2. /\ files' \in Seq(Contents) /\ Len(files') = pages + 1
          /\ \A i \in 1..pages : files'[i] = files[i]
          /\ files'[pages + 1] = IF filter THEN "tokens" ELSE "plain"
          /\ DOMAIN files' = 1..(pages + 1)
      BY <1>1, <2>1, <2>3 DEF Contents
    <3>3. \A i \in 1..(pages + 1) : i \in 1..pages \/ i = pages + 1
      BY <1>1
    <3>4. filter => \A i \in DOMAIN files' : files'[i] = "tokens"
      BY <2>1, <2>3, <3>2, <3>3
    <3>5. disk' \subseteq [page : 1..Len(files'), at : 0..now']
      <4>1. \A file \in disk : file \in [page : 1..(pages + 1), at : 0..now]
        BY <1>1, <2>1, <2>3
      <4>2. [page |-> pages + 1, at |-> now] \in [page : 1..(pages + 1), at : 0..now]
        BY <1>1, <2>1
      <4> QED BY <1>2, <3>1, <3>2, <4>1, <4>2
    <3>6. \A i \in 1..Len(files') : \E file \in disk' : file.page = i
      <4>1. \A i \in 1..pages : \E file \in disk' : file.page = i
        BY <2>1, <2>3, <3>1
      <4>2. \E file \in disk' : file.page = pages + 1
        <5>1. [page |-> pages + 1, at |-> now] \in disk'
          BY <3>1
        <5> QED BY <5>1
      <4> QED BY <3>2, <3>3, <4>1, <4>2
    <3> QED BY <1>1, <2>3, <3>2, <3>4, <3>5, <3>6
  <2> QED BY <2>2, <2>3
<1>4. TypeOK'
  <2>1. pages' \in 0..maxPages' /\ caller' \in {"rest", "mcp"} /\ filter' \in BOOLEAN
        /\ maxPages' \in PageLimits /\ shown' \in Contents \union {None} /\ now' \in Nat
    BY <1>1, <1>2 DEF TypeOK
  <2>2. /\ pc' \in {"asked", "returned", "raised"} /\ stopped' \in Reasons \union {None}
        /\ pc' = "returned" <=> stopped' # None
    BY <1>2 DEF Reasons
  <2> QED BY <1>1, <1>2, <1>3, <2>1, <2>2 DEF TypeOK
<1>5. Underway'
  <2>1. pc' = "asked" => now' <= sentAt' + Delay
    BY <1>2 DEF TypeOK
  <2> QED BY <1>1, <1>2, <1>3, <2>1 DEF Underway
<1>6. NoGapNoRepeat' /\ CompleteSaysComplete'
  BY <1>1, <1>2 DEF NoGapNoRepeat, CompleteSaysComplete, Reasons
<1>7. NothingPlain'
  BY <1>1, <1>3 DEF NothingPlain, Contents
<1>8. FilesThere'
  <2>1. DOMAIN files' = 1..Len(files')
    BY <1>3
  <2> QED BY <1>3, <2>1 DEF FilesThere
<1> QED BY <1>4, <1>5, <1>6, <1>7, <1>8

LEMMA WaitStep == IInv /\ Wait => IInv'
<1> SUFFICES ASSUME IInv, Wait PROVE IInv'
  OBVIOUS
<1>1. /\ pc = "asked" /\ disk' = disk /\ sentAt' = sentAt
      /\ UNCHANGED <<caller, filter, maxPages, pc, session, received, pages, spent, files,
                     shown, lastPage, stopped>>
      /\ now' = now \/ (now < sentAt + Delay /\ now' = now + 1)
  BY NotPruned DEF Wait, Tick, OthersWrite, clock
<1> USE <1>1 DEF IInv
<1>2. TypeOK'
  <2>1. now' \in Nat /\ sentAt' \in 0..now' /\ \A n \in 0..now : n \in 0..now'
    BY DEF TypeOK
  <2> QED BY <2>1 DEF TypeOK
<1>3. Underway'
  <2>1. sentAt' <= Budget /\ now' <= sentAt' + Delay
    BY DEF Underway, TypeOK
  <2> QED BY <2>1 DEF Underway, From
<1>4. NoGapNoRepeat' /\ CompleteSaysComplete' /\ NothingPlain' /\ FilesThere'
  BY DEF NoGapNoRepeat, CompleteSaysComplete, NothingPlain, FilesThere
<1> QED BY <1>2, <1>3, <1>4

LEMMA IInvStep == IInv /\ [Next]_vars => IInv'
<1> SUFFICES ASSUME IInv, [Next]_vars PROVE IInv'
  OBVIOUS
<1>0. spent \in 0..MaxBytes /\ (pc = "asked" => stopped = None /\ shown = None)
  BY DEF IInv, TypeOK, Underway
<1>1. ASSUME NEW p \in Answers, McpError(p) PROVE IInv'
  <2>1. pc = "asked" /\ PageError(p) \in Errors /\ shown = None
    BY <1>0, <1>1, ErrorNamed DEF McpError
  <2>2. PICK reason \in Errors \union {"vault_unavailable"} :
           /\ Give(reason)
           /\ shown' = ErrorBody(p) \/ shown' = None
           /\ lastPage' = p
           /\ UNCHANGED <<caller, filter, maxPages, received, pages, spent, files, disk>>
    BY <1>1, <2>1 DEF McpError
  <2>3. /\ ErrorBody(p) \in Contents \union {None}
        /\ filter /\ ErrorBody(p) = "plain" => p.refused /\ (~p.xml \/ p.doctype)
    BY DEF ErrorBody, Contents
  <2>4. reason \in Reasons \ {"exhausted", "max_pages"} /\ reason # None
    BY DEF Reasons, Errors
  <2>5. "plain" # None
    BY DEF Contents
  <2> QED BY <1>0, <2>1, <2>2, <2>3, <2>4, <2>5, EndStep DEF Give
<1>2. ASSUME NEW p \in Answers, McpVaultFails(p) PROVE IInv'
  <2>1. "vault_unavailable" \in Reasons \ {"exhausted", "max_pages"} /\ "plain" # None
        /\ "vault_unavailable" # None
    BY DEF Reasons, Contents
  <2> QED BY <1>0, <1>2, <2>1, EndStep DEF McpVaultFails, Give
<1>3. ASSUME NEW p \in Answers, McpPage(p) PROVE IInv'
  BY <1>0, <1>3, GoodStep DEF McpPage
<1>4. ASSUME NEW p \in Answers, NEW size \in Sizes, RestPage(p, size) PROVE IInv'
  <2>1. CASE spent + size > MaxBytes
    <3>1. "plain" # None
      BY DEF Contents
    <3> QED BY <1>0, <1>4, <2>1, <3>1, EndStep DEF RestPage, Raised
  <2>2. CASE spent + size <= MaxBytes /\ PageError(p) # None
    BY <1>4, <2>2, RestErrorStep
  <2>3. CASE spent + size <= MaxBytes /\ PageError(p) = None
    <3>1. spent + size \in 0..MaxBytes
      BY <1>0, <2>3
    <3> QED BY <1>4, <2>3, <3>1, GoodStep DEF RestPage
  <2>4. spent + size \in Nat
    BY <1>0
  <2> QED BY <2>1, <2>2, <2>3, <2>4
<1>5. CASE Raise
  <2>1. "plain" # None
    BY DEF Contents
  <2> QED BY <1>0, <1>5, <2>1, EndStep DEF Raise, Raised
<1>6. CASE Wait
  BY <1>6, WaitStep
<1>7. CASE UNCHANGED vars
  BY <1>7 DEF vars, IInv, TypeOK, Underway, From, NoGapNoRepeat, CompleteSaysComplete,
              NothingPlain, FilesThere
<1> QED BY <1>1, <1>2, <1>3, <1>4, <1>5, <1>6, <1>7 DEF Next

LEMMA IInvHolds == Spec => []IInv
  BY IInvInit, IInvStep, PTL DEF Spec

-----------------------------------------------------------------------------
(* What a reader should know of the two loops *)

\* Types; pages and bytes stay within their limits.
THEOREM TypeCorrect == Spec => []TypeOK
  BY IInvHolds, PTL DEF IInv

\* The pages taken are the records in order.
THEOREM Contiguous == Spec => []NoGapNoRepeat
  BY IInvHolds, PTL DEF IInv

\* A result says whether it is complete, rightly.
THEOREM Complete == Spec => []CompleteSaysComplete
  BY IInvHolds, PTL DEF IInv

\* With a PII filter nothing of a page leaves the call untokenized.
THEOREM Tokenized == Spec => []NothingPlain
  BY IInvHolds, PTL DEF IInv

\* No file of a call is pruned before the call has named it in its answer.
THEOREM FilesOutliveCall == Spec => []FilesThere
  BY IInvHolds, PTL DEF IInv
=============================================================================
