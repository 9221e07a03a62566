--------------------------- MODULE InquiryProofs ----------------------------
(***************************************************************************)
(* Proofs about LoanInquiry, for every number of loans, requests and days, *)
(* every schedule, and whatever Fincloud returns.                          *)
(***************************************************************************)
EXTENDS LoanInquiry, Induction, FiniteSetTheorems, TLAPS

-----------------------------------------------------------------------------
(* Answers.                                                                *)

\* The first rule whose classes an error belongs to decides.
LEMMA FirstMatchIs ==
    ASSUME NEW rules, DOMAIN rules \in SUBSET Nat, NEW kinds
    PROVE  \/ /\ FirstMatch(rules, kinds) = "internal_error"
              /\ \A i \in DOMAIN rules : rules[i][1] \cap kinds = {}
           \/ \E i \in DOMAIN rules : /\ FirstMatch(rules, kinds) = rules[i][2]
                              /\ rules[i][1] \cap kinds # {}
                              /\ \A j \in DOMAIN rules : j < i => rules[j][1] \cap kinds = {}
<1> DEFINE hits == {i \in DOMAIN rules : rules[i][1] \cap kinds # {}}
<1>1. FirstMatch(rules, kinds) = IF hits = {} THEN "internal_error" ELSE rules[Min(hits)][2]
  BY DEF FirstMatch
<1>2. CASE hits = {}
  BY <1>1, <1>2
<1>3. CASE hits # {}
  <2>1. \E x \in hits : \A y \in hits : x <= y
    <3>1. hits \in SUBSET Nat
      OBVIOUS
    <3> HIDE DEF hits
    <3>2. QED
      BY <1>3, <3>1, LeastNumber
  <2>2. Min(hits) \in hits /\ \A y \in hits : Min(hits) <= y
    <3> HIDE DEF hits
    <3>1. QED
      BY <2>1 DEF Min
  <2> DEFINE i == Min(hits)
  <2>3. i \in DOMAIN rules /\ rules[i][1] \cap kinds # {} /\ FirstMatch(rules, kinds) = rules[i][2]
    BY <1>1, <1>3, <2>2
  <2>4. ASSUME NEW j \in DOMAIN rules, j < i PROVE rules[j][1] \cap kinds = {}
    <3>1. j \notin hits
      <4> HIDE DEF hits
      <4> QED BY <2>2, <2>3, <2>4
    <3>2. QED
      BY <3>1
  <2> HIDE DEF i
  <2>5. QED
    BY <2>3, <2>4
<1>4. QED
  BY <1>2, <1>3

\* A caller is told "not found" only of an error that says nothing else.
OtherKinds == Unavailable \cup {"ErrHistoricalEvidence", "ErrCurrentSnapshot", "ErrInvalidInput",
                                "ErrAmbiguous", "ErrUnsupported"}

LEMMA NotFoundIsLast ==
    ASSUME NEW kinds, NEW outcome \in {PositionError(kinds), InquiryError(kinds)}
    PROVE  /\ outcome \in Outcomes \ {"success"}
           /\ outcome = "not_found" => OtherKinds \cap kinds = {} /\ "ErrNotFound" \in kinds
<1>1. CASE outcome = PositionError(kinds)
  <2> DEFINE rules == <<<<{"ErrInvalidInput"}, "bad_request">>,
                        <<{"ErrAmbiguous"}, "ambiguous_account">>,
                        <<{"ErrUnsupported"}, "unsupported_calculation">>,
                        <<Unavailable \cup {"ErrHistoricalEvidence", "ErrCurrentSnapshot"},
                          "service_unavailable">>,
                        <<{"ErrNotFound"}, "not_found">>>>
  <2>1. outcome = FirstMatch(rules, kinds)
    BY <1>1 DEF PositionError
  <2>2. /\ DOMAIN rules = 1..5 /\ 5 \in Nat
        /\ rules[1][1] = {"ErrInvalidInput"} /\ rules[1][2] = "bad_request"
        /\ rules[2][1] = {"ErrAmbiguous"} /\ rules[2][2] = "ambiguous_account"
        /\ rules[3][1] = {"ErrUnsupported"} /\ rules[3][2] = "unsupported_calculation"
        /\ rules[4][1] = Unavailable \cup {"ErrHistoricalEvidence", "ErrCurrentSnapshot"}
        /\ rules[4][2] = "service_unavailable"
        /\ rules[5][1] = {"ErrNotFound"} /\ rules[5][2] = "not_found"
    OBVIOUS
  <2> HIDE DEF rules
  <2>3. CASE FirstMatch(rules, kinds) = "internal_error"
    BY <2>1, <2>3 DEF Outcomes
  <2>4. CASE FirstMatch(rules, kinds) # "internal_error"
    <3>1. PICK i \in 1..5 : /\ FirstMatch(rules, kinds) = rules[i][2]
                            /\ rules[i][1] \cap kinds # {}
                            /\ \A j \in 1..5 : j < i => rules[j][1] \cap kinds = {}
      <4>1. DOMAIN rules = 1..5 /\ DOMAIN rules \in SUBSET Nat
        BY <2>2
      <4>2. QED
        BY <2>4, <4>1, FirstMatchIs
    <3>2. i = 1 \/ i = 2 \/ i = 3 \/ i = 4 \/ i = 5
      OBVIOUS
    <3>3. outcome = "not_found" => i = 5
      BY <2>1, <2>2, <3>1, <3>2
    <3>4. i = 5 => OtherKinds \cap kinds = {} /\ "ErrNotFound" \in kinds
      BY <2>2, <3>1 DEF OtherKinds
    <3>5. outcome \in Outcomes \ {"success"}
      BY <2>1, <2>2, <3>1, <3>2 DEF Outcomes
    <3>6. QED
      BY <3>3, <3>4, <3>5
  <2>5. QED
    BY <2>3, <2>4
<1>2. CASE outcome = InquiryError(kinds)
  <2> DEFINE rules == <<<<{"ErrInvalidInput"}, "bad_request">>,
                        <<{"ErrUnsupported"}, "unsupported_calculation">>,
                        <<{"ErrAmbiguous"}, "ambiguous_account">>,
                        <<{"ErrCurrentSnapshot"}, "service_unavailable">>,
                        <<{"ErrHistoricalEvidence"}, "service_unavailable">>,
                        <<Unavailable, "service_unavailable">>,
                        <<{"ErrNotFound"}, "not_found">>>>
  <2>1. outcome = FirstMatch(rules, kinds)
    BY <1>2 DEF InquiryError
  <2>2. /\ DOMAIN rules = 1..7 /\ 7 \in Nat
        /\ rules[1][1] = {"ErrInvalidInput"} /\ rules[1][2] = "bad_request"
        /\ rules[2][1] = {"ErrUnsupported"} /\ rules[2][2] = "unsupported_calculation"
        /\ rules[3][1] = {"ErrAmbiguous"} /\ rules[3][2] = "ambiguous_account"
        /\ rules[4][1] = {"ErrCurrentSnapshot"} /\ rules[4][2] = "service_unavailable"
        /\ rules[5][1] = {"ErrHistoricalEvidence"} /\ rules[5][2] = "service_unavailable"
        /\ rules[6][1] = Unavailable /\ rules[6][2] = "service_unavailable"
        /\ rules[7][1] = {"ErrNotFound"} /\ rules[7][2] = "not_found"
    OBVIOUS
  <2> HIDE DEF rules
  <2>3. CASE FirstMatch(rules, kinds) = "internal_error"
    BY <2>1, <2>3 DEF Outcomes
  <2>4. CASE FirstMatch(rules, kinds) # "internal_error"
    <3>1. PICK i \in 1..7 : /\ FirstMatch(rules, kinds) = rules[i][2]
                            /\ rules[i][1] \cap kinds # {}
                            /\ \A j \in 1..7 : j < i => rules[j][1] \cap kinds = {}
      <4>1. DOMAIN rules = 1..7 /\ DOMAIN rules \in SUBSET Nat
        BY <2>2
      <4>2. QED
        BY <2>4, <4>1, FirstMatchIs
    <3>2. i = 1 \/ i = 2 \/ i = 3 \/ i = 4 \/ i = 5 \/ i = 6 \/ i = 7
      OBVIOUS
    <3>3. outcome = "not_found" => i = 7
      BY <2>1, <2>2, <3>1, <3>2
    <3>4. i = 7 => OtherKinds \cap kinds = {} /\ "ErrNotFound" \in kinds
      BY <2>2, <3>1 DEF OtherKinds
    <3>5. outcome \in Outcomes \ {"success"}
      BY <2>1, <2>2, <3>1, <3>2 DEF Outcomes
    <3>6. QED
      BY <3>3, <3>4, <3>5
  <2>5. QED
    BY <2>3, <2>4
<1>3. QED
  BY <1>1, <1>2

-----------------------------------------------------------------------------
(* The invariant, over any request and any world around it.                *)

On(c) == IF c.object # Blank THEN c.object ELSE c.legacy
Record(l, d, c) ==
    LET at(source) == Position(source, l, d, IF source = "closed" THEN 0 ELSE Quality[l][d])
    IN  IF On(c) # Blank /\ On(c) <= d THEN ResultView(at("closed"), at("closed"), NoTimeline)
        ELSE IF d <= Cutoff THEN ResultView(at("MSO"), at("MSO"), NoTimeline)
        ELSE IF Bank[l].start > Cutoff \/ ~Bank[l].flat THEN ResultView(at("DWH"), at("DWH"), NoTimeline)
        ELSE ResultView(at("reconstructed"), at("DWH"), [e \in (Cutoff + 1)..d |-> Quality[l][e]])

World(dy, sn, cl, dw) ==
    /\ dy \in FirstDay..MaxDay /\ sn \in 0..MaxDay
    /\ cl \in [Loans -> [object : Days \cup {Blank}, legacy : Days \cup {Blank, None}]]
    /\ dw \in [Loans -> [Days -> SUBSET (1..5)]]
    /\ \A l \in Loans : /\ cl[l].object = Blank => cl[l].legacy # None
                        /\ cl[l].object # Blank => cl[l].legacy \in {None, cl[l].object}
                        /\ On(cl[l]) # Blank => On(cl[l]) <= dy
    /\ \A l \in Loans, d \in Days :
         /\ dw[l][d] \in {{}, {Quality[l][d]}, {Quality[l][d], 5}}
         /\ dw[l][d] # {} => \A e \in (Cutoff + 1)..d : dw[l][e] # {}

Progress(q, dy) ==
    /\ q.pc # "answered" => q.outcome = None
    /\ q.pc # "idle" => q.asOf \in Days /\ q.today \in FirstDay..dy /\ q.via \in Channels
    /\ q.pc \in Identified \cup {"alternate"} \/ q.outcome = "success" => q.asOf <= q.today
Right(q) ==
    /\ q.loan \in Loans
    /\ q.misled \cap {"other", "blank"} = {} => Has(q.loan, q.account)
    /\ q.misled \cap {"other", "denied", "omitted"} = {} =>
         \A l \in Loans : Has(l, q.account) => l = q.loan
Located(q) ==
    /\ q.pc = "primary" => q.misled = {}
    /\ q.pc = "alternate" => q.misled = IF q.account \in Loans THEN {"denied"} ELSE {}
    /\ q.pc \in Identified \/ q.outcome = "success" => Right(q)
Closes(q, cl) == q.pc \in Contracted =>
    /\ q.close = 0 => On(cl[q.loan]) = Blank \/ On(cl[q.loan]) >= q.today
    /\ q.close # 0 => q.close = On(cl[q.loan])
    /\ q.pc # "route" => ~(q.close # 0 /\ q.close <= q.asOf)
Read(q, dw) == /\ Bank[q.loan].start \in 1..Cutoff
               /\ q.exact \in Positions /\ q.exact.loan = q.loan /\ q.exact.day = q.asOf
               /\ q.asOf = q.today => q.exact.quality = Quality[q.loan][q.asOf]
               /\ q.asOf # q.today => /\ q.exact.source = "DWH"
                                      /\ q.exact.quality \in dw[q.loan][q.asOf]
Exact(q, dw) ==
    /\ q.pc = "history" => q.asOf < Cutoff
    /\ q.pc = "opening" => q.asOf >= Cutoff
    /\ q.pc \in {"exact", "timeline"} => q.asOf > Cutoff
    /\ q.pc = "timeline" => Bank[q.loan].flat
    /\ q.pc \in {"opening", "timeline"} /\ q.asOf > Cutoff => Read(q, dw)
Evidence(q) == q.outcome = "success" =>
    /\ \A p \in {q.result.position, q.result.actual} : p.loan = q.loan /\ p.day = q.asOf
    /\ \A e \in DOMAIN q.result.timeline : q.result.timeline[e] = Quality[q.loan][e]
Unknown(q) == q.outcome = "not_found" /\ q.misled \cap {"denied", "omitted"} = {} =>
    \A l \in Loans : ~Has(l, q.account)
Stable(q, cl, dw) ==
    q.outcome = "success" /\ q.asOf < q.today /\ Cardinality(dw[q.loan][q.asOf]) <= 1
    => q.result = Record(q.loan, q.asOf, cl[q.loan])
Sound(q, dy, cl, dw) ==
    q \in Request /\ Progress(q, dy) /\ Located(q) /\ Closes(q, cl) /\ Exact(q, dw)
    /\ Evidence(q) /\ Unknown(q) /\ Stable(q, cl, dw)

LEMMA InvariantOver ==
    /\ IInv <=> /\ World(day, snapshot, closing, dwh) /\ req \in [Requests -> Request]
                /\ \A r \in Requests : Sound(req[r], day, closing, dwh)
    /\ IInv' <=> /\ World(day', snapshot', closing', dwh') /\ req' \in [Requests -> Request]
                 /\ \A r \in Requests : Sound(req'[r], day', closing', dwh')
<1>1. TypeOK /\ WorldInv <=> World(day, snapshot, closing, dwh) /\ req \in [Requests -> Request]
  BY DEF TypeOK, WorldInv, World, ClosedOn, On
<1>2. ASSUME req \in [Requests -> Request]
      PROVE  (ProgressInv /\ LoanInv /\ CloseInv /\ ExactInv
              /\ EvidenceIsOfItsDay /\ NotFoundMeansUnknown /\ HistoryIsStable)
             <=> \A r \in Requests : Sound(req[r], day, closing, dwh)
  <2>1. ProgressInv <=> \A r \in Requests : Progress(req[r], day)
    BY DEF ProgressInv, Progress, Answered
  <2>2. LoanInv <=> \A r \in Requests : Located(req[r])
    BY DEF LoanInv, Located, Right, Answered
  <2>3. CloseInv <=> \A r \in Requests : Closes(req[r], closing)
    BY DEF CloseInv, Closes, ClosedOn, On, ClosedAsOf
  <2>4. ExactInv <=> \A r \in Requests : Exact(req[r], dwh)
    BY DEF ExactInv, Exact, Read
  <2>5. EvidenceIsOfItsDay <=> \A r \in Requests : Evidence(req[r])
    BY DEF EvidenceIsOfItsDay, Evidence, Answered
  <2>6. NotFoundMeansUnknown <=> \A r \in Requests : Unknown(req[r])
    BY DEF NotFoundMeansUnknown, Unknown
  <2>7. \A l, d : Recorded(l, d) = Record(l, d, closing[l])
    BY DEF Recorded, Record, ClosedOn, On
  <2>8. HistoryIsStable <=> \A r \in Requests : Stable(req[r], closing, dwh)
    BY <2>7 DEF HistoryIsStable, Stable, Answered
  <2>9. QED
    BY <1>2, <2>1, <2>2, <2>3, <2>4, <2>5, <2>6, <2>8 DEF Sound
<1>3. TypeOK' /\ WorldInv' <=> World(day', snapshot', closing', dwh') /\ req' \in [Requests -> Request]
  BY DEF TypeOK, WorldInv, World, ClosedOn, On
<1>4. ASSUME req' \in [Requests -> Request]
      PROVE  (ProgressInv' /\ LoanInv' /\ CloseInv' /\ ExactInv'
              /\ EvidenceIsOfItsDay' /\ NotFoundMeansUnknown' /\ HistoryIsStable')
             <=> \A r \in Requests : Sound(req'[r], day', closing', dwh')
  <2>1. ProgressInv' <=> \A r \in Requests : Progress(req'[r], day')
    BY DEF ProgressInv, Progress, Answered
  <2>2. LoanInv' <=> \A r \in Requests : Located(req'[r])
    BY DEF LoanInv, Located, Right, Answered
  <2>3. CloseInv' <=> \A r \in Requests : Closes(req'[r], closing')
    BY DEF CloseInv, Closes, ClosedOn, On, ClosedAsOf
  <2>4. ExactInv' <=> \A r \in Requests : Exact(req'[r], dwh')
    BY DEF ExactInv, Exact, Read
  <2>5. EvidenceIsOfItsDay' <=> \A r \in Requests : Evidence(req'[r])
    BY DEF EvidenceIsOfItsDay, Evidence, Answered
  <2>6. NotFoundMeansUnknown' <=> \A r \in Requests : Unknown(req'[r])
    BY DEF NotFoundMeansUnknown, Unknown
  <2>7. \A l, d : Recorded(l, d)' = Record(l, d, closing'[l])
    BY DEF Recorded, Record, ClosedOn, On
  <2>8. HistoryIsStable' <=> \A r \in Requests : Stable(req'[r], closing', dwh')
    BY <2>7 DEF HistoryIsStable, Stable, Answered
  <2>9. QED
    BY <1>4, <2>1, <2>2, <2>3, <2>4, <2>5, <2>6, <2>8 DEF Sound
<1>5. QED
  BY <1>1, <1>2, <1>3, <1>4 DEF IInv

-----------------------------------------------------------------------------
(* The steps of one request.                                               *)

\* What a request's steps may assume of it and of the world.
Here(r) == /\ World(day, snapshot, closing, dwh) /\ req \in [Requests -> Request]
           /\ Sound(req[r], day, closing, dwh)
\* What they establish.
Kept(r) == /\ req' \in [Requests -> Request] /\ Sound(req'[r], day, closing, dwh)
           /\ \A s \in Requests : s # r => req'[s] = req[s]

LEMMA Constants ==
    /\ Cutoff \in Days /\ FirstDay \in Days /\ MaxDay \in Nat /\ Cutoff < FirstDay
    /\ \A d \in Days : d \in Nat /\ d # 0 /\ d # Blank /\ d # None
    /\ None \notin Outcomes /\ Blank # None /\ None \notin Loans
    /\ Quality \in [Loans -> [Days -> 1..5]]
  BY InquiryAssumption DEF Days

\* A rejected request is answered, without a result.
LEMMA RefuseEffect ==
    ASSUME NEW r \in Requests, Here(r), req[r].pc # "idle", NEW kinds, NEW untrue,
           Refuse(r, kinds, untrue)
    PROVE  \E outcome \in Outcomes \ {"success"}, a \in Outcomes \cup {None} :
              /\ req' = [req EXCEPT ![r].pc = "answered", ![r].outcome = outcome, ![r].audited = a,
                                    ![r].misled = @ \cup untrue]
              /\ outcome = "not_found" => OtherKinds \cap kinds = {} /\ "ErrNotFound" \in kinds
<1> DEFINE outcome == IF req[r].via = "api" THEN PositionError(kinds) ELSE InquiryError(kinds)
<1>1. /\ outcome \in Outcomes \ {"success"}
      /\ outcome = "not_found" => OtherKinds \cap kinds = {} /\ "ErrNotFound" \in kinds
  <2>1. outcome \in {PositionError(kinds), InquiryError(kinds)}
    OBVIOUS
  <2> HIDE DEF outcome
  <2>2. QED
    BY <2>1, NotFoundIsLast
<1>2. PICK a \in Audit(r, outcome) :
        req' = [req EXCEPT ![r].pc = "answered", ![r].outcome = outcome, ![r].audited = a,
                           ![r].misled = @ \cup untrue]
  BY DEF Refuse
<1> HIDE DEF outcome
<1>3. req[r].via \in {"api", "page", "pdf"}
  BY DEF Here, Sound, Progress, Channels
<1>4. Audit(r, outcome) \subseteq Outcomes \cup {None}
  BY <1>1, <1>3 DEF Audit, AuditLookup, AuditInquiry
<1>5. QED
  BY <1>1, <1>2, <1>4

LEMMA RefuseSound ==
    ASSUME NEW r \in Requests, Here(r), req[r].pc # "idle", NEW kinds, NEW untrue \in SUBSET Untruths,
           Refuse(r, kinds, untrue),
           \/ OtherKinds \cap kinds # {}
           \/ "ErrNotFound" \notin kinds
           \/ (req[r].misled \cup untrue) \cap {"denied", "omitted"} # {}
           \/ \A l \in Loans : ~Has(l, req[r].account)
    PROVE  Kept(r)
<1>1. PICK outcome \in Outcomes \ {"success"}, a \in Outcomes \cup {None} :
         /\ req' = [req EXCEPT ![r].pc = "answered", ![r].outcome = outcome, ![r].audited = a,
                               ![r].misled = @ \cup untrue]
         /\ outcome = "not_found" => OtherKinds \cap kinds = {} /\ "ErrNotFound" \in kinds
  BY RefuseEffect
<1> DEFINE q == req[r]
           m == q.misled \cup untrue
           s == [q EXCEPT !.pc = "answered", !.outcome = outcome, !.audited = a, !.misled = m]
<1>2. req \in [Requests -> Request] /\ q \in Request
  BY DEF Here
<1>3. req' = [req EXCEPT ![r] = s]
  BY <1>1, <1>2
<1>4. m \in SUBSET Untruths
  BY <1>2 DEF Request
<1> HIDE DEF m
<1>5. /\ s \in Request /\ s.pc = "answered" /\ s.outcome = outcome /\ s.account = q.account
      /\ s.asOf = q.asOf /\ s.today = q.today /\ s.via = q.via /\ s.misled = m
  BY <1>2, <1>4 DEF Request, Points
<1>6. Progress(q, day)
  BY DEF Here, Sound
<1> HIDE DEF s
<1>7. Sound(s, day, closing, dwh)
  <2>1. Progress(s, day)
    BY <1>5, <1>6 DEF Progress, Identified, Contracted
  <2>2. Located(s) /\ Closes(s, closing) /\ Exact(s, dwh) /\ Evidence(s) /\ Stable(s, closing, dwh)
    BY <1>5 DEF Located, Closes, Exact, Evidence, Stable, Identified, Contracted
  <2>3. Unknown(s)
    BY <1>1, <1>5 DEF Unknown, m
  <2>4. QED
    BY <1>5, <2>1, <2>2, <2>3 DEF Sound
<1>8. QED
  BY <1>2, <1>3, <1>5, <1>7 DEF Kept

LEMMA RejectSound ==
    ASSUME NEW r \in Requests, Here(r), req[r].pc # "idle", NEW kinds, Reject(r, kinds),
           OtherKinds \cap kinds # {}
    PROVE  Kept(r)
<1>1. Refuse(r, kinds, {}) /\ {} \in SUBSET Untruths
  BY DEF Reject
<1>2. QED
  BY <1>1, RefuseSound

\* An answered request shows what it was given.
LEMMA SucceedSound ==
    ASSUME NEW r \in Requests, Here(r), req[r].pc \in Identified,
           NEW p \in Positions, NEW actual \in Positions, NEW timeline \in Timelines,
           Succeed(r, p, actual, timeline),
           p.loan = req[r].loan, p.day = req[r].asOf, actual.loan = req[r].loan, actual.day = req[r].asOf,
           \A e \in DOMAIN timeline : timeline[e] = Quality[req[r].loan][e],
           req[r].asOf < req[r].today /\ Cardinality(dwh[req[r].loan][req[r].asOf]) <= 1
             => ResultView(p, actual, timeline) = Record(req[r].loan, req[r].asOf, closing[req[r].loan])
    PROVE  Kept(r)
<1> DEFINE q == req[r]
           v == ResultView(p, actual, timeline)
<1>1. PICK a \in Audit(r, "success") :
        req' = [req EXCEPT ![r].pc = "answered", ![r].outcome = "success", ![r].audited = a,
                           ![r].result = v]
  BY DEF Succeed
<1>2. a \in Outcomes \cup {None} /\ "success" \in Outcomes
  <2>1. q.via \in {"api", "page", "pdf"}
    BY DEF Here, Sound, Progress, Channels, Identified, Contracted
  <2>2. QED
    BY <2>1 DEF Audit, AuditLookup, AuditInquiry, Outcomes
<1>3. v \in Views /\ v.position = p /\ v.actual = actual /\ v.timeline = timeline
  BY DEF ResultView, Views
<1> HIDE DEF v
<1> DEFINE s == [q EXCEPT !.pc = "answered", !.outcome = "success", !.audited = a, !.result = v]
<1>4. req \in [Requests -> Request] /\ q \in Request
  BY DEF Here
<1>5. /\ s \in Request /\ s.pc = "answered" /\ s.outcome = "success" /\ s.account = q.account
      /\ s.asOf = q.asOf /\ s.today = q.today /\ s.via = q.via /\ s.loan = q.loan /\ s.result = v
      /\ s.misled = q.misled
  BY <1>2, <1>3, <1>4 DEF Request, Points
<1>6. req' = [req EXCEPT ![r] = s]
  BY <1>1, <1>4
<1>7. Progress(q, day) /\ Located(q)
  BY DEF Here, Sound
<1> HIDE DEF s
<1>8. Sound(s, day, closing, dwh)
  <2>1. Progress(s, day) /\ Located(s)
    BY <1>5, <1>7 DEF Progress, Located, Right, Identified, Contracted
  <2>2. Closes(s, closing) /\ Exact(s, dwh) /\ Unknown(s)
    BY <1>5 DEF Closes, Exact, Unknown, Contracted
  <2>3. Evidence(s)
    BY <1>3, <1>5 DEF Evidence
  <2>4. Stable(s, closing, dwh)
    BY <1>5 DEF Stable, v
  <2>5. QED
    BY <1>5, <2>1, <2>2, <2>3, <2>4 DEF Sound
<1>9. QED
  BY <1>4, <1>5, <1>6, <1>8 DEF Kept

\* A step that goes on with other fields keeps the rest of the request.
LEMMA Replaced ==
    ASSUME NEW r \in Requests, Here(r), NEW s \in Request, req' = [req EXCEPT ![r] = s],
           Sound(s, day, closing, dwh)
    PROVE  Kept(r)
  BY DEF Here, Kept

\* A new request.
LEMMA AskStep ==
    ASSUME NEW r \in Requests, Here(r), AskAPI(r) \/ AskPage(r) \/ AskPDF(r)
    PROVE  Kept(r)
<1>1. PICK via \in Channels, account \in Accounts, d \in Days :
        req' = [req EXCEPT ![r] = [Idle EXCEPT !.account = account, !.asOf = d, !.today = day,
                                               !.via = via, !.pc = "primary"]]
  BY DEF AskAPI, AskPage, AskPDF, Ask, Channels
<1> DEFINE s == [Idle EXCEPT !.account = account, !.asOf = d, !.today = day, !.via = via, !.pc = "primary"]
<1>2. /\ day \in FirstDay..day /\ day \in 0..MaxDay /\ d \in 0..MaxDay
  BY Constants DEF Here, World, Days
<1>3. /\ s \in Request /\ s.pc = "primary" /\ s.outcome = None /\ s.asOf = d /\ s.today = day
      /\ s.via = via /\ s.misled = {}
  <2>1. Idle \in Request /\ Idle.outcome = None /\ Idle.misled = {}
    BY Constants DEF Idle, Request, Points
  <2> DEFINE s1 == [Idle EXCEPT !.account = account, !.asOf = d]
             s2 == [s1 EXCEPT !.today = day, !.via = via]
  <2>2. s = [s2 EXCEPT !.pc = "primary"]
    OBVIOUS
  <2> HIDE DEF s
  <2>3. s1 \in Request /\ s1.outcome = None /\ s1.asOf = d /\ s1.misled = {}
    BY <1>2, <2>1 DEF Request
  <2> HIDE DEF s1
  <2>4. s2 \in Request /\ s2.outcome = None /\ s2.asOf = d /\ s2.today = day /\ s2.via = via /\ s2.misled = {}
    BY <1>2, <2>3 DEF Request
  <2> HIDE DEF s2
  <2>5. QED
    BY <2>2, <2>4 DEF Request, Points
<1> HIDE DEF s
<1>4. Sound(s, day, closing, dwh)
  <2>1. None # "success" /\ None # "not_found"
    BY Constants DEF Outcomes
  <2>2. Progress(s, day) /\ Located(s)
    BY <1>2, <1>3, <2>1 DEF Progress, Located, Identified, Contracted
  <2>3. Closes(s, closing) /\ Exact(s, dwh) /\ Evidence(s) /\ Unknown(s) /\ Stable(s, closing, dwh)
    BY <1>3, <2>1 DEF Closes, Exact, Evidence, Unknown, Stable, Contracted
  <2>4. QED
    BY <1>3, <2>2, <2>3 DEF Sound
<1>5. QED
  BY <1>1, <1>3, <1>4, Replaced DEF s

\* mapLoan: the close date that is read is Fincloud's, 0 when it has none.
LEMMA CloseDateIs ==
    ASSUME World(day, snapshot, closing, dwh), NEW l \in Loans
    PROVE  /\ CloseDate(closing[l]) \in 0..MaxDay
           /\ CloseDate(closing[l]) = 0 => On(closing[l]) = Blank
           /\ CloseDate(closing[l]) # 0 => CloseDate(closing[l]) = On(closing[l])
<1> DEFINE c == closing[l]
<1>1. /\ c.object \in Days \cup {Blank} /\ c.legacy \in Days \cup {Blank, None}
      /\ c.object = Blank => c.legacy # None
      /\ c.object # Blank => c.legacy \in {None, c.object}
  BY DEF World
<1>2. Blank \notin Days /\ None \notin Days /\ 0 \notin Days /\ Days \subseteq 0..MaxDay /\ 0 \in 0..MaxDay
  BY Constants DEF Days
<1> HIDE DEF c
<1>3. CASE c.object = Blank /\ c.legacy = Blank
  BY <1>1, <1>2, <1>3 DEF CloseDate, On, c
<1>4. CASE c.object = Blank /\ c.legacy # Blank
  BY <1>1, <1>2, <1>4 DEF CloseDate, On, c
<1>5. CASE c.object # Blank
  BY <1>1, <1>2, <1>5 DEF CloseDate, On, c
<1>6. QED
  BY <1>3, <1>4, <1>5

\* The contract of a loan is taken over with what it may be wrong about.
LEMMA ContractStep ==
    ASSUME NEW r \in Requests, Here(r), req[r].pc \in {"primary", "detail"}, NEW l \in Loans,
           NEW untrue \in SUBSET Untruths,
           Right([req[r] EXCEPT !.loan = l, !.misled = req[r].misled \cup untrue]),
           req[r].asOf <= req[r].today, Contract(r, l, untrue)
    PROVE  Kept(r)
<1> DEFINE q == req[r]
           c == CloseDate(closing[l])
           m == q.misled \cup untrue
           s == [q EXCEPT !.pc = "route", !.loan = l, !.close = c, !.misled = m]
<1>1. CASE c = None
  <2>1. Reject(r, {"ErrFincloudUnavailable"})
    BY <1>1 DEF Contract
  <2>2. OtherKinds \cap {"ErrFincloudUnavailable"} # {}
    BY DEF OtherKinds, Unavailable
  <2>3. QED
    BY <2>1, <2>2, RejectSound
<1>2. CASE c # None
  <2>1. q \in Request /\ req \in [Requests -> Request] /\ Progress(q, day)
    BY DEF Here, Sound
  <2>2. c \in 0..MaxDay /\ (c = 0 => On(closing[l]) = Blank) /\ (c # 0 => c = On(closing[l]))
    BY CloseDateIs DEF Here
  <2>3. req' = [req EXCEPT ![r] = s]
    BY <1>2, <2>1 DEF Contract
  <2>m. m \in SUBSET Untruths
    BY <2>1 DEF Request
  <2>r. Right([q EXCEPT !.loan = l, !.misled = m])
    OBVIOUS
  <2> HIDE DEF c, m
  <2>4. /\ s \in Request /\ s.pc = "route" /\ s.loan = l /\ s.close = c /\ s.asOf = q.asOf
        /\ s.today = q.today /\ s.via = q.via /\ s.account = q.account /\ s.outcome = q.outcome
        /\ s.misled = m
    BY <2>1, <2>2, <2>m DEF Request, Points
  <2>5. s.outcome = None /\ None # "success" /\ None # "not_found"
    BY <2>1, <2>4, Constants DEF Outcomes, Progress
  <2> DEFINE t == [q EXCEPT !.loan = l, !.misled = m]
  <2>t. t.loan = l /\ t.misled = m /\ t.account = q.account /\ Right(t)
    BY <2>1, <2>r DEF Request
  <2> HIDE DEF s, t
  <2>6. Sound(s, day, closing, dwh)
    <3>0. Right(s)
      BY <2>4, <2>t DEF Right
    <3>1. Progress(s, day) /\ Located(s)
      BY <2>1, <2>4, <2>5, <3>0 DEF Progress, Located, Identified, Contracted
    <3>2. Closes(s, closing) /\ Exact(s, dwh)
      BY <2>2, <2>4 DEF Closes, Exact
    <3>3. Evidence(s) /\ Unknown(s) /\ Stable(s, closing, dwh)
      BY <2>5 DEF Evidence, Unknown, Stable
    <3>4. QED
      BY <2>4, <3>1, <3>2, <3>3 DEF Sound
  <2>7. QED
    BY <2>3, <2>4, <2>6, Replaced
<1>3. QED
  BY <1>1, <1>2

\* The next point of a request that has no answer yet.
LEMMA GotoSound ==
    ASSUME NEW r \in Requests, Here(r), req[r].pc # "answered", req[r].pc # "idle",
           NEW pc \in Points \ {"answered"}, Goto(r, pc),
           Located([req[r] EXCEPT !.pc = pc]), Closes([req[r] EXCEPT !.pc = pc], closing),
           Exact([req[r] EXCEPT !.pc = pc], dwh), req[r].asOf <= req[r].today
    PROVE  Kept(r)
<1> DEFINE q == req[r]
           s == [q EXCEPT !.pc = pc]
<1>1. q \in Request /\ req \in [Requests -> Request] /\ Progress(q, day)
  BY DEF Here, Sound
<1>2. req' = [req EXCEPT ![r] = s]
  BY <1>1 DEF Goto
<1>3. /\ s \in Request /\ s.pc = pc /\ s.asOf = q.asOf /\ s.today = q.today /\ s.via = q.via
      /\ s.outcome = q.outcome
  BY <1>1 DEF Request
<1>4. s.outcome = None /\ None # "success" /\ None # "not_found"
  BY <1>1, <1>3, Constants DEF Outcomes, Progress
<1>5. Located(s) /\ Closes(s, closing) /\ Exact(s, dwh)
  OBVIOUS
<1> HIDE DEF s
<1>6. Sound(s, day, closing, dwh)
  <2>1. Progress(s, day)
    BY <1>1, <1>3, <1>4 DEF Progress
  <2>2. Evidence(s) /\ Unknown(s) /\ Stable(s, closing, dwh)
    BY <1>4 DEF Evidence, Unknown, Stable
  <2>3. QED
    BY <1>3, <1>5, <2>1, <2>2 DEF Sound
<1>7. QED
  BY <1>2, <1>3, <1>6, Replaced

LEMMA GetLoanStep ==
    ASSUME NEW r \in Requests, Here(r), GetLoan(r)
    PROVE  Kept(r)
<1> DEFINE q == req[r]
<1>1. /\ q.pc = "primary" /\ q \in Request /\ q.asOf \in Days /\ q.today \in Nat /\ q.misled = {}
      /\ q.outcome = None /\ None # "success" /\ None # "not_found" /\ Progress(q, day)
      /\ req \in [Requests -> Request]
  BY Constants DEF GetLoan, At, Here, Sound, Request, Progress, Located, Outcomes
<1>2. CASE q.asOf > q.today
  <2>1. Reject(r, {"ErrInvalidInput"}) /\ OtherKinds \cap {"ErrInvalidInput"} # {}
    BY <1>2 DEF GetLoan, OtherKinds
  <2>2. QED
    BY <1>1, <2>1, RejectSound
<1>3. ASSUME ~(q.asOf > q.today), NEW l \in Loans,
             Contract(r, l, IF l = q.account THEN {} ELSE {"other"})
      PROVE  Kept(r)
  <2> DEFINE untrue == IF l = q.account THEN {} ELSE {"other"}
             t == [q EXCEPT !.loan = l, !.misled = q.misled \cup untrue]
  <2>1. untrue \in SUBSET Untruths /\ q.asOf <= q.today
    BY <1>1, <1>3, Constants DEF Untruths
  <2>2. t.loan = l /\ t.misled = untrue /\ t.account = q.account
    BY <1>1 DEF Request
  <2>3. l = q.account => Has(l, q.account) /\ \A k \in Loans : Has(k, q.account) => k = l
    BY InquiryAssumption DEF Has
  <2>4. Right(t)
    <3> HIDE DEF t
    <3>1. CASE l = q.account
      BY <2>2, <2>3, <3>1 DEF Right
    <3>2. CASE l # q.account
      BY <2>2, <3>2 DEF Right
    <3>3. QED
      BY <3>1, <3>2
  <2>5. Contract(r, l, untrue)
    BY <1>3
  <2> HIDE DEF untrue
  <2>6. QED
    BY <1>1, <2>1, <2>4, <2>5, ContractStep
<1>4. ASSUME ~(q.asOf > q.today),
             req' = [req EXCEPT ![r].pc = "alternate",
                                ![r].misled = IF q.account \in Loans THEN {"denied"} ELSE {}]
      PROVE  Kept(r)
  <2> DEFINE m == IF q.account \in Loans THEN {"denied"} ELSE {}
             s == [q EXCEPT !.pc = "alternate", !.misled = m]
  <2>1. m \in SUBSET Untruths /\ q.asOf <= q.today
    BY <1>1, <1>4, Constants DEF Untruths
  <2>2. req' = [req EXCEPT ![r] = s]
    BY <1>1, <1>4
  <2> HIDE DEF m
  <2>3. /\ s \in Request /\ s.pc = "alternate" /\ s.asOf = q.asOf /\ s.today = q.today
        /\ s.via = q.via /\ s.account = q.account /\ s.outcome = q.outcome /\ s.misled = m
    <3>1. q \in Request /\ m \in SUBSET Untruths /\ "alternate" \in Points
      BY <1>1, <2>1 DEF Points
    <3>2. QED
      BY <3>1 DEF Request
  <2> HIDE DEF s
  <2>4. Sound(s, day, closing, dwh)
    <3>1. Progress(s, day)
      BY <1>1, <2>1, <2>3 DEF Progress
    <3>2. Located(s)
      BY <1>1, <2>3 DEF Located, Identified, Contracted, m
    <3>3. Closes(s, closing) /\ Exact(s, dwh) /\ Evidence(s) /\ Unknown(s) /\ Stable(s, closing, dwh)
      BY <1>1, <2>3 DEF Closes, Exact, Evidence, Unknown, Stable, Contracted
    <3>4. QED
      BY <2>3, <3>1, <3>2, <3>3 DEF Sound
  <2>5. QED
    BY <2>2, <2>3, <2>4, Replaced
<1>5. QED
  BY <1>2, <1>3, <1>4 DEF GetLoan

\* What the rows that survive the filter say of the loans with the number.
LEMMA CandidatesAre ==
    ASSUME NEW account, account # Blank, NEW rows \in Search
    PROVE  /\ Candidates(rows, account) \subseteq Loans
           /\ Untrue(rows, account) \subseteq {"blank", "omitted"}
           /\ "blank" \notin Untrue(rows, account) =>
                \A l \in Candidates(rows, account) : Has(l, account)
           /\ "omitted" \notin Untrue(rows, account) =>
                \A l \in Loans : Bank[l].alternate = account => l \in Candidates(rows, account)
<1>1. rows \subseteq Rows
  BY DEF Search
<1>2. \A x \in rows : x.id # Blank => x.id \in Loans /\ x.noalt \in {Bank[x.id].alternate, Blank}
  BY <1>1 DEF Rows
<1>3. Untrue(rows, account) \subseteq {"blank", "omitted"}
  BY DEF Untrue
<1>4. ASSUME NEW l \in Candidates(rows, account)
      PROVE  l \in Loans /\ ("blank" \notin Untrue(rows, account) => Has(l, account))
  <2>1. PICK x \in rows : x.id = l /\ x.id # Blank /\ x.noalt \in {Blank, account}
    BY <1>4 DEF Candidates
  <2>2. l \in Loans /\ x.noalt \in {Bank[l].alternate, Blank}
    BY <1>2, <2>1
  <2>3. CASE x.noalt = Blank
    <3>1. "blank" \notin Untrue(rows, account) => Has(l, account)
      BY <2>1, <2>3 DEF Untrue
    <3>2. QED
      BY <2>2, <3>1
  <2>4. CASE x.noalt # Blank
    BY <2>1, <2>2, <2>4 DEF Has
  <2>5. QED
    BY <2>3, <2>4
<1>5. ASSUME "omitted" \notin Untrue(rows, account), NEW l \in Loans, Bank[l].alternate = account
      PROVE  l \in Candidates(rows, account)
  <2>1. PICK x \in rows : x.id = l
    BY <1>5 DEF Untrue
  <2>2. x.id # Blank
    BY <2>1, InquiryAssumption
  <2>3. x.noalt \in {Blank, account}
    BY <1>2, <1>5, <2>1, <2>2
  <2>4. QED
    BY <2>1, <2>2, <2>3 DEF Candidates
<1>6. QED
  BY <1>3, <1>4, <1>5

LEMMA ResolveAlternateStep ==
    ASSUME NEW r \in Requests, Here(r), ResolveAlternate(r)
    PROVE  Kept(r)
<1> DEFINE q == req[r]
<1>1. /\ q.pc = "alternate" /\ q \in Request /\ req \in [Requests -> Request]
      /\ q.misled = (IF q.account \in Loans THEN {"denied"} ELSE {})
      /\ q.asOf <= q.today /\ Progress(q, day)
  BY DEF ResolveAlternate, At, Here, Sound, Progress, Located
<1>2. PICK rows \in Search :
         LET f == Candidates(rows, q.account)
             u == Untrue(rows, q.account)
         IN  CASE f = {} -> Refuse(r, {"ErrNotFound"}, u)
               [] Cardinality(f) > 1 -> Refuse(r, {"ErrAmbiguous"}, u)
               [] Cardinality(f) = 1 ->
                    req' = [req EXCEPT ![r].pc = "detail", ![r].loan = CHOOSE l \in f : TRUE,
                                       ![r].misled = @ \cup u]
  BY DEF ResolveAlternate
<1> DEFINE found == Candidates(rows, q.account)
           untrue == Untrue(rows, q.account)
<1>3. /\ found \subseteq Loans /\ untrue \in SUBSET {"blank", "omitted"}
      /\ "blank" \notin untrue => \A l \in found : Has(l, q.account)
      /\ "omitted" \notin untrue => \A l \in Loans : Bank[l].alternate = q.account => l \in found
  <2>1. q.account # Blank
    BY <1>1, InquiryAssumption DEF Request
  <2>2. QED
    BY <2>1, CandidatesAre
<1> HIDE DEF found, untrue
<1>u. untrue \in SUBSET Untruths
  BY <1>3 DEF Untruths
<1>d. /\ CASE found = {} -> Refuse(r, {"ErrNotFound"}, untrue)
          [] Cardinality(found) > 1 -> Refuse(r, {"ErrAmbiguous"}, untrue)
          [] Cardinality(found) = 1 ->
                    req' = [req EXCEPT ![r].pc = "detail", ![r].loan = CHOOSE l \in found : TRUE,
                                       ![r].misled = @ \cup untrue]
  BY <1>2 DEF found, untrue
<1>4. /\ IsFiniteSet(found) /\ Cardinality(found) \in Nat /\ (Cardinality(found) = 0 <=> found = {})
  BY <1>3, InquiryAssumption, FS_Subset, FS_CardinalityType, FS_EmptySet
<1>5. (q.misled \cup untrue) \cap {"denied", "omitted"} = {} =>
        \A l \in Loans : Has(l, q.account) => l \in found
  BY <1>1, <1>3 DEF Has
<1>7. CASE found = {}
  <2>1. Refuse(r, {"ErrNotFound"}, untrue)
    <3>1. ~(Cardinality(found) > 1) /\ Cardinality(found) # 1
      BY <1>4, <1>7
    <3>2. QED
      BY <1>d, <1>7, <3>1
  <2>2. (q.misled \cup untrue) \cap {"denied", "omitted"} # {} \/ \A l \in Loans : ~Has(l, q.account)
    BY <1>5, <1>7
  <2>3. QED
    BY <1>1, <1>u, <2>1, <2>2, RefuseSound
<1>8. CASE Cardinality(found) > 1
  <2>1. found # {} /\ Cardinality(found) # 1
    BY <1>4, <1>8
  <2>2. Refuse(r, {"ErrAmbiguous"}, untrue)
    BY <1>d, <1>8, <2>1
  <2>3. OtherKinds \cap {"ErrAmbiguous"} # {}
    BY DEF OtherKinds
  <2>4. QED
    BY <1>1, <1>u, <2>2, <2>3, RefuseSound
<1>9. CASE Cardinality(found) = 1
  <2> DEFINE l == CHOOSE x \in found : TRUE
             m == q.misled \cup untrue
             s == [q EXCEPT !.pc = "detail", !.loan = l, !.misled = m]
  <2>1. found # {} /\ ~(Cardinality(found) > 1)
    BY <1>4, <1>9
  <2>2. req' = [req EXCEPT ![r] = s]
    BY <1>1, <1>d, <1>9, <2>1
  <2>3. l \in found
    BY <2>1
  <2> HIDE DEF l
  <2>4. l \in Loans /\ \A k \in found : k = l
    <3>1. PICK x : found = {x}
      BY <1>4, <1>9, FS_Singleton
    <3>2. QED
      BY <1>3, <2>3, <3>1
  <2>m. m \in SUBSET Untruths
    BY <1>1, <1>u DEF Request
  <2>n. /\ m \cap {"other", "blank"} = {} => Has(l, q.account)
        /\ m \cap {"other", "denied", "omitted"} = {} => \A k \in Loans : Has(k, q.account) => k = l
    BY <1>3, <1>5, <2>3, <2>4
  <2> HIDE DEF m
  <2>5. /\ s \in Request /\ s.pc = "detail" /\ s.loan = l /\ s.asOf = q.asOf
        /\ s.today = q.today /\ s.via = q.via /\ s.account = q.account /\ s.outcome = q.outcome
        /\ s.misled = m
    BY <1>1, <2>4, <2>m DEF Request, Points
  <2> HIDE DEF s
  <2>6. s.outcome = None /\ None # "success" /\ None # "not_found"
    BY <1>1, <2>5, Constants DEF Outcomes, Progress
  <2>7. Sound(s, day, closing, dwh)
    <3>0. Right(s)
      BY <2>4, <2>5, <2>n DEF Right
    <3>1. Progress(s, day) /\ Located(s)
      BY <1>1, <2>5, <2>6, <3>0 DEF Progress, Located, Identified, Contracted
    <3>2. Closes(s, closing) /\ Exact(s, dwh)
      BY <2>5 DEF Closes, Exact, Contracted
    <3>3. Evidence(s) /\ Unknown(s) /\ Stable(s, closing, dwh)
      BY <2>6 DEF Evidence, Unknown, Stable
    <3>4. QED
      BY <2>5, <3>1, <3>2, <3>3 DEF Sound
  <2>8. QED
    BY <2>2, <2>5, <2>7, Replaced
<1>10. QED
  BY <1>4, <1>7, <1>8, <1>9

LEMMA GetResolvedLoanStep ==
    ASSUME NEW r \in Requests, Here(r), GetResolvedLoan(r)
    PROVE  Kept(r)
<1> DEFINE q == req[r]
<1>1. /\ q.pc = "detail" /\ q.loan \in Loans /\ q \in Request /\ Right(q) /\ q.asOf <= q.today
  BY DEF GetResolvedLoan, At, Here, Sound, Located, Right, Progress, Identified
<1>2. ASSUME NEW l \in Loans, CloseDate(closing[l]) = None, Contract(r, l, {}) PROVE Kept(r)
  <2>1. Reject(r, {"ErrFincloudUnavailable"}) /\ OtherKinds \cap {"ErrFincloudUnavailable"} # {}
    BY <1>2 DEF Contract, OtherKinds, Unavailable
  <2>2. QED
    BY <1>1, <2>1, RejectSound
<1>3. CASE Contract(r, q.loan, {})
  <2> DEFINE t == [q EXCEPT !.loan = q.loan, !.misled = q.misled \cup {}]
  <2>1. t.loan = q.loan /\ t.misled = q.misled /\ t.account = q.account
    BY <1>1 DEF Request
  <2>2. Right(t)
    <3> HIDE DEF t
    <3>1. QED
      BY <1>1, <2>1 DEF Right
  <2>3. QED
    <3>1. {} \in SUBSET Untruths /\ Right([req[r] EXCEPT !.loan = req[r].loan, !.misled = req[r].misled \cup {}])
      BY <2>2
    <3>2. QED
      BY <1>1, <1>3, <3>1, ContractStep
<1>4. CASE Refuse(r, {"ErrInvariant"}, {"other"})
  BY <1>1, <1>4, RefuseSound DEF Untruths
<1>5. CASE Refuse(r, {"ErrNotFound"}, {"denied"})
  <2>1. {"denied"} \in SUBSET Untruths /\ (q.misled \cup {"denied"}) \cap {"denied", "omitted"} # {}
    BY DEF Untruths
  <2>2. QED
    BY <1>1, <1>5, <2>1, RefuseSound
<1>6. QED
  BY <1>2, <1>3, <1>4, <1>5 DEF GetResolvedLoan

-----------------------------------------------------------------------------
(* Which source answers.                                                   *)

LEMMA PositionType ==
    ASSUME NEW source \in {"closed", "snapshot", "DWH", "MSO", "reconstructed"}, NEW l \in Loans,
           NEW d \in Days, NEW quality \in 0..5
    PROVE  /\ Position(source, l, d, quality) \in Positions
           /\ Position(source, l, d, quality).loan = l
           /\ Position(source, l, d, quality).day = d
           /\ Position(source, l, d, quality).source = source
           /\ Position(source, l, d, quality).quality = quality
  BY DEF Position, Positions

LEMMA NoTimelineType == NoTimeline \in Timelines /\ DOMAIN NoTimeline = {}
<1>1. DOMAIN NoTimeline = {} /\ NoTimeline \in [{} -> 1..5]
  BY DEF NoTimeline
<1>2. QED
  BY <1>1 DEF Timelines

\* The facts a request with a contract rests on.
LEMMA ContractedFacts ==
    ASSUME NEW r \in Requests, Here(r), req[r].pc \in Contracted
    PROVE  /\ req[r] \in Request /\ req[r].loan \in Loans /\ req[r].asOf \in Days
           /\ req[r].today \in Days /\ req[r].asOf <= req[r].today /\ req[r].today <= day /\ day \in Days
           /\ closing[req[r].loan] \in [object : Days \cup {Blank}, legacy : Days \cup {Blank, None}]
           /\ On(closing[req[r].loan]) \in Days \cup {Blank}
           /\ req[r].outcome = None /\ None # "success" /\ None # "not_found"
           /\ Located(req[r]) /\ Closes(req[r], closing) /\ Exact(req[r], dwh)
<1> DEFINE q == req[r]
<1>1. /\ q \in Request /\ q.loan \in Loans /\ q.asOf \in Days /\ q.today \in FirstDay..day
      /\ q.asOf <= q.today /\ q.outcome = None
      /\ Located(q) /\ Closes(q, closing) /\ Exact(q, dwh)
  BY DEF Here, Sound, Progress, Located, Right, Contracted, Identified
<1>2. day \in FirstDay..MaxDay /\ day \in Days /\ q.today \in Days /\ q.today <= day
  BY <1>1, Constants DEF Here, World, Days
<1>3. /\ closing[q.loan] \in [object : Days \cup {Blank}, legacy : Days \cup {Blank, None}]
      /\ closing[q.loan].object = Blank => closing[q.loan].legacy # None
  BY <1>1 DEF Here, World
<1>4. On(closing[q.loan]) \in Days \cup {Blank}
  BY <1>3 DEF On
<1>5. None # "success" /\ None # "not_found"
  BY Constants DEF Outcomes
<1>6. QED
  BY <1>1, <1>2, <1>3, <1>4, <1>5

\* For a past day the close date that was read decides as Fincloud's does now.
LEMMA ClosedThen ==
    ASSUME NEW r \in Requests, Here(r), req[r].pc \in Contracted, req[r].asOf < req[r].today
    PROVE  On(closing[req[r].loan]) # Blank /\ On(closing[req[r].loan]) <= req[r].asOf
           <=> ClosedAsOf(r)
<1> DEFINE q == req[r]
           on == On(closing[q.loan])
<1>1. /\ q.asOf \in Nat /\ q.today \in Nat /\ on \in Days \cup {Blank} /\ q.close \in Nat
      /\ q.close = 0 => on = Blank \/ on >= q.today
      /\ q.close # 0 => q.close = on
  BY ContractedFacts, Constants DEF Closes, Request
<1>2. \A d \in Days : d \in Nat /\ d # Blank
  BY Constants
<1> HIDE DEF on
<1>3. CASE q.close = 0
  BY <1>1, <1>2, <1>3 DEF ClosedAsOf, on
<1>4. CASE q.close # 0
  <2>1. q.close \in 0..MaxDay
    BY ContractedFacts DEF Request
  <2>2. on \in Days
    BY <1>1, <1>4, <2>1, Constants DEF Days
  <2>3. QED
    BY <1>1, <1>2, <1>4, <2>2 DEF ClosedAsOf, on
<1>5. QED
  BY <1>3, <1>4

\* A request that knows its contract goes on to another point.
LEMMA GotoContracted ==
    ASSUME NEW r \in Requests, Here(r), req[r].pc \in Contracted, NEW pc \in Contracted \ {"route"},
           Goto(r, pc), ~ClosedAsOf(r), Exact([req[r] EXCEPT !.pc = pc], dwh)
    PROVE  Kept(r)
<1> DEFINE q == req[r]
           s == [q EXCEPT !.pc = pc]
<1>1. /\ q \in Request /\ Located(q) /\ Closes(q, closing) /\ q.asOf <= q.today /\ q.outcome = None
      /\ None # "success"
  BY ContractedFacts
<1>2. /\ s.pc = pc /\ s.loan = q.loan /\ s.account = q.account /\ s.close = q.close
      /\ s.asOf = q.asOf /\ s.today = q.today /\ s.outcome = q.outcome /\ s.misled = q.misled
  BY <1>1 DEF Request
<1> HIDE DEF s
<1>3. Located(s)
  BY <1>1, <1>2 DEF Located, Right, Identified, Contracted
<1>4. Closes(s, closing)
  BY <1>1, <1>2 DEF Closes, ClosedAsOf
<1>5. pc \in Points \ {"answered"} /\ q.pc # "answered" /\ q.pc # "idle"
  BY DEF Contracted, Points
<1>6. QED
  BY <1>1, <1>3, <1>4, <1>5, GotoSound DEF s

\* Rejections that say what is missing.
LEMMA RejectOther ==
    ASSUME NEW r \in Requests, Here(r), req[r].pc # "idle", NEW kinds, Reject(r, kinds),
           NEW k \in kinds, k \in OtherKinds
    PROVE  Kept(r)
  BY RejectSound

LEMMA OtherKindsAre ==
    /\ "ErrHistoricalEvidence" \in OtherKinds /\ "ErrCurrentSnapshot" \in OtherKinds
    /\ "ErrUnsupported" \in OtherKinds /\ "ErrFincloudUnavailable" \in OtherKinds
    /\ "ErrDWHUnavailable" \in OtherKinds /\ "ErrMSOUnavailable" \in OtherKinds
  BY DEF OtherKinds, Unavailable

LEMMA RouteStep ==
    ASSUME NEW r \in Requests, Here(r), Route(r)
    PROVE  Kept(r)
<1> DEFINE q == req[r]
           closed == Position("closed", q.loan, q.asOf, 0)
<1>1. q.pc = "route" /\ q.pc \in Contracted /\ q.pc \in Identified /\ q.pc # "idle"
  BY DEF Route, At, Contracted, Identified
<1>2. /\ q \in Request /\ q.loan \in Loans /\ q.asOf \in Days /\ q.asOf \in Nat /\ Cutoff \in Nat
      /\ 0 \in 0..5
  BY <1>1, ContractedFacts, Constants
<1>3. CASE ClosedAsOf(r)
  <2>1. Succeed(r, closed, closed, NoTimeline)
    BY <1>3 DEF Route
  <2>2. closed \in Positions /\ closed.loan = q.loan /\ closed.day = q.asOf
    BY <1>2, PositionType
  <2>3. ASSUME q.asOf < q.today
        PROVE  ResultView(closed, closed, NoTimeline) = Record(q.loan, q.asOf, closing[q.loan])
    BY <1>1, <1>3, <2>3, ClosedThen DEF Record
  <2> HIDE DEF closed
  <2>4. QED
    BY <1>1, <2>1, <2>2, <2>3, NoTimelineType, SucceedSound
<1>4. CASE ~ClosedAsOf(r) /\ q.asOf > Cutoff
  <2>1. Goto(r, "exact")
    BY <1>4 DEF Route
  <2>2. Exact([q EXCEPT !.pc = "exact"], dwh)
    BY <1>2, <1>4 DEF Exact, Request
  <2>3. QED
    BY <1>1, <1>4, <2>1, <2>2, GotoContracted DEF Contracted
<1>5. CASE ~ClosedAsOf(r) /\ ~(q.asOf > Cutoff)
  <2>1. Migrated(r)
    BY <1>5 DEF Route
  <2>2. CASE Bank[q.loan].alternate = Blank
    <3>1. Reject(r, {"ErrHistoricalEvidence"})
      BY <2>1, <2>2 DEF Migrated
    <3>2. QED
      BY <1>1, <3>1, RejectOther, OtherKindsAre
  <2>3. CASE Bank[q.loan].alternate # Blank /\ q.asOf < Cutoff
    <3>1. Goto(r, "history")
      BY <2>1, <2>3 DEF Migrated
    <3>2. Exact([q EXCEPT !.pc = "history"], dwh)
      BY <1>2, <2>3 DEF Exact, Request
    <3>3. QED
      BY <1>1, <1>5, <3>1, <3>2, GotoContracted DEF Contracted
  <2>4. CASE Bank[q.loan].alternate # Blank /\ ~(q.asOf < Cutoff)
    <3>1. Goto(r, "opening")
      BY <2>1, <2>4 DEF Migrated
    <3>2. Exact([q EXCEPT !.pc = "opening"], dwh)
      BY <1>2, <1>5, <2>4 DEF Exact, Request
    <3>3. QED
      BY <1>1, <1>5, <3>1, <3>2, GotoContracted DEF Contracted
  <2>5. QED
    BY <2>2, <2>3, <2>4
<1>6. QED
  BY <1>3, <1>4, <1>5

\* A day with one value in the warehouse has the day's collectability.
LEMMA OneRow ==
    ASSUME World(day, snapshot, closing, dwh), NEW l \in Loans, NEW d \in Days,
           dwh[l][d] # {}, Cardinality(dwh[l][d]) <= 1
    PROVE  dwh[l][d] = {Quality[l][d]}
<1>1. dwh[l][d] \in {{}, {Quality[l][d]}, {Quality[l][d], 5}}
  BY DEF World
<1>2. CASE dwh[l][d] = {Quality[l][d], 5} /\ Quality[l][d] # 5
  <2>1. IsFiniteSet({5}) /\ Cardinality({5}) = 1
    BY FS_Singleton
  <2>2. Cardinality({5} \cup {Quality[l][d]}) = 2
    <3>1. \A x : x \notin {5} => Cardinality({5} \cup {x}) = Cardinality({5}) + 1
      BY <2>1, FS_AddElement, Zenon
    <3>2. Quality[l][d] \notin {5}
      BY <1>2
    <3>3. Cardinality({5} \cup {Quality[l][d]}) = Cardinality({5}) + 1
      BY <3>1, <3>2, Zenon
    <3>4. QED
      BY <2>1, <3>3
  <2>3. {5} \cup {Quality[l][d]} = {Quality[l][d], 5}
    OBVIOUS
  <2>4. QED
    BY <1>2, <2>2, <2>3
<1>3. QED
  BY <1>1, <1>2

\* What the exact position of the request's day must be.
ExactlyThis(r, exact) ==
    /\ exact \in Positions /\ exact.loan = req[r].loan /\ exact.day = req[r].asOf
    /\ req[r].asOf = req[r].today => exact.quality = Quality[req[r].loan][req[r].asOf]
    /\ req[r].asOf # req[r].today => /\ exact.source = "DWH"
                                     /\ exact.quality \in dwh[req[r].loan][req[r].asOf]

\* Of a past day with one value it is the warehouse's row.
LEMMA ExactIsDWH ==
    ASSUME NEW r \in Requests, Here(r), req[r].pc \in Contracted, NEW exact, ExactlyThis(r, exact),
           req[r].asOf < req[r].today, Cardinality(dwh[req[r].loan][req[r].asOf]) <= 1
    PROVE  exact = Position("DWH", req[r].loan, req[r].asOf, Quality[req[r].loan][req[r].asOf])
<1> DEFINE q == req[r]
<1>1. q.loan \in Loans /\ q.asOf \in Days /\ q.asOf # q.today
  BY ContractedFacts, Constants
<1>2. exact.source = "DWH" /\ exact.quality \in dwh[q.loan][q.asOf]
  BY <1>1 DEF ExactlyThis
<1>3. dwh[q.loan][q.asOf] = {Quality[q.loan][q.asOf]}
  BY <1>1, <1>2, OneRow DEF Here
<1>4. exact.quality = Quality[q.loan][q.asOf]
  BY <1>2, <1>3
<1>5. QED
  BY <1>2, <1>4 DEF ExactlyThis, Positions, Position

LEMMA LineageStep ==
    ASSUME NEW r \in Requests, Here(r), req[r].pc = "exact", NEW exact, ExactlyThis(r, exact),
           Lineage(r, exact)
    PROVE  Kept(r)
<1> DEFINE q == req[r]
           start == Bank[q.loan].start
<1>1. q.pc \in Contracted /\ q.pc \in Identified /\ q.pc # "idle"
  BY DEF Contracted, Identified
<1>2. /\ q \in Request /\ req \in [Requests -> Request] /\ q.loan \in Loans /\ q.asOf \in Days
      /\ q.asOf \in Nat /\ Cutoff \in Nat /\ q.asOf > Cutoff /\ ~ClosedAsOf(r)
  BY <1>1, ContractedFacts, Constants DEF Here, Exact, Closes, ClosedAsOf
<1>3. CASE start \notin Days \/ start > q.asOf
  <2>1. Reject(r, {"ErrHistoricalEvidence"})
    BY <1>3 DEF Lineage
  <2>2. QED
    BY <1>1, <2>1, RejectOther, OtherKindsAre
<1>4. CASE ~(start \notin Days \/ start > q.asOf) /\ start > Cutoff
  <2>1. Succeed(r, exact, exact, NoTimeline)
    BY <1>4 DEF Lineage
  <2>2. ASSUME q.asOf < q.today, Cardinality(dwh[q.loan][q.asOf]) <= 1
        PROVE  ResultView(exact, exact, NoTimeline) = Record(q.loan, q.asOf, closing[q.loan])
    <3>1. exact = Position("DWH", q.loan, q.asOf, Quality[q.loan][q.asOf])
      BY <1>1, <2>2, ExactIsDWH
    <3>2. ~(On(closing[q.loan]) # Blank /\ On(closing[q.loan]) <= q.asOf) /\ ~(q.asOf <= Cutoff)
      BY <1>1, <1>2, <2>2, ClosedThen
    <3>3. QED
      BY <1>4, <3>1, <3>2 DEF Record
  <2>3. QED
    BY <1>1, <2>1, <2>2, NoTimelineType, SucceedSound DEF ExactlyThis
<1>5. CASE ~(start \notin Days \/ start > q.asOf) /\ ~(start > Cutoff) /\ Bank[q.loan].alternate = Blank
  <2>1. Reject(r, {"ErrHistoricalEvidence"})
    BY <1>5 DEF Lineage
  <2>2. QED
    BY <1>1, <2>1, RejectOther, OtherKindsAre
<1>6. CASE ~(start \notin Days \/ start > q.asOf) /\ ~(start > Cutoff) /\ Bank[q.loan].alternate # Blank
  <2> DEFINE s == [q EXCEPT !.pc = "opening", !.exact = exact]
  <2>1. req' = [req EXCEPT ![r] = s]
    BY <1>2, <1>6 DEF Lineage
  <2>2. exact \in Positions
    BY DEF ExactlyThis
  <2>3. /\ s \in Request /\ s.pc = "opening" /\ s.exact = exact /\ s.loan = q.loan
        /\ s.account = q.account /\ s.close = q.close /\ s.asOf = q.asOf /\ s.today = q.today
        /\ s.outcome = q.outcome /\ s.via = q.via /\ s.misled = q.misled
    BY <1>2, <2>2 DEF Request, Points
  <2> HIDE DEF s
  <2>4. /\ Progress(q, day) /\ Located(q) /\ Closes(q, closing) /\ q.outcome = None
        /\ None # "success" /\ None # "not_found" /\ q.asOf <= q.today
    BY <1>1, ContractedFacts DEF Here, Sound
  <2>5. start \in 1..Cutoff
    BY <1>2, <1>6 DEF Days
  <2>6. Sound(s, day, closing, dwh)
    <3>1. Progress(s, day) /\ Located(s)
      BY <2>3, <2>4, <1>1 DEF Progress, Located, Right, Identified, Contracted
    <3>2. Closes(s, closing)
      BY <1>1, <1>2, <2>3, <2>4 DEF Closes, ClosedAsOf
    <3>3. Read(s, dwh)
      BY <2>3, <2>5 DEF Read, ExactlyThis
    <3>4. Exact(s, dwh)
      BY <1>2, <2>3, <3>3 DEF Exact
    <3>5. Evidence(s) /\ Unknown(s) /\ Stable(s, closing, dwh)
      BY <2>3, <2>4 DEF Evidence, Unknown, Stable
    <3>6. QED
      BY <2>3, <3>1, <3>2, <3>4, <3>5 DEF Sound
  <2>7. QED
    BY <2>1, <2>3, <2>6, Replaced
<1>7. QED
  BY <1>3, <1>4, <1>5, <1>6

LEMMA SnapshotPositionStep ==
    ASSUME NEW r \in Requests, Here(r), SnapshotPosition(r)
    PROVE  Kept(r)
<1> DEFINE q == req[r]
           p == Position("snapshot", q.loan, snapshot, Quality[q.loan][snapshot])
<1>1. q.pc = "exact" /\ q.pc \in Contracted /\ q.pc # "idle" /\ q.asOf = q.today
  BY DEF SnapshotPosition, At, Contracted
<1>2. q.loan \in Loans /\ q.asOf \in Days
  BY <1>1, ContractedFacts
<1>3. CASE snapshot = q.asOf
  <2>1. Lineage(r, p)
    BY <1>3 DEF SnapshotPosition, InSnapshot
  <2>2. Quality[q.loan][snapshot] \in 1..5 /\ Quality[q.loan][snapshot] \in 0..5
    BY <1>2, <1>3, Constants
  <2>3. p \in Positions /\ p.loan = q.loan /\ p.day = q.asOf /\ p.quality = Quality[q.loan][q.asOf]
    BY <1>2, <1>3, <2>2, PositionType
  <2> HIDE DEF p
  <2>4. ExactlyThis(r, p)
    BY <1>1, <2>3 DEF ExactlyThis
  <2>5. QED
    BY <1>1, <2>1, <2>4, LineageStep
<1>4. CASE snapshot # q.asOf
  <2>1. Reject(r, {"ErrNotFound", "ErrCurrentSnapshot"})
    BY <1>4 DEF SnapshotPosition, InSnapshot
  <2>2. QED
    BY <1>1, <2>1, RejectOther, OtherKindsAre
<1>5. QED
  BY <1>3, <1>4

LEMMA DWHPositionStep ==
    ASSUME NEW r \in Requests, Here(r), DWHPosition(r)
    PROVE  Kept(r)
<1> DEFINE q == req[r]
<1>1. q.pc = "exact" /\ q.pc \in Contracted /\ q.pc # "idle" /\ q.asOf # q.today
  BY DEF DWHPosition, At, Contracted
<1>2. q.loan \in Loans /\ q.asOf \in Days
  BY <1>1, ContractedFacts
<1>3. CASE dwh[q.loan][q.asOf] # {}
  <2>1. PICK quality \in dwh[q.loan][q.asOf] : Lineage(r, Position("DWH", q.loan, q.asOf, quality))
    BY <1>3 DEF DWHPosition
  <2>2. quality \in 0..5
    <3>1. dwh[q.loan][q.asOf] \in SUBSET (1..5)
      BY <1>2 DEF Here, World
    <3>2. QED
      BY <3>1
  <2> DEFINE p == Position("DWH", q.loan, q.asOf, quality)
  <2>3. /\ p \in Positions /\ p.loan = q.loan /\ p.day = q.asOf /\ p.source = "DWH"
        /\ p.quality = quality
    BY <1>2, <2>2, PositionType
  <2> HIDE DEF p
  <2>4. ExactlyThis(r, p)
    BY <1>1, <2>3 DEF ExactlyThis
  <2>5. QED
    BY <1>1, <2>1, <2>4, LineageStep DEF p
<1>4. CASE dwh[q.loan][q.asOf] = {}
  <2>1. Reject(r, {"ErrNotFound", "ErrHistoricalEvidence"})
    BY <1>4 DEF DWHPosition
  <2>2. QED
    BY <1>1, <2>1, RejectOther, OtherKindsAre
<1>5. QED
  BY <1>3, <1>4

LEMMA HistoricalPositionStep ==
    ASSUME NEW r \in Requests, Here(r), HistoricalPosition(r)
    PROVE  Kept(r)
<1> DEFINE q == req[r]
           p == MSOState(q.loan, q.asOf)
<1>1. /\ q.pc = "history" /\ q.pc \in Contracted /\ q.pc \in Identified
      /\ Succeed(r, p, p, NoTimeline)
  BY DEF HistoricalPosition, At, Contracted, Identified
<1>2. /\ q.loan \in Loans /\ q.asOf \in Days /\ q.asOf \in Nat /\ Cutoff \in Nat
      /\ q.asOf < Cutoff /\ ~ClosedAsOf(r)
  BY <1>1, ContractedFacts, Constants DEF Exact, Closes, ClosedAsOf
<1>3. Quality[q.loan][q.asOf] \in 0..5
  BY <1>2, Constants
<1>4. p \in Positions /\ p.loan = q.loan /\ p.day = q.asOf
  BY <1>2, <1>3, PositionType DEF MSOState
<1>5. ASSUME q.asOf < q.today
      PROVE  ResultView(p, p, NoTimeline) = Record(q.loan, q.asOf, closing[q.loan])
  <2>1. ~(On(closing[q.loan]) # Blank /\ On(closing[q.loan]) <= q.asOf) /\ q.asOf <= Cutoff
    BY <1>1, <1>2, <1>5, ClosedThen
  <2>2. QED
    BY <2>1 DEF Record, MSOState
<1> HIDE DEF p
<1>6. QED
  BY <1>1, <1>4, <1>5, NoTimelineType, SucceedSound

LEMMA OpeningStateStep ==
    ASSUME NEW r \in Requests, Here(r), OpeningState(r)
    PROVE  Kept(r)
<1> DEFINE q == req[r]
           p == MSOState(q.loan, Cutoff)
           exact == q.exact
<1>1. q.pc = "opening" /\ q.pc \in Contracted /\ q.pc \in Identified /\ q.pc # "idle"
  BY DEF OpeningState, At, Contracted, Identified
<1>2. /\ q \in Request /\ q.loan \in Loans /\ q.asOf \in Days /\ q.asOf \in Nat /\ Cutoff \in Nat
      /\ q.asOf >= Cutoff /\ ~ClosedAsOf(r) /\ Cutoff \in Days
      /\ q.asOf > Cutoff => Read(q, dwh)
  BY <1>1, ContractedFacts, Constants DEF Exact, Closes, ClosedAsOf
<1>3. q.asOf < q.today =>
        ~(On(closing[q.loan]) # Blank /\ On(closing[q.loan]) <= q.asOf)
  BY <1>1, <1>2, ClosedThen
<1>4. CASE q.asOf = Cutoff
  <2>1. Succeed(r, p, p, NoTimeline)
    BY <1>4 DEF OpeningState
  <2>2. Quality[q.loan][Cutoff] \in 0..5
    BY <1>2, Constants
  <2>3. p \in Positions /\ p.loan = q.loan /\ p.day = q.asOf
    BY <1>2, <1>4, <2>2, PositionType DEF MSOState
  <2>4. ASSUME q.asOf < q.today
        PROVE  ResultView(p, p, NoTimeline) = Record(q.loan, q.asOf, closing[q.loan])
    BY <1>2, <1>3, <1>4, <2>4 DEF Record, MSOState
  <2> HIDE DEF p
  <2>5. QED
    BY <1>1, <2>1, <2>3, <2>4, NoTimelineType, SucceedSound
<1>5. CASE q.asOf # Cutoff /\ ~Bank[q.loan].flat
  <2>1. Succeed(r, exact, exact, NoTimeline)
    BY <1>5 DEF OpeningState, IsFlat
  <2>2. q.asOf > Cutoff /\ ExactlyThis(r, exact)
    BY <1>2, <1>5 DEF Read, ExactlyThis
  <2>3. ASSUME q.asOf < q.today, Cardinality(dwh[q.loan][q.asOf]) <= 1
        PROVE  ResultView(exact, exact, NoTimeline) = Record(q.loan, q.asOf, closing[q.loan])
    <3>1. exact = Position("DWH", q.loan, q.asOf, Quality[q.loan][q.asOf])
      BY <1>1, <2>2, <2>3, ExactIsDWH
    <3>2. ~(q.asOf <= Cutoff)
      BY <1>2, <2>2
    <3>3. QED
      BY <1>3, <1>5, <2>3, <3>1, <3>2 DEF Record
  <2>4. QED
    BY <1>1, <2>1, <2>2, <2>3, NoTimelineType, SucceedSound DEF ExactlyThis
<1>6. CASE q.asOf # Cutoff /\ Bank[q.loan].flat /\ ~ValidSchedule(Bank[q.loan].schedule, Bank[q.loan].tenor)
  <2>1. Reject(r, {"ErrUnsupported"})
    BY <1>6 DEF OpeningState, IsFlat
  <2>2. QED
    BY <1>1, <2>1, RejectOther, OtherKindsAre
<1>7. CASE q.asOf # Cutoff /\ Bank[q.loan].flat /\ ValidSchedule(Bank[q.loan].schedule, Bank[q.loan].tenor)
  <2>1. Goto(r, "timeline")
    BY <1>7 DEF OpeningState, IsFlat
  <2> DEFINE s == [q EXCEPT !.pc = "timeline"]
  <2>2. /\ s.pc = "timeline" /\ s.loan = q.loan /\ s.asOf = q.asOf /\ s.today = q.today
        /\ s.exact = q.exact
    BY <1>2 DEF Request
  <2> HIDE DEF s
  <2>3. Exact(s, dwh)
    BY <1>2, <1>7, <2>2 DEF Exact, Read
  <2>4. QED
    BY <1>1, <1>2, <2>1, <2>3, GotoContracted DEF Contracted, s
<1>8. QED
  BY <1>4, <1>5, <1>6, <1>7

\* The warehouse's timeline, when its days have one value each.
LEMMA TimelineIs ==
    ASSUME World(day, snapshot, closing, dwh), NEW l \in Loans, NEW to \in Nat, to <= MaxDay,
           CollectabilityTimeline(l, Cutoff + 1, to) # None
    PROVE  LET rows == {e \in (Cutoff + 1)..to : dwh[l][e] # {}}
           IN  /\ CollectabilityTimeline(l, Cutoff + 1, to) = [e \in rows |-> Quality[l][e]]
               /\ \A e \in rows : Cardinality(dwh[l][e]) <= 1
<1> DEFINE rows == {e \in (Cutoff + 1)..to : dwh[l][e] # {}}
<1>1. \A e \in rows : e \in Days /\ dwh[l][e] # {}
  BY Constants DEF Days
<1>2. /\ ~(\E e \in rows : Cardinality(dwh[l][e]) > 1)
      /\ CollectabilityTimeline(l, Cutoff + 1, to) = [e \in rows |-> CHOOSE q \in dwh[l][e] : TRUE]
  BY DEF CollectabilityTimeline
<1> HIDE DEF rows
<1>3. ASSUME NEW e \in rows PROVE Cardinality(dwh[l][e]) <= 1
  <2>1. dwh[l][e] \in SUBSET (1..5)
    BY <1>1 DEF World
  <2>2. IsFiniteSet(1..5)
    BY 1 \in Int, 5 \in Int, FS_Interval, Zenon
  <2>3. Cardinality(dwh[l][e]) \in Nat
    BY <2>1, <2>2, FS_Subset, FS_CardinalityType
  <2>4. QED
    BY <1>2, <2>3
<1>4. ASSUME NEW e \in rows PROVE (CHOOSE q \in dwh[l][e] : TRUE) = Quality[l][e]
  <2>1. dwh[l][e] = {Quality[l][e]}
    BY <1>1, <1>3, OneRow
  <2>2. QED
    BY <2>1
<1>5. CollectabilityTimeline(l, Cutoff + 1, to) = [e \in rows |-> Quality[l][e]]
  BY <1>2, <1>4
<1>6. QED
  BY <1>3, <1>5 DEF rows

LEMMA ReconstructStep ==
    ASSUME NEW r \in Requests, Here(r), Reconstruct(r)
    PROVE  Kept(r)
<1> DEFINE q == req[r]
           l == q.loan
           d == q.asOf
           exact == q.exact
           today == d = q.today
           to == IF today THEN d - 1 ELSE d
           past == CollectabilityTimeline(l, Cutoff + 1, to)
           line == IF today THEN [e \in DOMAIN past \cup {d} |-> IF e = d THEN exact.quality ELSE past[e]]
                   ELSE past
           p == Position("reconstructed", l, d, line[Max(DOMAIN line)])
           rows == {e \in (Cutoff + 1)..to : dwh[l][e] # {}}
<1>1. q.pc = "timeline" /\ q.pc \in Contracted /\ q.pc \in Identified /\ q.pc # "idle"
  BY DEF Reconstruct, At, Contracted, Identified
<1>2. /\ q \in Request /\ l \in Loans /\ d \in Days /\ d \in Nat /\ q.today \in Nat /\ d <= q.today
      /\ Cutoff \in Nat /\ d > Cutoff /\ ~ClosedAsOf(r) /\ Read(q, dwh) /\ Bank[l].flat
  BY <1>1, ContractedFacts, Constants DEF Exact, Closes, ClosedAsOf
<1>3. ExactlyThis(r, exact)
  BY <1>2 DEF Read, ExactlyThis
<1>4. \/ Reject(r, {"ErrHistoricalEvidence"}) \/ Reject(r, {"ErrUnsupported"})
      \/ past # None /\ Succeed(r, p, exact, line)
  BY DEF Reconstruct
<1>5. CASE Reject(r, {"ErrHistoricalEvidence"}) \/ Reject(r, {"ErrUnsupported"})
  BY <1>1, <1>5, RejectOther, OtherKindsAre
<1>6. CASE past # None /\ Succeed(r, p, exact, line)
  <2>1. to \in Nat /\ to <= d /\ d <= MaxDay /\ to <= MaxDay
    BY <1>2, Constants DEF Days
  <2>2. past = [e \in rows |-> Quality[l][e]] /\ \A e \in rows : Cardinality(dwh[l][e]) <= 1
    <3> HIDE DEF to
    <3> QED BY <1>2, <1>6, <2>1, TimelineIs DEF Here
  <2>3. rows \subseteq Days /\ \A e \in rows : e \in Nat /\ e <= d
    <3> HIDE DEF to
    <3>1. \A e \in (Cutoff + 1)..to : e \in Nat /\ e \in 1..MaxDay /\ e <= d
      BY <1>2, <2>1, Constants
    <3>2. QED
      BY <3>1 DEF Days
  <2> HIDE DEF past
  <2>4. line = [e \in rows \cup {d} |-> Quality[l][e]]
    <3>1. CASE today
      <4>1. exact.quality = Quality[l][d] /\ DOMAIN past = rows
        BY <1>3, <2>2, <3>1 DEF ExactlyThis
      <4>2. \A e \in rows : past[e] = Quality[l][e]
        BY <2>2
      <4> HIDE DEF rows
      <4>3. QED
        BY <3>1, <4>1, <4>2
    <3>2. CASE ~today
      <4>1. dwh[l][d] # {}
        BY <1>3, <3>2 DEF ExactlyThis
      <4>2. d \in rows
        BY <1>2, <3>2, <4>1
      <4>3. rows \cup {d} = rows
        BY <4>2
      <4> HIDE DEF rows
      <4>4. QED
        BY <2>2, <3>2, <4>3
    <3>3. QED
      BY <3>1, <3>2
  <2> DEFINE S == rows \cup {d}
  <2>5. S \subseteq Days /\ d \in S /\ \A e \in S : e \in Nat /\ e <= d
    BY <1>2, <2>3
  <2> HIDE DEF S
  <2>6. DOMAIN line = S /\ line = [e \in S |-> Quality[l][e]]
    BY <2>4 DEF S
  <2> HIDE DEF line
  <2>7. Max(S) = d
    <3>1. \A x \in S : (\A y \in S : x >= y) => x = d
      BY <2>5
    <3>2. \A y \in S : d >= y
      BY <2>5
    <3>3. QED
      BY <2>5, <3>1, <3>2 DEF Max
  <2>8. \A e \in S : line[e] = Quality[l][e] /\ Quality[l][e] \in 1..5
    BY <1>2, <2>5, <2>6, Constants
  <2>9. line \in Timelines
    <3>1. line \in [S -> 1..5]
      BY <2>6, <2>8
    <3>2. QED
      BY <2>5, <3>1 DEF Timelines
  <2>10. p = Position("reconstructed", l, d, Quality[l][d])
    BY <2>5, <2>6, <2>7, <2>8
  <2> HIDE DEF p
  <2>11. p \in Positions /\ p.loan = l /\ p.day = d
    <3>1. Quality[l][d] \in 0..5
      BY <2>5, <2>8
    <3>2. QED
      BY <1>2, <2>10, <3>1, PositionType
  <2>12. ASSUME d < q.today, Cardinality(dwh[l][d]) <= 1
         PROVE  ResultView(p, exact, line) = Record(l, d, closing[l])
    <3>1. ~(On(closing[l]) # Blank /\ On(closing[l]) <= d) /\ ~(d <= Cutoff)
      BY <1>1, <1>2, <2>12, ClosedThen
    <3>2. ~(Bank[l].start > Cutoff) /\ Bank[l].flat
      BY <1>2 DEF Read
    <3>3. exact = Position("DWH", l, d, Quality[l][d])
      BY <1>1, <1>3, <2>12, ExactIsDWH
    <3>4. ~today /\ to = d
      BY <1>2, <2>12
    <3>5. S = (Cutoff + 1)..d
      <4>1. dwh[l][d] # {}
        BY <1>3, <3>4 DEF ExactlyThis
      <4>2. \A e \in (Cutoff + 1)..d : dwh[l][e] # {}
        BY <1>2, <4>1 DEF Here, World
      <4>3. d \in (Cutoff + 1)..d
        BY <1>2
      <4>4. rows = (Cutoff + 1)..d
        BY <3>4, <4>2
      <4>5. QED
        BY <4>3, <4>4 DEF S
    <3>6. QED
      BY <2>6, <2>10, <3>1, <3>2, <3>3, <3>5 DEF Record
  <2>13. QED
    BY <1>1, <1>3, <1>6, <2>6, <2>8, <2>9, <2>11, <2>12, SucceedSound DEF ExactlyThis
<1>7. QED
  BY <1>4, <1>5, <1>6

LEMMA ReadFailsStep ==
    ASSUME NEW r \in Requests, Here(r), ReadFails(r)
    PROVE  Kept(r)
<1>1. PICK pc, kinds : /\ pc # "idle" /\ At(r, pc) /\ Reject(r, kinds)
                       /\ \E k \in kinds : k \in OtherKinds
  BY OtherKindsAre DEF ReadFails
<1>2. QED
  BY <1>1, RejectOther DEF At

LEMMA IdleSound ==
    /\ Idle \in Request
    /\ \A dy, cl, dw : Sound(Idle, dy, cl, dw)
<1>1. Idle \in Request
  BY Constants DEF Idle, Request, Points
<1>2. Idle.pc = "idle" /\ Idle.outcome = None /\ None # "success" /\ None # "not_found"
  BY Constants DEF Idle, Outcomes
<1>3. \A dy, cl, dw : /\ Progress(Idle, dy) /\ Located(Idle) /\ Closes(Idle, cl) /\ Exact(Idle, dw)
                      /\ Evidence(Idle) /\ Unknown(Idle) /\ Stable(Idle, cl, dw)
  BY <1>2 DEF Progress, Located, Closes, Exact, Evidence, Unknown, Stable, Identified, Contracted
<1>4. QED
  BY <1>1, <1>3 DEF Sound

LEMMA DoneStep ==
    ASSUME NEW r \in Requests, Here(r), Done(r)
    PROVE  Kept(r)
  BY IdleSound, Replaced DEF Done

\* A step of a request keeps the invariant of the request, touches no other
\* and nothing around it.
LEMMA InquiryStep ==
    ASSUME NEW r \in Requests, Here(r), Inquiry(r)
    PROVE  Kept(r) /\ UNCHANGED world
<1>1. Kept(r)
  BY AskStep, GetLoanStep, ResolveAlternateStep, GetResolvedLoanStep, RouteStep,
     SnapshotPositionStep, DWHPositionStep, HistoricalPositionStep, OpeningStateStep,
     ReconstructStep, ReadFailsStep, DoneStep DEF Inquiry
<1>2. UNCHANGED world
  BY DEF Inquiry, AskAPI, AskPage, AskPDF, Ask, GetLoan, ResolveAlternate, GetResolvedLoan, Route,
         SnapshotPosition, DWHPosition, HistoricalPosition, OpeningState, Reconstruct, ReadFails, Done
<1>3. QED
  BY <1>1, <1>2

-----------------------------------------------------------------------------
(* The steps around the requests.                                          *)

\* An answered or contracted request is of a day before the day that is now,
\* unless it is of its own today.
LEMMA NextDayStep ==
    ASSUME World(day, snapshot, closing, dwh), NextDay
    PROVE  /\ World(day', snapshot', closing', dwh')
           /\ \A q : Sound(q, day, closing, dwh) => Sound(q, day', closing', dwh')
<1>1. /\ day \in FirstDay..MaxDay /\ day < MaxDay /\ day' = day + 1
      /\ closing' = closing /\ snapshot' = snapshot /\ dwh' = dwh /\ FirstDay \in Nat /\ MaxDay \in Nat
  BY Constants DEF NextDay, World
<1>2. day \in Nat /\ day' \in FirstDay..MaxDay /\ \A t : t \in FirstDay..day => t \in FirstDay..day'
  BY <1>1
<1>3. \A l \in Loans : On(closing[l]) # Blank => On(closing[l]) <= day'
  <2>1. ASSUME NEW l \in Loans, On(closing[l]) # Blank PROVE On(closing[l]) <= day'
    <3>1. On(closing[l]) \in Days /\ On(closing[l]) <= day
      BY <2>1 DEF World, On
    <3>2. On(closing[l]) \in Nat
      BY <3>1, Constants
    <3>3. QED
      BY <1>1, <1>2, <3>1, <3>2
  <2>2. QED
    BY <2>1
<1>4. World(day', snapshot', closing', dwh')
  BY <1>1, <1>2, <1>3 DEF World
<1>5. ASSUME NEW q, Sound(q, day, closing, dwh) PROVE Sound(q, day', closing', dwh')
  BY <1>1, <1>2, <1>5 DEF Sound, Progress
<1>6. QED
  BY <1>4, <1>5

LEMMA CloseLoanStep ==
    ASSUME World(day, snapshot, closing, dwh), CloseLoan
    PROVE  /\ World(day', snapshot', closing', dwh')
           /\ \A q : Sound(q, day, closing, dwh) => Sound(q, day', closing', dwh')
<1>1. PICK l \in Closable, c \in {[object |-> Blank, legacy |-> day], [object |-> day, legacy |-> None],
                                  [object |-> day, legacy |-> day]} :
        /\ closing[l] = [object |-> Blank, legacy |-> Blank]
        /\ closing' = [closing EXCEPT ![l] = c]
  BY DEF CloseLoan
<1>2. /\ l \in Loans /\ day \in Days /\ Blank \notin Days /\ day' = day /\ snapshot' = snapshot
      /\ dwh' = dwh /\ \A d \in Days : d \in Nat /\ d # 0
  BY InquiryAssumption, Constants DEF CloseLoan, World, Days
<1>3. /\ c \in [object : Days \cup {Blank}, legacy : Days \cup {Blank, None}]
      /\ c.object = Blank => c.legacy # None
      /\ c.object # Blank => c.legacy \in {None, c.object}
      /\ On(c) = day /\ On(closing[l]) = Blank
  BY <1>1, <1>2, Constants DEF On
<1>4. closing \in [Loans -> [object : Days \cup {Blank}, legacy : Days \cup {Blank, None}]]
  BY DEF World
<1>5. /\ closing' \in [Loans -> [object : Days \cup {Blank}, legacy : Days \cup {Blank, None}]]
      /\ closing'[l] = c /\ \A k \in Loans : k # l => closing'[k] = closing[k]
  BY <1>1, <1>2, <1>3, <1>4
<1>6. World(day', snapshot', closing', dwh')
  <2>1. day \in Nat /\ day <= day
    BY <1>2
  <2>2. ASSUME NEW k \in Loans
        PROVE  /\ closing'[k].object = Blank => closing'[k].legacy # None
               /\ closing'[k].object # Blank => closing'[k].legacy \in {None, closing'[k].object}
               /\ On(closing'[k]) # Blank => On(closing'[k]) <= day
    <3>1. CASE k = l
      BY <1>3, <1>5, <2>1, <3>1
    <3>2. CASE k # l
      BY <1>5, <3>2 DEF World
    <3>3. QED
      BY <3>1, <3>2
  <2>3. /\ day' \in FirstDay..MaxDay /\ snapshot' \in 0..MaxDay
        /\ dwh' \in [Loans -> [Days -> SUBSET (1..5)]]
        /\ \A k \in Loans, d \in Days :
             /\ dwh'[k][d] \in {{}, {Quality[k][d]}, {Quality[k][d], 5}}
             /\ dwh'[k][d] # {} => \A e \in (Cutoff + 1)..d : dwh'[k][e] # {}
    BY <1>2 DEF World
  <2>4. \A k \in Loans :
          /\ closing'[k].object = Blank => closing'[k].legacy # None
          /\ closing'[k].object # Blank => closing'[k].legacy \in {None, closing'[k].object}
          /\ On(closing'[k]) # Blank => On(closing'[k]) <= day'
    BY <1>2, <2>2
  <2>5. QED
    BY <1>5, <2>3, <2>4, Zenon DEF World
<1>7. ASSUME NEW q, Sound(q, day, closing, dwh) PROVE Sound(q, day', closing', dwh')
  <2>1. /\ q \in Request /\ q.close \in 0..MaxDay /\ Progress(q, day) /\ Located(q)
        /\ Closes(q, closing) /\ Stable(q, closing, dwh)
    BY <1>7 DEF Sound, Request
  <2>2. q.pc # "idle" => q.today \in Nat /\ q.today <= day /\ q.asOf \in Nat
    BY <2>1, Constants DEF Progress
  <2>3. Closes(q, closing')
    <3>1. SUFFICES ASSUME q.pc \in Contracted PROVE Closes(q, closing')
      BY DEF Closes
    <3>2. q.loan \in Loans /\ q.today <= day /\ q.today \in Nat
      BY <2>1, <2>2, <3>1 DEF Located, Right, Identified, Contracted
    <3>3. CASE q.loan # l
      BY <1>5, <2>1, <3>2, <3>3 DEF Closes
    <3>4. CASE q.loan = l
      <4>1. q.close = 0
        BY <1>2, <1>3, <2>1, <3>1, <3>4 DEF Closes, Days
      <4>2. On(closing'[q.loan]) >= q.today
        BY <1>2, <1>3, <1>5, <3>2, <3>4
      <4>3. QED
        BY <2>1, <3>1, <4>1, <4>2 DEF Closes
    <3>5. QED
      BY <3>3, <3>4
  <2>4. Stable(q, closing', dwh)
    <3>1. SUFFICES ASSUME q.outcome = "success", q.asOf < q.today, Cardinality(dwh[q.loan][q.asOf]) <= 1
                   PROVE  Record(q.loan, q.asOf, closing'[q.loan]) = Record(q.loan, q.asOf, closing[q.loan])
      BY <2>1 DEF Stable
    <3>2. q.loan \in Loans /\ q.pc = "answered"
      BY <2>1, <3>1, Constants DEF Located, Right, Progress, Outcomes
    <3>3. CASE q.loan # l
      BY <1>5, <3>2, <3>3
    <3>4. CASE q.loan = l
      <4>1. q.asOf < day
        BY <1>2, <2>2, <3>1, <3>2
      <4>2. ~(On(c) # Blank /\ On(c) <= q.asOf) /\ ~(On(closing[l]) # Blank)
        BY <1>2, <1>3, <2>2, <3>2, <4>1
      <4>3. QED
        BY <1>5, <3>4, <4>2 DEF Record
    <3>5. QED
      BY <3>3, <3>4
  <2>5. QED
    BY <1>2, <1>7, <2>3, <2>4 DEF Sound
<1>8. QED
  BY <1>6, <1>7

LEMMA LoadDWHStep ==
    ASSUME World(day, snapshot, closing, dwh), LoadDWH
    PROVE  /\ World(day', snapshot', closing', dwh')
           /\ \A q : Sound(q, day, closing, dwh) => Sound(q, day', closing', dwh')
<1>1. PICK d \in (Cutoff + 1)..(day - 1), twice \in SUBSET Doubled :
        /\ \A l \in Loans : dwh[l][d] = {} /\ (d > Cutoff + 1 => dwh[l][d - 1] # {})
        /\ dwh' = [l \in Loans |-> [dwh[l] EXCEPT ![d] =
                      {Quality[l][d]} \cup IF l \in twice THEN {5} ELSE {}]]
  BY DEF LoadDWH
<1>2. /\ d \in Days /\ d \in Nat /\ Cutoff \in Nat /\ day' = day /\ snapshot' = snapshot
      /\ closing' = closing
  BY Constants DEF LoadDWH, World, Days
<1>3. dwh \in [Loans -> [Days -> SUBSET (1..5)]] /\ Quality \in [Loans -> [Days -> 1..5]]
  BY Constants DEF World
<1> DEFINE new(l) == {Quality[l][d]} \cup IF l \in twice THEN {5} ELSE {}
<1>4. ASSUME NEW l \in Loans
      PROVE  new(l) \in {{Quality[l][d]}, {Quality[l][d], 5}} /\ new(l) \in SUBSET (1..5) /\ new(l) # {}
  <2>1. Quality[l][d] \in 1..5
    BY <1>2, <1>3
  <2>2. QED
    BY <2>1
<1>5. \A l \in Loans : dwh'[l] = [dwh[l] EXCEPT ![d] = new(l)]
  BY <1>1
<1> HIDE DEF new
<1>6. /\ dwh' \in [Loans -> [Days -> SUBSET (1..5)]]
      /\ \A l \in Loans : dwh'[l][d] = new(l) /\ \A e \in Days : e # d => dwh'[l][e] = dwh[l][e]
  <2>1. \A l \in Loans : dwh'[l] \in [Days -> SUBSET (1..5)] /\ dwh'[l][d] = new(l)
                         /\ \A e \in Days : e # d => dwh'[l][e] = dwh[l][e]
    <3>1. ASSUME NEW l \in Loans
          PROVE  dwh'[l] \in [Days -> SUBSET (1..5)] /\ dwh'[l][d] = new(l)
                 /\ \A e \in Days : e # d => dwh'[l][e] = dwh[l][e]
      <4>1. dwh[l] \in [Days -> SUBSET (1..5)] /\ new(l) \in SUBSET (1..5)
        BY <1>3, <1>4
      <4>2. QED
        BY <1>2, <1>5, <4>1
    <3>2. QED
      BY <3>1
  <2>2. dwh' = [l \in Loans |-> dwh'[l]]
    BY <1>1
  <2>3. QED
    BY <2>1, <2>2
<1>7. ASSUME NEW l \in Loans, NEW e \in Days, dwh'[l][e] # {}, NEW f \in (Cutoff + 1)..e
      PROVE  dwh'[l][f] # {}
  <2>1. f \in Days /\ f \in Nat /\ e \in Nat /\ f <= e /\ f >= Cutoff + 1
    BY Constants DEF Days
  <2>2. CASE f = d
    BY <1>4, <1>6, <2>2
  <2>3. CASE f # d /\ e # d
    BY <1>6, <1>7, <2>1, <2>3 DEF World
  <2>4. CASE f # d /\ e = d
    <3>1. d > Cutoff + 1 /\ d - 1 \in Days /\ f \in (Cutoff + 1)..(d - 1)
      <4>1. d \in 1..MaxDay /\ MaxDay \in Nat
        BY <1>2, Constants DEF Days
      <4>2. f <= d - 1 /\ d > Cutoff + 1 /\ d - 1 \in 1..MaxDay
        BY <1>2, <2>1, <2>4, <4>1
      <4>3. QED
        BY <1>2, <2>1, <4>2 DEF Days
    <3>2. dwh[l][d - 1] # {}
      BY <1>1, <3>1
    <3>3. dwh[l][f] # {}
      BY <3>1, <3>2 DEF World
    <3>4. QED
      BY <1>6, <2>1, <2>4, <3>3
  <2>5. QED
    BY <2>2, <2>3, <2>4
<1>8. World(day', snapshot', closing', dwh')
  <2>1. \A l \in Loans, e \in Days : dwh'[l][e] \in {{}, {Quality[l][e]}, {Quality[l][e], 5}}
    <3>1. ASSUME NEW l \in Loans, NEW e \in Days
          PROVE  dwh'[l][e] \in {{}, {Quality[l][e]}, {Quality[l][e], 5}}
      <4>1. CASE e = d
        BY <1>4, <1>6, <4>1
      <4>2. CASE e # d
        BY <1>6, <4>2 DEF World
      <4>3. QED
        BY <4>1, <4>2
    <3>2. QED
      BY <3>1
  <2>2. QED
    BY <1>2, <1>6, <1>7, <2>1 DEF World
<1>9. ASSUME NEW q, Sound(q, day, closing, dwh) PROVE Sound(q, day', closing', dwh')
  <2>1. Progress(q, day) /\ Located(q) /\ Exact(q, dwh) /\ Stable(q, closing, dwh)
    BY <1>9 DEF Sound
  <2>2. Exact(q, dwh')
    <3>1. SUFFICES ASSUME q.pc \in {"opening", "timeline"}, q.asOf > Cutoff, Read(q, dwh) PROVE Read(q, dwh')
      BY <2>1 DEF Exact
    <3>2. q.loan \in Loans /\ q.asOf \in Days
      BY <2>1, <3>1 DEF Located, Right, Progress, Identified, Contracted
    <3>3. q.asOf # q.today => q.asOf # d
      BY <1>1, <3>1, <3>2 DEF Read
    <3>4. QED
      BY <1>6, <3>1, <3>2, <3>3 DEF Read
  <2>3. Stable(q, closing, dwh')
    <3>1. SUFFICES ASSUME q.outcome = "success", Cardinality(dwh'[q.loan][q.asOf]) <= 1
                   PROVE  Cardinality(dwh[q.loan][q.asOf]) <= 1
      BY <2>1 DEF Stable
    <3>2. q.loan \in Loans /\ q.asOf \in Days
      BY <2>1, <3>1, Constants DEF Located, Right, Progress, Outcomes
    <3>3. CASE q.asOf = d
      <4>1. dwh[q.loan][q.asOf] = {} /\ Cardinality({}) = 0
        BY <1>1, <3>2, <3>3, FS_EmptySet
      <4>2. QED
        BY <4>1
    <3>4. CASE q.asOf # d
      BY <1>6, <3>1, <3>2, <3>4
    <3>5. QED
      BY <3>3, <3>4
  <2>4. QED
    BY <1>2, <1>9, <2>2, <2>3 DEF Sound
<1>10. QED
  BY <1>8, <1>9

LEMMA RefreshSnapshotStep ==
    ASSUME World(day, snapshot, closing, dwh), RefreshSnapshot
    PROVE  /\ World(day', snapshot', closing', dwh')
           /\ \A q : Sound(q, day, closing, dwh) => Sound(q, day', closing', dwh')
<1>1. day \in 0..MaxDay
  BY Constants DEF World, Days
<1>2. QED
  BY <1>1 DEF World, RefreshSnapshot

-----------------------------------------------------------------------------
(* The theorems.                                                           *)

LEMMA InitialInv == Init => IInv
<1> SUFFICES ASSUME Init PROVE IInv
  OBVIOUS
<1>1. World(day, snapshot, closing, dwh)
  <2> DEFINE c == [object |-> Blank, legacy |-> Blank]
  <2>1. /\ c \in [object : Days \cup {Blank}, legacy : Days \cup {Blank, None}]
        /\ c.object = Blank /\ c.legacy # None /\ On(c) = Blank
    BY Constants DEF On
  <2> HIDE DEF c
  <2>2. closing = [l \in Loans |-> c] /\ \A l \in Loans : closing[l] = c
    BY DEF Init, c
  <2>3. dwh \in [Loans -> [Days -> SUBSET (1..5)]] /\ \A l \in Loans, d \in Days : dwh[l][d] = {}
    BY DEF Init
  <2>4. day \in FirstDay..MaxDay /\ snapshot \in 0..MaxDay
    BY Constants DEF Init, Days
  <2>5. QED
    BY <2>1, <2>2, <2>3, <2>4 DEF World
<1>2. req \in [Requests -> Request] /\ \A r \in Requests : Sound(req[r], day, closing, dwh)
  BY IdleSound DEF Init
<1>3. QED
  BY <1>1, <1>2, InvariantOver

LEMMA Inductive == IInv /\ [Next]_vars => IInv'
<1> SUFFICES ASSUME IInv, [Next]_vars PROVE IInv'
  OBVIOUS
<1>1. /\ World(day, snapshot, closing, dwh) /\ req \in [Requests -> Request]
      /\ \A r \in Requests : Sound(req[r], day, closing, dwh)
  BY InvariantOver
<1>2. ASSUME NEW r \in Requests, Inquiry(r) PROVE IInv'
  <2>1. Here(r)
    BY <1>1 DEF Here
  <2>2. Kept(r) /\ UNCHANGED <<day, closing, snapshot, dwh>>
    BY <1>2, <2>1, InquiryStep DEF world
  <2>3. \A s \in Requests : Sound(req'[s], day', closing', dwh')
    BY <1>1, <2>2 DEF Kept
  <2>4. QED
    BY <1>1, <2>2, <2>3, InvariantOver DEF Kept
<1>3. CASE NextDay \/ CloseLoan \/ RefreshSnapshot \/ LoadDWH
  <2>1. /\ World(day', snapshot', closing', dwh')
        /\ \A q : Sound(q, day, closing, dwh) => Sound(q, day', closing', dwh')
    BY <1>1, <1>3, NextDayStep, CloseLoanStep, LoadDWHStep, RefreshSnapshotStep
  <2>2. req' = req
    BY <1>3 DEF NextDay, CloseLoan, RefreshSnapshot, LoadDWH
  <2>3. QED
    BY <1>1, <2>1, <2>2, InvariantOver
<1>4. CASE UNCHANGED vars
  BY <1>1, <1>4, InvariantOver DEF vars
<1>5. QED
  BY <1>2, <1>3, <1>4 DEF Next

LEMMA InquiryInvariant == Spec => []IInv
<1>1. Init => IInv
  BY InitialInv
<1>2. IInv /\ [Next]_vars => IInv'
  BY Inductive
<1>3. QED
  BY <1>1, <1>2, PTL DEF Spec

\* Requests, Fincloud's close dates and the warehouse keep their types.
THEOREM TypeCorrect == Spec => []TypeOK
<1>1. IInv => TypeOK
  BY DEF IInv
<1>2. QED
  BY <1>1, InquiryInvariant, PTL

\* ResolveLoan: whoever gets an answer gets it for the loan with the number
\* asked for, unless Fincloud gave another loan's contract at the first try or
\* listed another loan without its alternate account; and never for another
\* loan than the one with the number, unless Fincloud gave that contract,
\* denied the loan or left it out of the page.
THEOREM TheRightLoanIsAnswered == Spec => []AnswersTheRightLoan
<1>1. IInv => AnswersTheRightLoan
  BY DEF IInv, LoanInv, AnswersTheRightLoan
<1>2. QED
  BY <1>1, InquiryInvariant, PTL

\* The balance, the arrears and each point of the timeline are of the loan and
\* of their day, whatever changes between the reads of one inquiry.
THEOREM TheEvidenceIsOfItsDay == Spec => []EvidenceIsOfItsDay
<1>1. IInv => EvidenceIsOfItsDay
  BY DEF IInv
<1>2. QED
  BY <1>1, InquiryInvariant, PTL

\* "Not found" is told only of a number that no loan has, or whose loan
\* Fincloud denied or left out of the page.
THEOREM NotFoundIsUnknown == Spec => []NotFoundMeansUnknown
<1>1. IInv => NotFoundMeansUnknown
  BY DEF IInv
<1>2. QED
  BY <1>1, InquiryInvariant, PTL

\* An answer for a past day, of which the warehouse holds one value, is the
\* record of that day, before and after the loan is closed or rows are loaded.
THEOREM TheHistoryIsStable == Spec => []HistoryIsStable
<1>1. IInv => HistoryIsStable
  BY DEF IInv
<1>2. QED
  BY <1>1, InquiryInvariant, PTL

=============================================================================
