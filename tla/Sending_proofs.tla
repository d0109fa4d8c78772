---------------------------- MODULE Sending_proofs ----------------------------
(***************************************************************************)
(* IInv of Sending is inductive: for any countries, listing of GeniusPay,  *)
(* numbers, amounts and settings, the quote at rest is about the fields as *)
(* they are, the payment goes where the recipient is, a number is saved    *)
(* once, and only the administrator switches a country.  Two more          *)
(* invariants rest on it: Charging, what quote and create know of the      *)
(* settings, and CatalogFits with CreateFits, what the seed and the        *)
(* synchronisation keep true of the operators between two upserts, and     *)
(* create between two reads.                                               *)
(***************************************************************************)
EXTENDS Sending, TransferFees_proofs, FiniteSetTheorems

Keys == {"percent", "fixed", "feeEstimate", "min", "max"}

-----------------------------------------------------------------------------
(* Changing a field of a record.   *)

LEMMA ExceptLemma ==
  ASSUME NEW r, IsRecord(r, DOMAIN r), NEW field \in DOMAIN r, NEW value
  PROVE  LET s == [r EXCEPT ![field] = value] IN
         /\ IsRecord(s, DOMAIN s) /\ DOMAIN s = DOMAIN r
         /\ s[field] = value
         /\ \A other \in DOMAIN r : other # field => s[other] = r[other]
  BY DEF IsRecord

LEMMA TypeLemma ==
  /\ SETTINGS \in [Keys -> Nat]
  /\ IsRecord(NewPage, {"shown", "error", "timer", "sending"})
  BY DEF SETTINGS, Keys, NewPage, IsRecord

-----------------------------------------------------------------------------
(* Initially. *)

LEMMA InitLemma == Init => IInv
  <1> SUFFICES ASSUME Init PROVE IInv
    OBVIOUS
  <1>1. PageShape
    <2>1. form \in Form
      BY DEF Init, NewForms
    <2> QED BY <2>1, TypeLemma DEF Init, PageShape, NoQuote
  <1>2. QuoteIsOfForm
    BY DEF Init, QuoteIsOfForm, NewForms
  <1>3. CreateShape
    BY DEF Init, CreateShape, NoCreate, IsRecord
  <1>4. TablesShape
    <2>1. saved \in [Phone -> [sends : Nat, byHand : Nat]] /\ SavedOnce
      BY DEF Init, SavedOnce
    <2>2. settings \in [Keys -> Nat] /\ switched = [i \in Iso2 |-> TRUE]
      BY TypeLemma DEF Init, CatInit
    <2>3. IsRecord(countries, Iso2)
      <3> DEFINE Row(i) == IF SeedOf(i) = {} THEN NoRow
                           ELSE CountryWritten(CHOOSE u \in SeedOf(i) : TRUE, NoRow)
      <3>1. countries = [i \in Iso2 |-> Row(i)]
        BY DEF Init, CatInit
      <3> HIDE DEF Row
      <3> QED BY <3>1 DEF IsRecord
    <2>4. ASSUME NEW i \in Iso2
          PROVE  /\ IsRecord(countries[i], DOMAIN countries[i])
                 /\ {"exists"} \subseteq DOMAIN countries[i] /\ countries[i].exists \in BOOLEAN
                 /\ countries[i].exists =>
                      "isActive" \in DOMAIN countries[i] /\ countries[i].isActive = TRUE
      <3>1. CASE SeedOf(i) # {}
        <4> DEFINE u == CHOOSE v \in SeedOf(i) : TRUE
        <4>1. countries[i] = CountryWritten(u, NoRow)
          BY <3>1 DEF Init, CatInit
        <4> HIDE DEF u
        <4> QED BY <4>1 DEF CountryWritten, NoRow, IsRecord
      <3>2. CASE SeedOf(i) = {}
        <4>1. countries[i] = NoRow
          BY <3>2 DEF Init, CatInit
        <4> QED BY <4>1 DEF IsRecord, NoRow
      <3> QED BY <3>1, <3>2
    <2> QED BY <2>1, <2>2, <2>3, <2>4 DEF TablesShape, Keys
  <1> QED BY <1>1, <1>2, <1>3, <1>4 DEF IInv

-----------------------------------------------------------------------------
(* The page and its quote. *)

LEMMA PageStep ==
  ASSUME IInv, [Next]_vars
  PROVE  PageShape' /\ QuoteIsOfForm'
  <1> USE DEF IInv
  <1>1. ASSUME NEW recipient \in Recipients, NEW amount \in Amounts \cup {Empty},
               Edit(recipient, amount)
        PROVE  PageShape' /\ QuoteIsOfForm'
    <2>1. form' \in Form /\ form'.amount = amount
      BY <1>1 DEF Edit, PageShape, Form
    <2>2. page'.timer = (amount # Empty) /\ IsRecord(page', {"shown", "error", "timer", "sending"})
      BY <1>1 DEF Edit, Effect, PageShape, IsRecord
    <2> QED BY <1>1, <2>1, <2>2 DEF Edit, PageShape, QuoteIsOfForm
  <1>2. ASSUME NEW phone \in Phone, NEW operator \in Codes \cup {NoOperator}, Fill(phone, operator)
        PROVE  PageShape' /\ QuoteIsOfForm'
    <2>1. form' \in Form /\ form'.amount = form.amount /\ form'.recipient = form.recipient
      BY <1>2 DEF Fill, PageShape, Form
    <2> QED BY <1>2, <2>1 DEF Fill, PageShape, QuoteIsOfForm
  <1>3. CASE Send
    <2>1. IsRecord(page', {"shown", "error", "timer", "sending"}) /\ page'.sending
          /\ page'.timer = page.timer
      BY <1>3 DEF Send, PageShape, IsRecord
    <2> QED BY <1>3, <2>1 DEF Send, PageShape, QuoteIsOfForm
  <1>4. CASE AskQuote
    <2>1. IsRecord(page', {"shown", "error", "timer", "sending"})
      BY <1>4 DEF AskQuote, PageShape, IsRecord
    <2>2. /\ quoting'.pc = "limits" /\ quoting'.recipient = form.recipient
          /\ quoting'.amount = form.amount
          /\ IsRecord(quoting', {"pc", "recipient", "amount", "early", "since"})
      BY <1>4 DEF AskQuote, IsRecord
    <2> QED BY <1>4, <2>1, <2>2 DEF AskQuote, PageShape, QuoteIsOfForm
  <1>5. CASE ShowQuote
    <2>1. /\ IsRecord(page', {"shown", "error", "timer", "sending"})
          /\ page'.timer = page.timer
          /\ page'.shown = [recipient |-> quoting.recipient, amount |-> quoting.amount,
                            total |-> quoting.total, since |-> quoting.since]
      BY <1>5 DEF ShowQuote, PageShape, IsRecord
    <2>2. /\ "recipient" \in DOMAIN page'.shown /\ "recipient" \notin DOMAIN NotShown
          /\ page'.shown.recipient = quoting.recipient /\ page'.shown.amount = quoting.amount
      BY <2>1 DEF NotShown
    <2>3. page'.shown # NotShown
      BY <2>2
    <2> QED BY <1>5, <2>1, <2>2, <2>3 DEF ShowQuote, PageShape, QuoteIsOfForm, NoQuote
  <1>6. CASE ShowQuoteError
    <2>1. IsRecord(page', {"shown", "error", "timer", "sending"}) /\ page'.error
      BY <1>6 DEF ShowQuoteError, PageShape, IsRecord
    <2> QED BY <1>6, <2>1 DEF ShowQuoteError, PageShape, QuoteIsOfForm, NoQuote
  <1>7. CASE Leave
    <2>1. form' \in Form /\ form'.amount = Empty
      BY <1>7 DEF Leave, NewForms
    <2> QED BY <1>7, <2>1, TypeLemma DEF Leave, PageShape, QuoteIsOfForm, NoQuote
  <1>8. CASE SendError
    <2>1. IsRecord(page', {"shown", "error", "timer", "sending"}) /\ page'.error
          /\ page'.timer = page.timer
      BY <1>8 DEF SendError, PageShape, IsRecord
    <2> QED BY <1>8, <2>1 DEF SendError, PageShape, QuoteIsOfForm
  <1>9. CASE QuoteLimits
    <2>1. PICK got \in Reads(Limits, quoting.early) :
            quoting' = IF WithinLimits(quoting.amount, got)
                         THEN [quoting EXCEPT !.pc = "rates", !.early = settings]
                         ELSE [pc |-> "refused"]
      BY <1>9 DEF QuoteLimits
    <2>2. CASE WithinLimits(quoting.amount, got)
      <3>1. /\ quoting'.pc = "rates" /\ quoting'.recipient = quoting.recipient
            /\ quoting'.amount = quoting.amount
            /\ IsRecord(quoting', {"pc", "recipient", "amount", "early", "since"})
        BY <1>9, <2>1, <2>2 DEF QuoteLimits, PageShape, IsRecord
      <3> QED BY <1>9, <3>1 DEF QuoteLimits, PageShape, QuoteIsOfForm
    <2>3. CASE ~ WithinLimits(quoting.amount, got)
      <3>1. quoting'.pc = "refused"
        BY <2>1, <2>3
      <3> QED BY <1>9, <3>1 DEF QuoteLimits, PageShape, QuoteIsOfForm
    <2> QED BY <2>2, <2>3
  <1>10. CASE QuoteRates
    <2>1. /\ quoting'.pc = "answered" /\ quoting'.recipient = quoting.recipient
          /\ quoting'.amount = quoting.amount
      BY <1>10 DEF QuoteRates
    <2> QED BY <1>10, <2>1 DEF QuoteRates, PageShape, QuoteIsOfForm
  <1>11. CASE UNCHANGED pageVars
    BY <1>11 DEF pageVars, PageShape, QuoteIsOfForm
  <1>12. CASE Server
    BY <1>9, <1>10, <1>11, <1>12 DEF Server, ReadCountries, CreateLimits, ResolveOperator,
       DetectOperator, CreateRates, GatewayAccepts, FindBeneficiary, SaveBeneficiary, CreateFails,
       Orphaned, OnlyCreate
  <1>13. CASE Beneficiaries
    BY <1>11, <1>13 DEF Beneficiaries, AddBeneficiary, UpdateBeneficiary, RemoveBeneficiary
  <1>14. CASE UNCHANGED vars
    BY <1>11, <1>14 DEF vars, pageVars
  <1> QED BY <1>1, <1>2, <1>3, <1>4, <1>5, <1>6, <1>7, <1>8, <1>11, <1>12, <1>13, <1>14
         DEF Next, Page, Answers

-----------------------------------------------------------------------------
(* The create under way. *)

(* A request that is given up or only begun. *)
LEMMA CreateNew ==
  ASSUME IsRecord(create', DOMAIN create'), "pc" \in DOMAIN create',
         create'.pc \in {"idle", "refused", "countries"}
  PROVE  CreateShape'
  BY DEF CreateShape

LEMMA GivenUp ==
  ASSUME create' = NoCreate \/ create' = Refused
  PROVE  CreateShape'
  <1>1. IsRecord(create', DOMAIN create') /\ "pc" \in DOMAIN create'
        /\ create'.pc \in {"idle", "refused"}
    BY DEF NoCreate, Refused, IsRecord
  <1> QED BY <1>1, CreateNew

LEMMA CreateStep ==
  ASSUME IInv, [Next]_vars
  PROVE  CreateShape'
  <1> USE DEF IInv
  <1>1. CASE Send
    <2>1. create'.pc = "countries" /\ IsRecord(create', DOMAIN create') /\ "pc" \in DOMAIN create'
      BY <1>1 DEF Send, IsRecord
    <2> QED BY <2>1, CreateNew
  <1>2. CASE Leave
    BY <1>2, GivenUp DEF Leave
  <1>3. ASSUME UNCHANGED <<create, saved>> PROVE CreateShape'
    BY <1>3 DEF CreateShape
  <1>4. CASE SendError
    BY <1>3, <1>4, GivenUp DEF SendError
  <1>5. CASE ReadCountries
    <2>1. CASE create.form.amount = Empty
      BY <1>5, <2>1, GivenUp DEF ReadCountries
    <2>2. CASE create.form.amount # Empty
      <3>1. /\ IsRecord(create', DOMAIN create') /\ {"pc", "form", "op"} \subseteq DOMAIN create'
            /\ create'.pc = "limits" /\ create'.op = Checkout
        BY <1>5, <2>2 DEF ReadCountries, IsRecord
      <3> QED BY <3>1 DEF CreateShape
    <2> QED BY <2>1, <2>2
  <1>6. CASE CreateLimits
    <2>1. create' = [create EXCEPT !.pc = "operator"] \/ create' = Refused
      BY <1>6 DEF CreateLimits
    <2>2. ASSUME create' = [create EXCEPT !.pc = "operator"] PROVE CreateShape'
      <3>1. /\ IsRecord(create', DOMAIN create') /\ DOMAIN create' = DOMAIN create
            /\ create'.pc = "operator" /\ create'.form = create.form /\ create'.op = create.op
        BY <1>6, <2>2 DEF CreateLimits, CreateShape, IsRecord
      <3> QED BY <1>6, <3>1 DEF CreateLimits, CreateShape
    <2> QED BY <2>1, <2>2, GivenUp
  <1>7. CASE ResolveOperator
    <2> DEFINE k == create.form.operator
               op == [code |-> k, paymentMethod |-> operators[k].paymentMethod]
    <2>1. /\ IsRecord(create, DOMAIN create) /\ {"pc", "form", "op"} \subseteq DOMAIN create
          /\ create.pc = "operator"
      BY <1>7 DEF ResolveOperator, CreateShape
    <2>2. CASE create' = Refused
      BY <2>2, GivenUp
    <2>3. CASE /\ Serves(k, create.form.recipient)
               /\ create' = [[create EXCEPT !.steady = create.seen = <<reseeded, TRUE>>] EXCEPT
                    !.pc = "rates", !.early = settings, !.op = op]
      <3> HIDE DEF op
      <3>1. /\ IsRecord(create', DOMAIN create') /\ DOMAIN create' = DOMAIN create
            /\ create'.pc = "rates" /\ create'.form = create.form /\ create'.op = op
        BY <2>1, <2>3 DEF IsRecord
      <3>2. op.code = k
        BY DEF op
      <3> QED BY <2>1, <2>3, <3>1, <3>2 DEF CreateShape, Serves
    <2>4. CASE create' = [[create EXCEPT !.steady = create.seen = <<reseeded, TRUE>>] EXCEPT
                 !.pc = "detected", !.country = detectByPhone(Phones[create.form.phone])]
      <3>1. /\ IsRecord(create', DOMAIN create') /\ DOMAIN create' = DOMAIN create
            /\ create'.pc = "detected" /\ create'.form = create.form /\ create'.op = create.op
        BY <2>1, <2>4 DEF IsRecord
      <3> QED BY <2>1, <3>1 DEF CreateShape
    <2>5. \/ create' = Refused
          \/ /\ Serves(k, create.form.recipient)
             /\ create' = [[create EXCEPT !.steady = create.seen = <<reseeded, TRUE>>] EXCEPT
                  !.pc = "rates", !.early = settings, !.op = op]
          \/ create' = [[create EXCEPT !.steady = create.seen = <<reseeded, TRUE>>] EXCEPT
               !.pc = "detected", !.country = detectByPhone(Phones[create.form.phone])]
      BY <1>7 DEF ResolveOperator
    <2> QED BY <2>2, <2>3, <2>4, <2>5
  <1>8. CASE DetectOperator
    <2> DEFINE found == UNION {getOperators(i) : i \in create.country}
               one == create.country = {create.form.recipient} /\ Cardinality(found) = 1
               k == CHOOSE x \in found : TRUE
               op == IF one THEN [code |-> k, paymentMethod |-> operators[k].paymentMethod]
                            ELSE Checkout
    <2>1. /\ IsRecord(create, DOMAIN create) /\ {"pc", "form", "op"} \subseteq DOMAIN create
          /\ create.pc = "detected"
      BY <1>8 DEF DetectOperator, CreateShape
    <2>2. one => k[2] = create.form.recipient
      <3> SUFFICES ASSUME one PROVE k[2] = create.form.recipient
        OBVIOUS
      <3>1. found # {}
        BY FS_EmptySet
      <3>2. k \in found
        BY <3>1
      <3>3. found = getOperators(create.form.recipient)
        OBVIOUS
      <3> QED BY <3>2, <3>3 DEF getOperators
    <2>3. op # Checkout => op.code[2] = create.form.recipient
      BY <2>2
    <2>4. create' = [create EXCEPT !.pc = "rates", !.early = settings,
                       !.steady = @ /\ create.seen = <<reseeded, TRUE>>, !.op = op]
      BY <1>8 DEF DetectOperator
    <2> HIDE DEF op
    <2>5. /\ IsRecord(create', DOMAIN create') /\ DOMAIN create' = DOMAIN create
          /\ create'.pc = "rates" /\ create'.form = create.form /\ create'.op = op
      BY <2>1, <2>4 DEF IsRecord
    <2> QED BY <2>1, <2>3, <2>5 DEF CreateShape
  <1>9. CASE CreateRates
    <2>1. /\ create'.pc = "call" /\ create'.form = create.form /\ create'.op = create.op
          /\ IsRecord(create', DOMAIN create') /\ {"pc", "form", "op"} \subseteq DOMAIN create'
      BY <1>9 DEF CreateRates, IsRecord
    <2> QED BY <1>9, <2>1 DEF CreateRates, CreateShape
  <1>10. CASE GatewayAccepts
    <2>1. /\ IsRecord(create', DOMAIN create') /\ DOMAIN create' = DOMAIN create
          /\ create'.pc \in {"exists", "answered"}
          /\ create'.form = create.form /\ create'.op = create.op
      BY <1>10 DEF GatewayAccepts, CreateShape, IsRecord
    <2> QED BY <1>10, <2>1 DEF GatewayAccepts, CreateShape
  <1>11. CASE FindBeneficiary
    <2>1. /\ IsRecord(create', DOMAIN create') /\ DOMAIN create' = DOMAIN create
          /\ create'.pc = (IF Exists(create.form.phone) THEN "answered" ELSE "save")
          /\ create'.form = create.form /\ create'.op = create.op /\ saved' = saved
      BY <1>11 DEF FindBeneficiary, OnlyCreate, CreateShape, IsRecord
    <2>2. create.form.phone \in Phone /\ ~ Exists(create.form.phone) =>
            saved[create.form.phone].sends = 0
      <3>1. \A p \in Phone : saved[p].sends \in Nat /\ saved[p].byHand \in Nat
        BY DEF TablesShape
      <3> QED BY <3>1 DEF Exists
    <2> QED BY <1>11, <2>1, <2>2 DEF FindBeneficiary, CreateShape
  <1>12. CASE SaveBeneficiary
    <2>1. /\ IsRecord(create', DOMAIN create') /\ DOMAIN create' = DOMAIN create
          /\ create'.pc = "answered" /\ create'.form = create.form /\ create'.op = create.op
      BY <1>12 DEF SaveBeneficiary, CreateShape, IsRecord
    <2> QED BY <1>12, <2>1 DEF SaveBeneficiary, CreateShape
  <1>13. CASE CreateFails \/ Orphaned
    BY <1>13, GivenUp DEF CreateFails, Orphaned
  <1>14. CASE Beneficiaries
    <2>1. create' = create
      BY <1>14 DEF Beneficiaries, AddBeneficiary, UpdateBeneficiary, RemoveBeneficiary
    <2>2. \A p \in Phone : saved[p].sends = 0 => saved'[p].sends = 0
      <3> SUFFICES ASSUME NEW p \in Phone, saved[p].sends = 0 PROVE saved'[p].sends = 0
        OBVIOUS
      <3>1. saved \in [Phone -> [sends : Nat, byHand : Nat]]
        BY DEF TablesShape
      <3>2. ASSUME NEW q \in Phone, AddBeneficiary(q) PROVE saved'[p].sends = 0
        BY <3>1, <3>2 DEF AddBeneficiary
      <3>3. ASSUME NEW q \in Phone, NEW who \in {"sends", "byHand"}, RemoveBeneficiary(q, who)
            PROVE  saved'[p].sends = 0
        BY <3>1, <3>3 DEF RemoveBeneficiary
      <3>4. ASSUME NEW q \in Phone, NEW who \in {"sends", "byHand"}, NEW to \in Phone,
                   UpdateBeneficiary(q, who, to)
            PROVE  saved'[p].sends = 0
        BY <3>1, <3>4 DEF UpdateBeneficiary
      <3> QED BY <1>14, <3>2, <3>3, <3>4 DEF Beneficiaries
    <2> QED BY <2>1, <2>2 DEF CreateShape
  <1>15. CASE Page \/ AskQuote \/ ShowQuote \/ ShowQuoteError \/ QuoteLimits \/ QuoteRates
    BY <1>1, <1>3, <1>15 DEF Page, Edit, Fill, AskQuote, ShowQuote, ShowQuoteError, QuoteLimits,
       QuoteRates
  <1>16. CASE UNCHANGED <<pageVars, create, saved>> \/ UNCHANGED vars
    BY <1>3, <1>16 DEF vars
  <1> QED BY <1>2, <1>4, <1>5, <1>6, <1>7, <1>8, <1>9, <1>10, <1>11, <1>12, <1>13, <1>14, <1>15,
         <1>16 DEF Next, Answers, Server

-----------------------------------------------------------------------------
(* The tables. *)

CountryOK(i) ==
  /\ IsRecord(countries[i], DOMAIN countries[i])
  /\ {"exists"} \subseteq DOMAIN countries[i] /\ countries[i].exists \in BOOLEAN
  /\ IF countries[i].exists
       THEN "isActive" \in DOMAIN countries[i] /\ countries[i].isActive = switched[i]
       ELSE switched[i] = TRUE

CountriesOK ==
  /\ switched \in [Iso2 -> BOOLEAN] /\ IsRecord(countries, Iso2)
  /\ \A i \in Iso2 : CountryOK(i)

SavedOK == saved \in [Phone -> [sends : Nat, byHand : Nat]] /\ SavedOnce
SettingsOK == settings \in [Keys -> Nat]

LEMMA TablesLemma == TablesShape <=> SavedOK /\ SettingsOK /\ CountriesOK
  BY DEF TablesShape, SavedOK, SettingsOK, CountriesOK, CountryOK, Keys

LEMMA TablesLemmaPrimed == TablesShape' <=> SavedOK' /\ SettingsOK' /\ CountriesOK'
  BY TablesLemma, PTL

(* Rows of beneficiaries come from a transfer or by hand. *)
LEMMA SavedStep ==
  ASSUME IInv, [Next]_vars
  PROVE  SavedOK'
  <1>1. SavedOK /\ CreateShape
    BY TablesLemma DEF IInv
  <1>2. ASSUME UNCHANGED saved PROVE SavedOK'
    BY <1>1, <1>2 DEF SavedOK, SavedOnce
  <1>3. CASE SaveBeneficiary
    <2> DEFINE p == create.form.phone
    <2>1. saved' = [saved EXCEPT ![p].sends = @ + 1]
      BY <1>3 DEF SaveBeneficiary
    <2>2. CASE p \in Phone
      <3>1. saved[p].sends = 0
        BY <1>1, <1>3, <2>2 DEF SaveBeneficiary, CreateShape
      <3> HIDE DEF p
      <3> QED BY <1>1, <2>1, <2>2, <3>1 DEF SavedOK, SavedOnce
    <2>3. CASE p \notin Phone
      <3> HIDE DEF p
      <3> QED BY <1>1, <1>2, <2>1, <2>3 DEF SavedOK
    <2> QED BY <2>2, <2>3
  <1>4. CASE Beneficiaries
    <2>1. ASSUME NEW q \in Phone, AddBeneficiary(q) PROVE SavedOK'
      BY <1>1, <2>1 DEF AddBeneficiary, SavedOK, SavedOnce
    <2>2. ASSUME NEW q \in Phone, NEW who \in {"sends", "byHand"}, RemoveBeneficiary(q, who)
          PROVE  SavedOK'
      BY <1>1, <2>2 DEF RemoveBeneficiary, SavedOK, SavedOnce
    <2>3. ASSUME NEW q \in Phone, NEW who \in {"sends", "byHand"}, NEW to \in Phone,
                 UpdateBeneficiary(q, who, to)
          PROVE  SavedOK'
      <3>1. /\ q # to /\ saved[q][who] \in Nat \ {0}
            /\ saved' = [[saved EXCEPT ![q] = [saved[q] EXCEPT ![who] = saved[q][who] - 1]] EXCEPT
                         ![to] = [saved[to] EXCEPT !.byHand = saved[to].byHand + 1]]
        <4>1. /\ q # to /\ saved[q][who] > 0
              /\ saved' = [saved EXCEPT ![q][who] = @ - 1, ![to].byHand = @ + 1]
          BY <2>3 DEF UpdateBeneficiary
        <4>2. saved[q][who] \in Nat
          BY <1>1 DEF SavedOK
        <4>3. saved' = [[saved EXCEPT ![q] = [saved[q] EXCEPT ![who] = saved[q][who] - 1]] EXCEPT
                        ![to] = [saved[to] EXCEPT !.byHand = saved[to].byHand + 1]]
          BY <1>1, <4>1 DEF SavedOK
        <4>4. saved[q][who] \in Nat \ {0}
          BY <4>1, <4>2
        <4> QED BY <4>1, <4>3, <4>4, Zenon
      <3>2. saved[q][who] - 1 \in Nat /\ saved[to].byHand + 1 \in Nat
        BY <1>1, <3>1 DEF SavedOK
      <3>3. /\ [saved[q] EXCEPT ![who] = saved[q][who] - 1] \in [sends : Nat, byHand : Nat]
            /\ [saved[q] EXCEPT ![who] = saved[q][who] - 1].sends <= saved[q].sends
        BY <1>1, <3>1, <3>2 DEF SavedOK
      <3>4. /\ [saved[to] EXCEPT !.byHand = saved[to].byHand + 1] \in [sends : Nat, byHand : Nat]
            /\ [saved[to] EXCEPT !.byHand = saved[to].byHand + 1].sends = saved[to].sends
        BY <1>1, <3>2 DEF SavedOK
      <3>5. saved' \in [Phone -> [sends : Nat, byHand : Nat]]
        BY <1>1, <3>1, <3>3, <3>4 DEF SavedOK
      <3>6. \A p \in Phone : saved'[p].sends <= saved[p].sends
        BY <1>1, <3>1, <3>3, <3>4 DEF SavedOK
      <3> QED BY <1>1, <3>5, <3>6 DEF SavedOK, SavedOnce
    <2> QED BY <1>4, <2>1, <2>2, <2>3 DEF Beneficiaries
  <1>5. CASE Server /\ ~ SaveBeneficiary
    BY <1>2, <1>5 DEF Server, QuoteLimits, QuoteRates, ReadCountries, CreateLimits,
       ResolveOperator, DetectOperator, CreateRates, GatewayAccepts, FindBeneficiary, CreateFails,
       Orphaned, OnlyCreate
  <1>6. CASE Page \/ AskQuote \/ Answers
    BY <1>2, <1>6 DEF Page, Edit, Fill, Send, AskQuote, Answers, ShowQuote, ShowQuoteError, Leave,
       SendError
  <1>7. CASE UNCHANGED <<pageVars, create, saved>> \/ UNCHANGED vars
    BY <1>2, <1>7 DEF vars
  <1> QED BY <1>3, <1>4, <1>5, <1>6, <1>7 DEF Next

(* The settings and the countries change in steps of the catalogue only. *)
LEMMA OthersKeep ==
  ASSUME Page \/ AskQuote \/ Answers \/ Server \/ Beneficiaries
  PROVE  UNCHANGED storeVars
  <1>1. CASE Page
    BY <1>1 DEF Page, Edit, Fill, Send, catVars
  <1>2. CASE AskQuote \/ Answers
    BY <1>2 DEF AskQuote, Answers, ShowQuote, ShowQuoteError, Leave, SendError, catVars
  <1>3. CASE Server
    BY <1>3 DEF Server, QuoteLimits, QuoteRates, ReadCountries, CreateLimits,
       ResolveOperator, DetectOperator, CreateRates, GatewayAccepts, FindBeneficiary,
       SaveBeneficiary, CreateFails, Orphaned, OnlyCreate, catVars
  <1>4. CASE Beneficiaries
    BY <1>4 DEF Beneficiaries, AddBeneficiary, UpdateBeneficiary, RemoveBeneficiary
  <1> QED BY <1>1, <1>2, <1>3, <1>4

LEMMA CatalogKept ==
  ASSUME Next, ~ CatNext
  PROVE  UNCHANGED storeVars
  BY OthersKeep DEF Next

LEMMA SettingsStep ==
  ASSUME IInv, [Next]_vars
  PROVE  SettingsOK'
  <1>1. SettingsOK
    BY TablesLemma DEF IInv
  <1>2. ASSUME UNCHANGED settings PROVE SettingsOK'
    BY <1>1, <1>2 DEF SettingsOK
  <1>3. CASE UpsertSetting
    <2>1. PICK u \in upserts :
            settings' = [settings EXCEPT ![SettingKeys[u.item]] = SETTINGS[SettingKeys[u.item]]]
      BY <1>3 DEF UpsertSetting
    <2> QED BY <1>1, <2>1, TypeLemma DEF SettingsOK
  <1>4. ASSUME NEW change \in Changes, updateSetting(change[1], change[2]) PROVE SettingsOK'
    <2>1. change[2] \in Nat
      BY ChangesAssumption
    <2>2. settings' = [settings EXCEPT ![change[1]] = change[2]]
      BY <1>4 DEF updateSetting
    <2> QED BY <1>1, <2>1, <2>2 DEF SettingsOK
  <1>5. CASE CatNext
    BY <1>2, <1>3, <1>4, <1>5 DEF CatNext, SyncStart, SeedStart, UpsertFails, UpsertCountry,
       UpsertOperator, setCountryActive
  <1>6. CASE ~ CatNext
    BY <1>2, <1>6, CatalogKept DEF storeVars, vars, catVars
  <1> QED BY <1>5, <1>6

LEMMA CountriesStep ==
  ASSUME IInv, [Next]_vars
  PROVE  CountriesOK'
  <1>1. CountriesOK
    BY TablesLemma DEF IInv
  <1>2. ASSUME UNCHANGED <<countries, switched>> PROVE CountriesOK'
    BY <1>1, <1>2 DEF CountriesOK, CountryOK
  <1>3. CASE UpsertCountry
    <2>1. PICK u \in upserts :
            /\ countries' = [countries EXCEPT ![RowOf(u).iso2] = CountryWritten(u, @)]
            /\ switched' = switched
      BY <1>3 DEF UpsertCountry
    <2>2. ASSUME NEW i \in Iso2 PROVE CountryOK(i)'
      <3>1. CASE i = RowOf(u).iso2
        <4>1. countries'[i] = CountryWritten(u, countries[i])
          BY <1>1, <2>1, <3>1 DEF CountriesOK, IsRecord
        <4>2. /\ IsRecord(countries'[i], DOMAIN countries'[i])
              /\ {"exists", "isActive"} \subseteq DOMAIN countries'[i]
              /\ countries'[i].exists = TRUE
              /\ countries'[i].isActive = IF countries[i].exists THEN countries[i].isActive ELSE TRUE
          BY <4>1 DEF CountryWritten, IsRecord
        <4> QED BY <1>1, <2>1, <4>2 DEF CountriesOK, CountryOK
      <3>2. CASE i # RowOf(u).iso2
        <4>1. countries'[i] = countries[i]
          BY <1>1, <2>1, <3>2 DEF CountriesOK, IsRecord
        <4> QED BY <1>1, <2>1, <4>1 DEF CountriesOK, CountryOK
      <3> QED BY <3>1, <3>2
    <2> QED BY <1>1, <2>1, <2>2 DEF CountriesOK, IsRecord
  <1>4. ASSUME NEW i \in Iso2, NEW isActive \in BOOLEAN, setCountryActive(i, isActive)
        PROVE  CountriesOK'
    <2>1. /\ countries' = [countries EXCEPT ![i].isActive = isActive]
          /\ switched' = [switched EXCEPT ![i] = isActive]
          /\ countries[i].exists
      BY <1>4 DEF setCountryActive
    <2>2. ASSUME NEW j \in Iso2 PROVE CountryOK(j)'
      <3>1. CASE j = i
        <4>1. countries'[j] = [countries[j] EXCEPT !.isActive = isActive]
          BY <1>1, <2>1, <3>1 DEF CountriesOK, IsRecord
        <4>2. IsRecord(countries[j], DOMAIN countries[j])
              /\ {"exists", "isActive"} \subseteq DOMAIN countries[j]
          BY <1>1, <2>1, <3>1 DEF CountriesOK, CountryOK
        <4>3. /\ IsRecord(countries'[j], DOMAIN countries'[j])
              /\ {"exists", "isActive"} \subseteq DOMAIN countries'[j]
              /\ countries'[j].exists = countries[j].exists
              /\ countries'[j].isActive = isActive
          BY <4>1, <4>2 DEF IsRecord
        <4>4. switched'[j] = isActive
          BY <1>1, <2>1, <3>1 DEF CountriesOK
        <4> QED BY <1>1, <2>1, <3>1, <4>3, <4>4 DEF CountriesOK, CountryOK
      <3>2. CASE j # i
        <4>1. countries'[j] = countries[j] /\ switched'[j] = switched[j]
          BY <1>1, <2>1, <3>2 DEF CountriesOK, IsRecord
        <4> QED BY <1>1, <4>1 DEF CountriesOK, CountryOK
      <3> QED BY <3>1, <3>2
    <2> QED BY <1>1, <2>1, <2>2 DEF CountriesOK, IsRecord
  <1>5. CASE CatNext
    BY <1>2, <1>3, <1>4, <1>5 DEF CatNext, SyncStart, SeedStart, UpsertFails, UpsertSetting,
       UpsertOperator, updateSetting
  <1>6. CASE ~ CatNext
    BY <1>2, <1>6, CatalogKept DEF storeVars, vars, catVars
  <1> QED BY <1>5, <1>6

-----------------------------------------------------------------------------
(* Whatever the constants, the tables, the page and the request under way   *)
(* keep to what IInv says of them (page.tsx, transactions.service.ts,       *)
(* operators.service.ts, seed.ts).                                          *)
THEOREM SendingInvariant == Spec => []IInv
  <1>1. IInv /\ [Next]_vars => IInv'
    <2> SUFFICES ASSUME IInv, [Next]_vars PROVE IInv'
      OBVIOUS
    <2>1. TablesShape'
      BY SavedStep, SettingsStep, CountriesStep, TablesLemmaPrimed
    <2> QED BY <2>1, PageStep, CreateStep DEF IInv
  <1> QED BY <1>1, InitLemma, PTL DEF Spec

(* Nothing pending, no error: the quote on the page is about its fields,    *)
(* whichever answers came late (page.tsx, lines 27 to 43).                  *)
THEOREM QuietQuoteTheorem == Spec => []QuietQuoteIsCurrent
  <1>1. IInv => QuietQuoteIsCurrent
    BY DEF IInv, QuietQuoteIsCurrent, QuoteIsOfForm, Quiet
  <1> QED BY <1>1, SendingInvariant, PTL

(* The operator paid out through serves the recipient's country, asked for  *)
(* or found by the number (resolveOperator).                                *)
THEOREM OperatorTheorem == Spec => []OperatorServesRecipient
  <1>1. IInv => OperatorServesRecipient
    BY DEF IInv, OperatorServesRecipient, CreateShape, InGateway
  <1> QED BY <1>1, SendingInvariant, PTL

(* However often a number is sent to, transfers save it once                *)
(* (saveBeneficiary).                                                       *)
THEOREM SavedOnceTheorem == Spec => []SavedOnce
  <1>1. IInv => SavedOnce
    BY DEF IInv, TablesShape
  <1> QED BY <1>1, SendingInvariant, PTL

(* No seed and no synchronisation switches a country on or off.             *)
THEOREM ActivityTheorem == Spec => []ActivityIsAdmins
  <1>1. IInv => ActivityIsAdmins
    BY DEF IInv, TablesShape, ActivityIsAdmins
  <1> QED BY <1>1, SendingInvariant, PTL

(* The rate between two currencies is a positive fraction. *)
LEMMA RateLemma ==
  ASSUME NEW from, NEW to
  PROVE  estimateFxRate(from, to).num \in Nat /\ estimateFxRate(from, to).den \in Nat \ {0}
  <1>1. \A c \in Currency : RATES_TO_XOF[c] \in Nat \ {0}
    BY DEF RATES_TO_XOF, Currency
  <1> QED BY <1>1 DEF estimateFxRate

LEMMA RoundNat ==
  ASSUME NEW num \in Nat, NEW den \in Nat \ {0}, NEW decimals
  PROVE  roundTo(num, den, decimals) \in Nat
  BY RoundingTheorem, Zenon

(* Half a unit at most, as a range of integers. *)
LEMMA NearLemma ==
  ASSUME NEW num \in Nat, NEW den \in Nat \ {0}, NEW currency
  PROVE  Near(roundTo(num, den, decimalsFor(currency)), num, den, currency)
  <1> DEFINE decimals == decimalsFor(currency)
             x == 2 * den * roundTo(num, den, decimals)
             u == den * UnitOf(decimals)
  <1>1. x \in Nat /\ u \in Nat
    <2>1. roundTo(num, den, decimals) \in Nat
      BY RoundNat
    <2>2. UnitOf(decimals) \in Nat
      BY UnitLemma
    <2> QED BY <2>1, <2>2
  <1>2. x <= 2 * num + u /\ 2 * num < x + u
    BY RoundingTheorem
  <1> HIDE DEF x, u
  <1>3. x - 2 * num \in -u .. u
    BY <1>1, <1>2
  <1> QED BY <1>3 DEF x, u, Near

(* For every amount, country and setting, each part shown is within half a  *)
(* unit of what the rates say and the total is their exact sum              *)
(* (calculateTransferFees).                                                 *)
THEOREM FeesTheorem == Spec => []FeesAreRounded
  <1>1. ASSUME IInv PROVE FeesAreRounded
    <2> SUFFICES ASSUME form.amount # Empty PROVE FeesAreRounded
      BY DEF FeesAreRounded
    <2> DEFINE from == countries[Sender].currency
               to == countries[form.recipient].currency
               d == decimalsFor(from)
               all == calculateTransferFees(form.amount, from, to, settings)
               parts == all.parts
               fx == estimateFxRate(from, to)
    <2>1. form.amount \in Nat
      BY <1>1, AmountsAssumption DEF IInv, PageShape, Form
    <2>2. settings.percent \in Nat /\ settings.fixed \in Nat /\ settings.feeEstimate \in Nat
      BY <1>1 DEF IInv, TablesShape
    <2> HIDE DEF from, to
    <2>3. all.total = parts.send + parts.commission + parts.fees
      BY <2>1, <2>2, TotalTheorem
    <2>4. /\ parts.send = roundTo(form.amount, 1, d)
          /\ parts.commission =
               roundTo(settings.percent * parts.send + 1000 * settings.fixed, 1000, d)
          /\ parts.fees = roundTo(settings.feeEstimate * parts.send, 1000, d)
          /\ all.receive = roundTo(parts.send * fx.num, fx.den, decimalsFor(to))
      BY DEF calculateTransferFees, Parts
    <2>5. fx.num \in Nat /\ fx.den \in Nat \ {0}
      BY RateLemma
    <2> HIDE DEF d, all, fx
    <2>6. parts.send \in Nat
      <3>1. roundTo(form.amount, 1, d) \in Nat
        BY <2>1, RoundNat
      <3> QED BY <2>4, <3>1
    <2> HIDE DEF parts
    <2>7. /\ settings.percent * parts.send + 1000 * settings.fixed \in Nat
          /\ settings.feeEstimate * parts.send \in Nat /\ parts.send * fx.num \in Nat
      BY <2>2, <2>5, <2>6
    <2>8. Near(parts.send, form.amount, 1, from)
      BY <2>1, <2>4, NearLemma DEF d
    <2>9. Near(parts.commission, settings.percent * parts.send + 1000 * settings.fixed, 1000, from)
      BY <2>4, <2>7, NearLemma DEF d
    <2>10. Near(parts.fees, settings.feeEstimate * parts.send, 1000, from)
      BY <2>4, <2>7, NearLemma DEF d
    <2>11. Near(all.receive, parts.send * fx.num, fx.den, to)
      BY <2>4, <2>5, <2>7, NearLemma
    <2> QED BY <2>3, <2>8, <2>9, <2>10, <2>11, ZenonT(90) DEF FeesAreRounded, from, to, all, parts, fx
  <1> QED BY <1>1, SendingInvariant, PTL

-----------------------------------------------------------------------------
(* What the sender is charged. *)

(* The total of now: it does not depend on the recipient's currency. *)
Total(amount) == FeesOf(amount, Sender, settings).total

(* What was so when the settings had been written since times is still so,  *)
(* unless a setting was written afterwards.                                 *)
StillSo(since, fact) == since \in 0..changes /\ (since = changes => fact)

Begun == {"countries", "limits", "operator", "detected", "rates"}

QuoteTells ==
  /\ quoting.pc \in {"limits", "rates"} => StillSo(quoting.since, quoting.early = settings)
  /\ quoting.pc = "answered" => StillSo(quoting.since, quoting.total = Total(quoting.amount))
  /\ page.shown # NotShown => StillSo(page.shown.since, page.shown.total = Total(page.shown.amount))

CreateTells ==
  /\ create.pc \in Begun =>
       /\ {"form", "expected", "since"} \subseteq DOMAIN create
       /\ StillSo(create.since, create.expected # -1 /\ create.form.amount # Empty =>
                                  create.expected = Total(create.form.amount))
  /\ create.pc \in Begun \ {"countries"} => create.form.amount # Empty /\ "early" \in DOMAIN create
  /\ create.pc = "rates" => StillSo(create.since, create.early = settings)
  /\ InGateway => {"request", "expected", "undisturbed"} \subseteq DOMAIN create /\ ChargedAsShown

Charging == changes \in Nat /\ QuoteTells /\ CreateTells

LEMMA NothingBegun ==
  /\ NoCreate.pc = "idle" /\ Refused.pc = "refused" /\ NoQuote.pc = "idle"
  /\ NewPage.shown = NotShown
  BY DEF NoCreate, Refused, NoQuote, NewPage

(* Reads of settings that stood still yield them. *)
LEMMA ReadsLemma ==
  ASSUME NEW got, NEW recipient, NEW amount, NEW early, got \in Reads(Rates, early),
         early = settings
  PROVE  FeesOf(amount, recipient, got).total = Total(amount)
  <1>1. /\ got.percent = settings.percent /\ got.fixed = settings.fixed
        /\ got.feeEstimate = settings.feeEstimate
    BY DEF Reads, Rates
  <1> QED BY <1>1 DEF FeesOf, Total, calculateTransferFees, Parts

(* A setting that is written is counted, and the rest goes on as it was.    *)
LEMMA SettingsCounted ==
  ASSUME SettingsOK, changes \in Nat, [Next]_vars
  PROVE  \/ UNCHANGED <<settings, changes>>
         \/ changes' = changes + 1 /\ UNCHANGED <<pageVars, create>>
  <1>1. CASE CatNext /\ UNCHANGED <<pageVars, create, saved>>
    <2>1. CASE UpsertSetting
      <3>1. PICK u \in upserts : LET key == SettingKeys[u.item] IN
              /\ settings' = [settings EXCEPT ![key] = SETTINGS[key]]
              /\ changes' = IF settings[key] = SETTINGS[key] THEN changes ELSE changes + 1
        BY <2>1 DEF UpsertSetting
      <3> DEFINE key == SettingKeys[u.item]
      <3>2. settings[key] = SETTINGS[key] => settings' = settings
        BY <3>1 DEF SettingsOK
      <3> QED BY <1>1, <3>1, <3>2
    <2>2. ASSUME NEW change \in Changes, updateSetting(change[1], change[2])
          PROVE  changes' = changes + 1
      BY <2>2 DEF updateSetting
    <2>3. CASE SyncStart \/ SeedStart \/ UpsertFails \/ UpsertCountry \/ UpsertOperator
               \/ \E i \in Iso2, isActive \in BOOLEAN : setCountryActive(i, isActive)
      BY <2>3 DEF SyncStart, SeedStart, UpsertFails, UpsertCountry, UpsertOperator,
         setCountryActive
    <2> QED BY <1>1, <2>1, <2>2, <2>3 DEF CatNext
  <1>2. CASE Page \/ AskQuote \/ Answers \/ Server \/ Beneficiaries
    BY <1>2, OthersKeep DEF storeVars
  <1>3. CASE UNCHANGED vars
    BY <1>3 DEF vars, catVars, storeVars
  <1> QED BY <1>1, <1>2, <1>3 DEF Next

(* The same settings, the same currency of the sender. *)
Steady == UNCHANGED <<settings, changes>> /\ countries'[Sender].currency = countries[Sender].currency

LEMMA SteadyLemma ==
  ASSUME Steady
  PROVE  \A amount : Total(amount)' = Total(amount)
  BY DEF Steady, Total, FeesOf, calculateTransferFees

LEMMA QuoteTellsStep ==
  ASSUME IInv, Charging, Next, Steady
  PROVE  QuoteTells'
  <1> USE DEF IInv, Charging, Steady, StillSo
  <1>1. \A amount : Total(amount)' = Total(amount)
    BY SteadyLemma
  <1>2. changes \in Nat /\ changes' = changes /\ settings' = settings
    OBVIOUS
  <1>3. ASSUME UNCHANGED quoting, page'.shown \in {page.shown, NotShown} PROVE QuoteTells'
    BY <1>1, <1>2, <1>3 DEF QuoteTells
  <1>4. ASSUME UNCHANGED page, quoting'.pc \in {"idle", "refused"} PROVE QuoteTells'
    BY <1>1, <1>2, <1>4 DEF QuoteTells
  <1>5. ASSUME NEW recipient \in Recipients, NEW amount \in Amounts \cup {Empty},
               Edit(recipient, amount)
        PROVE  QuoteTells'
    <2>1. page'.shown \in {page.shown, NotShown}
      BY <1>5 DEF Edit, Effect, PageShape, IsRecord
    <2> QED BY <1>3, <1>5, <2>1 DEF Edit
  <1>6. CASE Send \/ SendError
    <2>1. page'.shown = page.shown /\ quoting' = quoting
      BY <1>6 DEF Send, SendError, PageShape, IsRecord
    <2> QED BY <1>3, <2>1
  <1>7. CASE AskQuote
    <2>1. page'.shown = page.shown
      BY <1>7 DEF AskQuote, PageShape, IsRecord
    <2>2. quoting'.pc = "limits" /\ quoting'.early = settings /\ quoting'.since = changes
      BY <1>7 DEF AskQuote
    <2> QED BY <1>1, <1>2, <2>1, <2>2 DEF QuoteTells
  <1>8. CASE ShowQuote
    <2>1. page'.shown = [recipient |-> quoting.recipient, amount |-> quoting.amount,
                         total |-> quoting.total, since |-> quoting.since]
      BY <1>8 DEF ShowQuote, PageShape, IsRecord
    <2>2. /\ page'.shown.amount = quoting.amount /\ page'.shown.total = quoting.total
          /\ page'.shown.since = quoting.since
      BY <2>1
    <2>3. StillSo(quoting.since, quoting.total = Total(quoting.amount)) /\ quoting'.pc = "idle"
      BY <1>8, NothingBegun DEF ShowQuote, QuoteTells
    <2> QED BY <1>1, <1>2, <2>2, <2>3 DEF QuoteTells
  <1>9. CASE ShowQuoteError
    <2>1. page'.shown = page.shown /\ quoting'.pc = "idle"
      BY <1>9, NothingBegun DEF ShowQuoteError, PageShape, IsRecord
    <2> QED BY <1>1, <1>2, <2>1 DEF QuoteTells
  <1>10. CASE Leave
    BY <1>2, <1>10, NothingBegun DEF Leave, QuoteTells
  <1>11. CASE QuoteLimits
    <2>1. page' = page
      BY <1>11 DEF QuoteLimits
    <2>2. CASE quoting' = [pc |-> "refused"]
      BY <1>4, <2>1, <2>2
    <2>3. CASE quoting' = [quoting EXCEPT !.pc = "rates", !.early = settings]
      <3>1. quoting'.pc = "rates" /\ quoting'.early = settings /\ quoting'.since = quoting.since
        BY <1>11, <2>3 DEF QuoteLimits, PageShape, IsRecord
      <3>2. quoting.since \in 0..changes
        BY <1>11 DEF QuoteLimits, QuoteTells
      <3> QED BY <1>1, <1>2, <2>1, <3>1, <3>2 DEF QuoteTells
    <2> QED BY <1>11, <2>2, <2>3 DEF QuoteLimits
  <1>12. CASE QuoteRates
    <2>1. PICK got \in Reads(Rates, quoting.early) :
            quoting' = [pc |-> "answered", recipient |-> quoting.recipient, amount |-> quoting.amount,
                        total |-> FeesOf(quoting.amount, quoting.recipient, got).total,
                        since |-> quoting.since]
      BY <1>12 DEF QuoteRates
    <2>2. StillSo(quoting.since, quoting.early = settings) /\ page' = page
      BY <1>12 DEF QuoteRates, QuoteTells
    <2>3. quoting.since = changes =>
            FeesOf(quoting.amount, quoting.recipient, got).total = Total(quoting.amount)
      BY <2>2, ReadsLemma
    <2>4. /\ quoting'.pc = "answered" /\ quoting'.amount = quoting.amount
          /\ quoting'.since = quoting.since
          /\ quoting'.total = FeesOf(quoting.amount, quoting.recipient, got).total
      BY <2>1
    <2>5. page.shown # NotShown => StillSo(page.shown.since, page.shown.total = Total(page.shown.amount))
      BY DEF QuoteTells
    <2> QED BY <1>1, <1>2, <2>2, <2>3, <2>4, <2>5 DEF QuoteTells
  <1>13. CASE UNCHANGED pageVars
    BY <1>3, <1>13 DEF pageVars
  <1>14. CASE Server
    BY <1>11, <1>12, <1>13, <1>14 DEF Server, ReadCountries, CreateLimits, ResolveOperator,
       DetectOperator, CreateRates, GatewayAccepts, FindBeneficiary, SaveBeneficiary, CreateFails,
       Orphaned, OnlyCreate
  <1>15. CASE Beneficiaries
    BY <1>13, <1>15 DEF Beneficiaries, AddBeneficiary, UpdateBeneficiary, RemoveBeneficiary
  <1>16. ASSUME NEW phone \in Phone, NEW operator \in Codes \cup {NoOperator}, Fill(phone, operator)
         PROVE  QuoteTells'
    BY <1>3, <1>16 DEF Fill
  <1> QED BY <1>5, <1>6, <1>7, <1>8, <1>9, <1>10, <1>13, <1>14, <1>15, <1>16
         DEF Next, Page, Answers

LEMMA CreateTellsStep ==
  ASSUME IInv, Charging, Next, Steady
  PROVE  CreateTells'
  <1> USE DEF IInv, Charging, Steady, StillSo
  <1>1. \A amount : Total(amount)' = Total(amount)
    BY SteadyLemma
  <1>2. changes \in Nat /\ changes' = changes /\ settings' = settings
    OBVIOUS
  <1>3. ASSUME create'.pc \in {"idle", "refused"} PROVE CreateTells'
    BY <1>3 DEF CreateTells, Begun, InGateway
  <1>4. ASSUME UNCHANGED create PROVE CreateTells'
    BY <1>1, <1>2, <1>4 DEF CreateTells, Begun, InGateway, ChargedAsShown
  <1>5. CASE Send
    <2>1. /\ create' = [pc |-> "countries", form |-> form,
                        expected |-> IF Quiet THEN page.shown.total ELSE -1,
                        since |-> page.shown.since]
          /\ page.shown # NotShown /\ ~ page.sending
      BY <1>5 DEF Send, canSubmit
    <2>2. /\ create'.pc = "countries" /\ create'.form = form
          /\ {"form", "expected", "since"} \subseteq DOMAIN create'
          /\ create'.since = page.shown.since
          /\ create'.expected # -1 => Quiet /\ create'.expected = page.shown.total
      BY <2>1
    <2>3. Quiet /\ form.amount # Empty => page.shown.amount = form.amount
      BY <2>1 DEF QuoteIsOfForm, Quiet
    <2>4. StillSo(page.shown.since, page.shown.total = Total(page.shown.amount))
      BY <2>1 DEF QuoteTells
    <2> QED BY <1>1, <1>2, <2>2, <2>3, <2>4 DEF CreateTells, Begun, InGateway
  <1>6. CASE Leave
    BY <1>3, <1>6, NothingBegun DEF Leave
  <1>7. CASE SendError
    BY <1>3, <1>4, <1>7, NothingBegun DEF SendError
  <1>8. CASE ReadCountries
    <2>1. CASE create.form.amount = Empty
      BY <1>3, <1>8, <2>1, NothingBegun DEF ReadCountries
    <2>2. CASE create.form.amount # Empty
      <3>1. /\ {"form", "expected", "since", "early"} \subseteq DOMAIN create'
            /\ create'.pc = "limits" /\ create'.form = create.form
            /\ create'.expected = create.expected /\ create'.since = create.since
        BY <1>8, <2>2 DEF ReadCountries
      <3> QED BY <1>1, <1>2, <1>8, <2>2, <3>1 DEF ReadCountries, CreateTells, Begun, InGateway
    <2> QED BY <2>1, <2>2
  <1>9. ASSUME create.pc \in Begun \ {"countries"}, create'.pc \in Begun \ {"countries"},
               {"form", "expected", "since", "early"} \subseteq DOMAIN create',
               create'.form = create.form, create'.expected = create.expected,
               create'.since = create.since,
               create'.pc = "rates" => create'.early = settings
        PROVE  CreateTells'
    BY <1>1, <1>2, <1>9 DEF CreateTells, Begun, InGateway
  <1>10. CASE CreateLimits
    <2>1. CASE create' = Refused
      BY <1>3, <2>1, NothingBegun
    <2>2. CASE create' = [create EXCEPT !.pc = "operator"]
      <3>1. /\ create.pc = "limits" /\ IsRecord(create, DOMAIN create)
            /\ {"pc", "form", "expected", "since", "early"} \subseteq DOMAIN create
        BY <1>10 DEF CreateLimits, CreateShape, CreateTells, Begun
      <3>2. /\ DOMAIN create' = DOMAIN create /\ create'.pc = "operator"
            /\ create'.form = create.form /\ create'.expected = create.expected
            /\ create'.since = create.since
        BY <2>2, <3>1 DEF IsRecord
      <3> QED BY <1>9, <3>1, <3>2 DEF Begun
    <2> QED BY <1>10, <2>1, <2>2 DEF CreateLimits
  <1>11. CASE ResolveOperator
    <2> DEFINE k == create.form.operator
               op == [code |-> k, paymentMethod |-> operators[k].paymentMethod]
               resolved == [create EXCEPT !.steady = create.seen = <<reseeded, TRUE>>]
    <2>1. /\ IsRecord(create, DOMAIN create) /\ create.pc = "operator"
          /\ {"pc", "form", "expected", "since", "early"} \subseteq DOMAIN create
      BY <1>11 DEF ResolveOperator, CreateShape, CreateTells, Begun
    <2>2. CASE create' = Refused
      BY <1>3, <2>2, NothingBegun
    <2>3. CASE create' = [resolved EXCEPT !.pc = "rates", !.early = settings, !.op = op]
      <3> HIDE DEF op
      <3>1. /\ DOMAIN create' = DOMAIN create /\ create'.pc = "rates" /\ create'.early = settings
            /\ create'.form = create.form /\ create'.expected = create.expected
            /\ create'.since = create.since
        BY <2>1, <2>3 DEF IsRecord
      <3> QED BY <1>9, <2>1, <3>1 DEF Begun
    <2>4. CASE create' = [resolved EXCEPT
                 !.pc = "detected", !.country = detectByPhone(Phones[create.form.phone])]
      <3>1. /\ DOMAIN create' = DOMAIN create /\ create'.pc = "detected"
            /\ create'.form = create.form /\ create'.expected = create.expected
            /\ create'.since = create.since
        BY <2>1, <2>4 DEF IsRecord
      <3> QED BY <1>9, <2>1, <3>1 DEF Begun
    <2>5. \/ create' = Refused
          \/ create' = [resolved EXCEPT !.pc = "rates", !.early = settings, !.op = op]
          \/ create' = [resolved EXCEPT
               !.pc = "detected", !.country = detectByPhone(Phones[create.form.phone])]
      BY <1>11 DEF ResolveOperator
    <2> QED BY <2>2, <2>3, <2>4, <2>5
  <1>12. CASE DetectOperator
    <2>1. /\ IsRecord(create, DOMAIN create) /\ create.pc = "detected"
          /\ {"pc", "form", "expected", "since", "early"} \subseteq DOMAIN create
      BY <1>12 DEF DetectOperator, CreateShape, CreateTells, Begun
    <2>2. \E op : create' = [create EXCEPT !.pc = "rates", !.early = settings,
                               !.steady = @ /\ create.seen = <<reseeded, TRUE>>, !.op = op]
      BY <1>12 DEF DetectOperator
    <2>3. /\ DOMAIN create' = DOMAIN create /\ create'.pc = "rates" /\ create'.early = settings
          /\ create'.form = create.form /\ create'.expected = create.expected
          /\ create'.since = create.since
      BY <2>1, <2>2 DEF IsRecord
    <2> QED BY <1>9, <2>1, <2>3 DEF Begun
  <1>13. CASE CreateRates
    <2>1. PICK got \in Reads(Rates, create.early) :
            LET total == FeesOf(create.form.amount, create.form.recipient, got).total IN
            create' = [pc |-> "call", form |-> create.form, op |-> create.op,
                       expected |-> create.expected, steady |-> create.steady,
                       undisturbed |-> create.since = changes,
                       request |-> buildPaymentRequest(total, create)]
      BY <1>13 DEF CreateRates
    <2> DEFINE total == FeesOf(create.form.amount, create.form.recipient, got).total
    <2>2. /\ {"request", "expected", "undisturbed"} \subseteq DOMAIN create'
          /\ create'.pc = "call" /\ create'.expected = create.expected
          /\ create'.undisturbed = (create.since = changes)
          /\ create'.request.amount = total
      BY <2>1 DEF buildPaymentRequest
    <2>3. /\ create.since = changes => create.early = settings
          /\ create.form.amount # Empty
          /\ create.since = changes /\ create.expected # -1 =>
               create.expected = Total(create.form.amount)
      BY <1>13 DEF CreateRates, CreateTells, Begun
    <2>4. create.since = changes => total = Total(create.form.amount)
      BY <2>3, ReadsLemma
    <2> QED BY <2>2, <2>3, <2>4 DEF CreateTells, Begun, InGateway, ChargedAsShown
  <1>14. ASSUME InGateway, create'.pc \in {"exists", "save", "answered"},
                create' = [create EXCEPT !.pc = create'.pc]
         PROVE  CreateTells'
    <2>1. /\ IsRecord(create, DOMAIN create)
          /\ {"pc", "request", "expected", "undisturbed"} \subseteq DOMAIN create /\ ChargedAsShown
      BY <1>14 DEF CreateShape, CreateTells
    <2>2. /\ DOMAIN create' = DOMAIN create /\ create'.request = create.request
          /\ create'.expected = create.expected /\ create'.undisturbed = create.undisturbed
      BY <1>14, <2>1 DEF IsRecord
    <2> QED BY <1>14, <2>1, <2>2 DEF CreateTells, Begun, InGateway, ChargedAsShown
  <1>15. CASE GatewayAccepts \/ FindBeneficiary \/ SaveBeneficiary
    <2>1. IsRecord(create, DOMAIN create) /\ "pc" \in DOMAIN create /\ InGateway
      BY <1>15 DEF GatewayAccepts, FindBeneficiary, SaveBeneficiary, CreateShape, InGateway
    <2>2. \E pc \in {"exists", "save", "answered"} : create' = [create EXCEPT !.pc = pc]
      BY <1>15 DEF GatewayAccepts, FindBeneficiary, SaveBeneficiary
    <2>3. PICK pc \in {"exists", "save", "answered"} : create' = [create EXCEPT !.pc = pc]
      BY <2>2
    <2>4. create'.pc = pc
      BY <2>1, <2>3 DEF IsRecord
    <2> QED BY <1>14, <2>1, <2>3, <2>4
  <1>16. CASE CreateFails \/ Orphaned
    BY <1>3, <1>16, NothingBegun DEF CreateFails, Orphaned
  <1>17. CASE AskQuote \/ ShowQuote \/ ShowQuoteError \/ QuoteLimits \/ QuoteRates
              \/ \E p \in Phone, operator \in Codes \cup {NoOperator} : Fill(p, operator)
    BY <1>4, <1>17 DEF AskQuote, ShowQuote, ShowQuoteError, QuoteLimits, QuoteRates, Fill
  <1>18. CASE \E recipient \in Recipients, amount \in Amounts \cup {Empty} : Edit(recipient, amount)
    BY <1>4, <1>18 DEF Edit
  <1>19. CASE Beneficiaries
    BY <1>4, <1>19 DEF Beneficiaries, AddBeneficiary, UpdateBeneficiary, RemoveBeneficiary
  <1>20. CASE Page
    BY <1>5, <1>17, <1>18, <1>20 DEF Page
  <1>21. CASE Answers
    BY <1>6, <1>7, <1>17, <1>21 DEF Answers
  <1>22. CASE Server
    BY <1>8, <1>10, <1>11, <1>12, <1>13, <1>15, <1>16, <1>17, <1>22 DEF Server
  <1> QED BY <1>4, <1>17, <1>19, <1>20, <1>21, <1>22 DEF Next

(* Written settings make what was so a thing of the past. *)
LEMMA ChargingStep ==
  ASSUME IInv, Charging, [Next]_vars, countries'[Sender].currency = countries[Sender].currency
  PROVE  Charging'
  <1>1. SettingsOK /\ changes \in Nat
    BY TablesLemma DEF IInv, Charging
  <1>2. CASE UNCHANGED <<settings, changes>> /\ Next
    BY <1>1, <1>2, QuoteTellsStep, CreateTellsStep DEF Steady, Charging
  <1>3. CASE UNCHANGED vars
    <2>1. /\ \A amount : Total(amount)' = Total(amount)
          /\ UNCHANGED <<page, quoting, create, settings, changes>>
      BY <1>3, SteadyLemma DEF Steady, vars, pageVars, catVars, storeVars
    <2> QED BY <2>1 DEF Charging, QuoteTells, CreateTells, StillSo, InGateway, ChargedAsShown
  <1>4. CASE changes' = changes + 1 /\ UNCHANGED <<pageVars, create>>
    <2>1. \A since \in 0..changes : since \in 0..changes' /\ since # changes'
      BY <1>1, <1>4
    <2> QED BY <1>1, <1>4, <2>1
        DEF Charging, QuoteTells, CreateTells, StillSo, InGateway, ChargedAsShown, pageVars
  <1> QED BY <1>1, <1>2, <1>3, <1>4, SettingsCounted

(* What GeniusPay is asked for is the total the quiet page showed when the  *)
(* sender sent, if no setting was written in between: quote and create read *)
(* the settings one by one, and nothing else.  A synchronisation that gives *)
(* the sender's country another currency changes the rounding of the fees;  *)
(* hence the hypothesis (page.tsx, transactions.service.ts, quote, create). *)
THEOREM ChargedTheorem ==
  Spec /\ [][countries'[Sender].currency = countries[Sender].currency]_vars => []ChargedAsShown
  <1>1. Init => Charging
    <2> SUFFICES ASSUME Init PROVE Charging
      OBVIOUS
    <2>1. changes = 0 /\ quoting.pc = "idle" /\ create.pc = "idle" /\ page.shown = NotShown
      BY NothingBegun DEF Init, CatInit
    <2> QED BY <2>1 DEF Charging, QuoteTells, CreateTells, Begun, InGateway
  <1>2. ASSUME IInv, Charging, [Next]_vars,
               [countries'[Sender].currency = countries[Sender].currency]_vars
        PROVE  Charging'
    <2>1. countries'[Sender].currency = countries[Sender].currency
      BY <1>2 DEF vars, catVars, storeVars
    <2> QED BY <1>2, <2>1, ChargingStep
  <1>3. Charging => ChargedAsShown
    BY DEF Charging, CreateTells, ChargedAsShown
  <1> QED BY <1>1, <1>2, <1>3, SendingInvariant, PTL DEF Spec

-----------------------------------------------------------------------------
(* What PawaPay is told. *)

Supports(i) == countries[i].exists /\ countries[i].supportsPawapay

(* What is still to write comes from one job at a time.                     *)
UpsertsKnown ==
  /\ reseeded \in {"never synced", "synced", "reseeded"}
  /\ upserts \subseteq SeedUpserts \cup SettingUpserts \cup SyncUpserts
  /\ reseeded = "never synced" => upserts \subseteq SeedUpserts \cup SettingUpserts
  /\ reseeded = "synced" => upserts \subseteq SyncUpserts

RowsWhole ==
  /\ IsRecord(operators, Codes)
  /\ \A i \in Iso2 : countries[i].exists =>
       {"currency", "supportsPawapay", "isActive"} \subseteq DOMAIN countries[i]

(* Until the first synchronisation the rows say what the seed says.         *)
SeededRows ==
  reseeded = "never synced" =>
    \A u \in SeedUpserts : u.item = 0 =>
      /\ countries[RowOf(u).iso2].exists
      /\ countries[RowOf(u).iso2].supportsPawapay = RowOf(u).supportsPawapay

(* A synchronisation writes a country before its operators.                 *)
CountryFirst ==
  reseeded = "synced" =>
    \A u \in upserts : u.item > 0 =>
      [u EXCEPT !.item = 0] \in upserts \/ Supports(RowOf(u).iso2)

(* Until the seed runs over a synchronisation, an operator of PawaPay's is  *)
(* in a country of PawaPay's.                                               *)
OperatorsFit ==
  reseeded # "reseeded" =>
    \A k \in Codes : operators[k].exists /\ operators[k].paymentMethod = "PAWAPAY" => Supports(k[2])

CatalogFits == UpsertsKnown /\ RowsWhole /\ SeededRows /\ CountryFirst /\ OperatorsFit

(* An operator once chosen does not go away.                                *)
Known(k) == k # NoOperator => k \in Codes /\ operators[k].exists

(* Between the two reads of create.                                         *)
Between == {"limits", "operator", "detected"}

CreateFits ==
  /\ Known(form.operator)
  /\ create.pc \in Between \cup {"countries"} =>
       "form" \in DOMAIN create /\ create.form \in Form /\ Known(create.form.operator)
  /\ create.pc \in Between =>
       /\ {"op", "seen", "supportsPawapay", "steady"} \subseteq DOMAIN create
       /\ create.op = Checkout
       /\ create.seen = <<"synced", TRUE>> => reseeded # "never synced"
       /\ create.seen = <<reseeded, TRUE>> /\ reseeded # "reseeded" =>
            /\ reseeded = "synced" => upserts = {}
            /\ create.supportsPawapay = countries[create.form.recipient].supportsPawapay
  /\ create.pc = "rates" =>
       /\ {"form", "op", "supportsPawapay", "steady"} \subseteq DOMAIN create
       /\ create.op # Checkout => create.op.code # NoOperator
       /\ create.steady /\ reseeded # "reseeded" /\ create.op.paymentMethod = "PAWAPAY" =>
            create.supportsPawapay
  /\ InGateway => {"request", "steady"} \subseteq DOMAIN create /\ PawapayNamesProvider

(* Each country is in the seed once ... *)
LEMMA SeedOnce ==
  ASSUME NEW n \in DOMAIN COUNTRIES, NEW m \in DOMAIN COUNTRIES,
         COUNTRIES[n].iso2 = COUNTRIES[m].iso2
  PROVE  n = m
  <1>1. DOMAIN COUNTRIES = 1..17
    BY DEF COUNTRIES
  <1>2. n \in 1..17 /\ m \in 1..17
    BY <1>1
  <1> QED BY <1>2 DEF COUNTRIES, Country

(* ... PawaPay's or not ... *)
LEMMA SeedSupport ==
  ASSUME NEW n \in DOMAIN COUNTRIES
  PROVE  COUNTRIES[n].supportsPawapay = (n \notin {4, 5, 6, 7, 12})
  <1>1. DOMAIN COUNTRIES = 1..17
    BY DEF COUNTRIES
  <1>2. ASSUME n \in 1..17 \ {4, 5, 6, 7, 12} PROVE COUNTRIES[n].supportsPawapay = TRUE
    BY <1>2 DEF COUNTRIES, Country
  <1>3. ASSUME n \in {4, 5, 6, 7, 12} PROVE COUNTRIES[n].supportsPawapay = FALSE
    BY <1>3 DEF COUNTRIES, Country
  <1> QED BY <1>1, <1>2, <1>3

(* ... and the operators of a country that is not are not (seed-data.ts). *)
LEMMA SeedMethods ==
  ASSUME NEW n \in {4, 5, 6, 7, 12}, NEW m \in 1..Len(COUNTRIES[n].ops)
  PROVE  COUNTRIES[n].ops[m].paymentMethod # "PAWAPAY"
  <1> USE DEF Operator, orange, moov, airtel
  <1>1. CASE n = 4
    <2>1. COUNTRIES[n].ops = <<moov, Operator("TMONEY", "MTN_MONEY")>>
      BY <1>1 DEF COUNTRIES, Country
    <2> QED BY <2>1
  <1>2. CASE n = 5 \/ n = 6
    <2>1. COUNTRIES[n].ops = <<orange, moov>>
      BY <1>2 DEF COUNTRIES, Country
    <2> QED BY <2>1
  <1>3. CASE n = 7
    <2>1. COUNTRIES[n].ops = <<orange, airtel, moov>>
      BY <1>3 DEF COUNTRIES, Country
    <2> QED BY <2>1
  <1>4. CASE n = 12
    <2>1. COUNTRIES[n].ops = <<orange, Operator("TELECEL", "MOOV_MONEY")>>
      BY <1>4 DEF COUNTRIES, Country
    <2> QED BY <2>1
  <1> QED BY <1>1, <1>2, <1>3, <1>4

(* What an upsert is about is in the tables: one of the seed ... *)
LEMMA SeedUpsert ==
  ASSUME NEW u \in SeedUpserts
  PROVE  /\ u.source = "seed" /\ u.country \in DOMAIN COUNTRIES /\ RowOf(u) = COUNTRIES[u.country]
         /\ u.item \in 0..Len(RowOf(u).ops) /\ RowOf(u).iso2 \in Iso2
         /\ [u EXCEPT !.item = 0] \in SeedUpserts /\ RowOf([u EXCEPT !.item = 0]) = RowOf(u)
         /\ [u EXCEPT !.item = 0].item = 0
  <1>1. PICK n \in {x \in DOMAIN COUNTRIES : COUNTRIES[x].iso2 \in Seeded} :
          u \in {[source |-> "seed", country |-> n, item |-> m] : m \in 0..Len(COUNTRIES[n].ops)}
    BY DEF SeedUpserts, UpsertsOf
  <1>2. PICK m \in 0..Len(COUNTRIES[n].ops) : u = [source |-> "seed", country |-> n, item |-> m]
    BY <1>1
  <1> DEFINE first == [source |-> "seed", country |-> n, item |-> 0]
  <1>3. first = [u EXCEPT !.item = 0]
    BY <1>2
  <1>4. 0 \in 0..Len(COUNTRIES[n].ops)
    BY <1>2
  <1>5. first \in {[source |-> "seed", country |-> n, item |-> i] : i \in 0..Len(COUNTRIES[n].ops)}
    BY <1>4
  <1>6. first \in SeedUpserts
    BY <1>5 DEF SeedUpserts, UpsertsOf
  <1>7. RowOf(u) = COUNTRIES[n] /\ RowOf(first) = COUNTRIES[n]
    BY <1>2 DEF RowOf
  <1>8. COUNTRIES[n].iso2 \in Iso2
    BY DEF Iso2
  <1> HIDE DEF first
  <1> QED BY <1>2, <1>3, <1>6, <1>7, <1>8

(* ... one of a synchronisation ... *)
LEMMA SyncUpsert ==
  ASSUME NEW u \in SyncUpserts
  PROVE  /\ u.source = "sync" /\ u.country \in DOMAIN Listing /\ RowOf(u) = Listing[u.country]
         /\ u.item \in 0..Len(RowOf(u).ops) /\ RowOf(u).iso2 \in Iso2
         /\ [u EXCEPT !.item = 0] \in SyncUpserts /\ RowOf([u EXCEPT !.item = 0]) = RowOf(u)
         /\ [u EXCEPT !.item = 0].item = 0
  <1>1. PICK n \in DOMAIN Listing :
          u \in {[source |-> "sync", country |-> n, item |-> m] : m \in 0..Len(Listing[n].ops)}
    BY DEF SyncUpserts, UpsertsOf
  <1>2. PICK m \in 0..Len(Listing[n].ops) : u = [source |-> "sync", country |-> n, item |-> m]
    BY <1>1
  <1> DEFINE first == [source |-> "sync", country |-> n, item |-> 0]
  <1>3. first = [u EXCEPT !.item = 0]
    BY <1>2
  <1>4. 0 \in 0..Len(Listing[n].ops)
    BY <1>2
  <1>5. first \in {[source |-> "sync", country |-> n, item |-> i] : i \in 0..Len(Listing[n].ops)}
    BY <1>4
  <1>6. first \in SyncUpserts
    BY <1>5 DEF SyncUpserts, UpsertsOf
  <1>7. RowOf(u) = Listing[n] /\ RowOf(first) = Listing[n]
    BY <1>2 DEF RowOf
  <1>8. Listing[n].iso2 \in Iso2
    BY DEF Iso2
  <1> HIDE DEF first
  <1> QED BY <1>2, <1>3, <1>6, <1>7, <1>8

(* ... and one of an operator. *)
LEMMA CodeLemma ==
  ASSUME NEW u \in SeedUpserts \cup SyncUpserts, u.item > 0
  PROVE  CodeOf(u) \in Codes /\ CodeOf(u)[2] = RowOf(u).iso2
  <1>1. OperatorOf(u).brand \in Brands
    BY DEF Brands
  <1>2. RowOf(u).iso2 \in Iso2
    BY SeedUpsert, SyncUpsert
  <1> QED BY <1>1, <1>2 DEF CodeOf, Codes

(* Upserts of one country of the seed. *)
LEMMA SameCountry ==
  ASSUME NEW u \in SeedUpserts, NEW v \in SeedUpserts, RowOf(u).iso2 = RowOf(v).iso2
  PROVE  RowOf(u) = RowOf(v)
  <1>1. /\ u.country \in DOMAIN COUNTRIES /\ RowOf(u) = COUNTRIES[u.country]
        /\ v.country \in DOMAIN COUNTRIES /\ RowOf(v) = COUNTRIES[v.country]
    BY SeedUpsert
  <1>2. u.country = v.country
    BY <1>1, SeedOnce
  <1> QED BY <1>1, <1>2

LEMMA SeededSupport ==
  ASSUME NEW u \in SeedUpserts, u.item > 0, OperatorOf(u).paymentMethod = "PAWAPAY"
  PROVE  RowOf(u).supportsPawapay = TRUE
  <1>1. u.country \in DOMAIN COUNTRIES /\ RowOf(u) = COUNTRIES[u.country]
        /\ u.item \in 0..Len(RowOf(u).ops)
    BY SeedUpsert
  <1> DEFINE n == u.country
             m == u.item
  <1>2. m \in 1..Len(COUNTRIES[n].ops)
    <2>1. m \in 0..Len(COUNTRIES[n].ops) /\ m > 0
      BY <1>1
    <2> HIDE DEF m
    <2> QED BY <2>1
  <1>3. COUNTRIES[n].ops[m].paymentMethod = "PAWAPAY"
    BY <1>1 DEF OperatorOf
  <1> HIDE DEF n, m
  <1>4. n \notin {4, 5, 6, 7, 12}
    BY <1>2, <1>3, SeedMethods
  <1> QED BY <1>1, <1>4, SeedSupport DEF n

LEMMA SettingUpsert ==
  ASSUME NEW u \in SettingUpserts
  PROVE  u.source = "settings"
  BY DEF SettingUpserts

LEMMA SupportBoolean ==
  ASSUME NEW u \in SeedUpserts
  PROVE  RowOf(u).supportsPawapay \in BOOLEAN
  <1>1. u.country \in DOMAIN COUNTRIES /\ RowOf(u) = COUNTRIES[u.country]
    BY SeedUpsert
  <1>2. COUNTRIES[u.country].supportsPawapay \in BOOLEAN
    BY <1>1, SeedSupport
  <1> QED BY <1>1, <1>2

LEMMA CatalogBegins == CatInit => CatalogFits
  <1> SUFFICES ASSUME CatInit PROVE CatalogFits
    OBVIOUS
  <1>1. UpsertsKnown /\ CountryFirst
    BY DEF CatInit, UpsertsKnown, CountryFirst
  <1>2. ASSUME NEW i \in Iso2
        PROVE  \/ SeedOf(i) = {} /\ countries[i] = NoRow
               \/ \E w \in SeedOf(i) : countries[i] = CountryWritten(w, NoRow)
    <2>1. CASE SeedOf(i) = {}
      BY <2>1 DEF CatInit
    <2>2. CASE SeedOf(i) # {}
      <3> DEFINE w == CHOOSE u \in SeedOf(i) : TRUE
      <3>1. w \in SeedOf(i)
        BY <2>2
      <3>2. countries[i] = CountryWritten(w, NoRow)
        BY <2>2 DEF CatInit
      <3> QED BY <3>1, <3>2
    <2> QED BY <2>1, <2>2
  <1>3. RowsWhole
    <2>1. IsRecord(operators, Codes)
      <3> DEFINE Row(k) == IF SeedOperator(k) = {} THEN NoRow
                           ELSE OperatorWritten(CHOOSE u \in SeedOperator(k) : TRUE)
      <3>1. operators = [k \in Codes |-> Row(k)]
        BY DEF CatInit
      <3> HIDE DEF Row
      <3> QED BY <3>1 DEF IsRecord
    <2>2. ASSUME NEW i \in Iso2, countries[i].exists
          PROVE  {"currency", "supportsPawapay", "isActive"} \subseteq DOMAIN countries[i]
      <3>1. countries[i] # NoRow
        BY <2>2 DEF NoRow
      <3>2. PICK w : countries[i] = CountryWritten(w, NoRow)
        BY <1>2, <3>1
      <3> QED BY <3>2 DEF CountryWritten
    <2> QED BY <2>1, <2>2 DEF RowsWhole
  <1>4. ASSUME NEW u \in SeedUpserts
        PROVE  /\ countries[RowOf(u).iso2].exists
               /\ countries[RowOf(u).iso2].supportsPawapay = RowOf(u).supportsPawapay
    <2> DEFINE i == RowOf(u).iso2
    <2>1. i \in Iso2 /\ SeedOf(i) # {}
      <3>1. i \in Iso2 /\ [u EXCEPT !.item = 0] \in SeedUpserts
            /\ RowOf([u EXCEPT !.item = 0]).iso2 = i
            /\ [u EXCEPT !.item = 0].item = 0
        BY SeedUpsert
      <3> QED BY <3>1 DEF SeedOf
    <2>2. PICK w \in SeedOf(i) : countries[i] = CountryWritten(w, NoRow)
      BY <1>2, <2>1
    <2>3. w \in SeedUpserts /\ RowOf(w) = RowOf(u) /\ w.source = "seed"
      BY <2>2, SameCountry, SeedUpsert DEF SeedOf
    <2>4. /\ countries[i].exists = TRUE
          /\ countries[i].supportsPawapay = (w.source = "sync" \/ RowOf(w).supportsPawapay)
      BY <2>2 DEF CountryWritten
    <2>5. RowOf(u).supportsPawapay \in BOOLEAN
      BY SupportBoolean
    <2> QED BY <2>3, <2>4, <2>5
  <1>5. SeededRows
    BY <1>4 DEF SeededRows
  <1>6. OperatorsFit
    <2> SUFFICES ASSUME NEW k \in Codes, operators[k].exists, operators[k].paymentMethod = "PAWAPAY"
                 PROVE  Supports(k[2])
      BY DEF OperatorsFit
    <2>1. SeedOperator(k) # {}
      BY DEF CatInit, NoRow
    <2> DEFINE u == CHOOSE v \in SeedOperator(k) : TRUE
    <2>2. u \in SeedUpserts /\ u.item > 0 /\ CodeOf(u) = k
      BY <2>1 DEF SeedOperator
    <2>3. operators[k] = OperatorWritten(u)
      BY <2>1 DEF CatInit
    <2> HIDE DEF u
    <2>4. OperatorOf(u).paymentMethod = "PAWAPAY"
      <3>1. u.source = "seed"
        BY <2>2, SeedUpsert
      <3>2. OperatorWritten(u) = [exists |-> TRUE, paymentMethod |-> OperatorOf(u).paymentMethod]
        BY <3>1 DEF OperatorWritten
      <3> QED BY <2>3, <3>2
    <2>5. RowOf(u).supportsPawapay = TRUE
      BY <2>2, <2>4, SeededSupport
    <2>6. k[2] = RowOf(u).iso2
      BY <2>2 DEF CodeOf
    <2> QED BY <1>4, <2>2, <2>5, <2>6 DEF Supports
  <1> QED BY <1>1, <1>3, <1>5, <1>6 DEF CatalogFits

(* Each row after an upsert of a country ... *)
LEMMA CountryUpserted ==
  ASSUME CountriesOK, NEW u, RowOf(u).iso2 \in Iso2,
         countries' = [countries EXCEPT ![RowOf(u).iso2] = CountryWritten(u, @)], NEW i \in Iso2
  PROVE  IF i = RowOf(u).iso2
           THEN /\ countries'[i].exists = TRUE
                /\ countries'[i].currency = RowOf(u).currency
                /\ countries'[i].supportsPawapay = (u.source = "sync" \/ RowOf(u).supportsPawapay)
                /\ {"currency", "supportsPawapay", "isActive"} \subseteq DOMAIN countries'[i]
           ELSE countries'[i] = countries[i]
  <1>1. CASE i = RowOf(u).iso2
    <2>1. countries'[i] = CountryWritten(u, countries[i])
      BY <1>1 DEF CountriesOK, IsRecord
    <2> QED BY <1>1, <2>1 DEF CountryWritten
  <1>2. CASE i # RowOf(u).iso2
    BY <1>2 DEF CountriesOK, IsRecord
  <1> QED BY <1>1, <1>2

(* ... and when the administrator has switched one. *)
LEMMA CountrySwitched ==
  ASSUME CountriesOK, RowsWhole, NEW j \in Iso2, NEW isActive \in BOOLEAN,
         setCountryActive(j, isActive), NEW i \in Iso2
  PROVE  /\ countries'[i].exists = countries[i].exists
         /\ countries[i].exists =>
              /\ countries'[i].currency = countries[i].currency
              /\ countries'[i].supportsPawapay = countries[i].supportsPawapay
              /\ {"currency", "supportsPawapay", "isActive"} \subseteq DOMAIN countries'[i]
         /\ ~ countries[i].exists => countries'[i] = countries[i]
  <1>1. countries[j].exists /\ countries' = [countries EXCEPT ![j].isActive = isActive]
    BY DEF setCountryActive
  <1>2. CASE i = j
    <2>1. countries'[i] = [countries[i] EXCEPT !.isActive = isActive]
      BY <1>1, <1>2 DEF CountriesOK, IsRecord
    <2>2. /\ IsRecord(countries[i], DOMAIN countries[i])
          /\ {"exists", "currency", "supportsPawapay", "isActive"} \subseteq DOMAIN countries[i]
      BY <1>1, <1>2 DEF CountriesOK, CountryOK, RowsWhole
    <2> QED BY <1>1, <1>2, <2>1, <2>2 DEF IsRecord
  <1>3. CASE i # j
    <2>1. countries'[i] = countries[i]
      BY <1>1, <1>3 DEF CountriesOK, IsRecord
    <2> QED BY <2>1 DEF RowsWhole
  <1> QED BY <1>2, <1>3

LEMMA SwitchFits ==
  ASSUME CountriesOK, CatalogFits, NEW j \in Iso2, NEW isActive \in BOOLEAN,
         setCountryActive(j, isActive)
  PROVE  CatalogFits'
  <1>1. UNCHANGED <<operators, upserts, reseeded>>
    BY DEF setCountryActive
  <1>2. \A i \in Iso2 :
          /\ countries'[i].exists = countries[i].exists
          /\ countries[i].exists =>
               /\ countries'[i].supportsPawapay = countries[i].supportsPawapay
               /\ {"currency", "supportsPawapay", "isActive"} \subseteq DOMAIN countries'[i]
    BY CountrySwitched DEF CatalogFits
  <1>3. UpsertsKnown'
    BY <1>1 DEF CatalogFits, UpsertsKnown
  <1>4. RowsWhole'
    BY <1>1, <1>2 DEF CatalogFits, RowsWhole
  <1>5. SeededRows'
    <2>1. \A u \in SeedUpserts : RowOf(u).iso2 \in Iso2
      BY SeedUpsert
    <2> QED BY <1>1, <1>2, <2>1 DEF CatalogFits, SeededRows
  <1>6. \A i \in Iso2 : Supports(i)' = Supports(i)
    BY <1>2 DEF Supports
  <1>7. CountryFirst'
    <2>1. reseeded = "synced" => \A u \in upserts : RowOf(u).iso2 \in Iso2
      BY SyncUpsert DEF CatalogFits, UpsertsKnown
    <2> QED BY <1>1, <1>6, <2>1 DEF CatalogFits, CountryFirst
  <1>8. OperatorsFit'
    <2>1. \A k \in Codes : k[2] \in Iso2
      BY DEF Codes
    <2> QED BY <1>1, <1>6, <2>1 DEF CatalogFits, OperatorsFit
  <1> QED BY <1>3, <1>4, <1>5, <1>7, <1>8 DEF CatalogFits

LEMMA CountryFits ==
  ASSUME CountriesOK, CatalogFits, UpsertCountry
  PROVE  CatalogFits'
  <1>1. PICK u \in upserts :
          /\ u.source # "settings" /\ u.item = 0 /\ upserts' = upserts \ {u}
          /\ countries' = [countries EXCEPT ![RowOf(u).iso2] = CountryWritten(u, @)]
          /\ UNCHANGED <<operators, reseeded>>
    BY DEF UpsertCountry, Made
  <1>2. u \in SeedUpserts \cup SyncUpserts
    BY <1>1, SettingUpsert DEF CatalogFits, UpsertsKnown
  <1> DEFINE at == RowOf(u).iso2
  <1>3. at \in Iso2
    BY <1>2, SeedUpsert, SyncUpsert
  <1>4. /\ countries'[at].exists = TRUE
        /\ countries'[at].supportsPawapay = (u.source = "sync" \/ RowOf(u).supportsPawapay)
        /\ {"currency", "supportsPawapay", "isActive"} \subseteq DOMAIN countries'[at]
    BY <1>1, <1>3, CountryUpserted
  <1>5. \A i \in Iso2 : i # at => countries'[i] = countries[i]
    BY <1>1, <1>3, CountryUpserted
  <1>6. UpsertsKnown'
    BY <1>1 DEF CatalogFits, UpsertsKnown
  <1>7. RowsWhole'
    BY <1>1, <1>3, <1>4, <1>5 DEF CatalogFits, RowsWhole
  <1>8. CASE reseeded = "never synced"
    <2>1. u \in SeedUpserts
      BY <1>1, <1>8, SettingUpsert DEF CatalogFits, UpsertsKnown
    <2>2. countries[at].exists /\ countries[at].supportsPawapay = RowOf(u).supportsPawapay
      BY <1>1, <1>8, <2>1 DEF CatalogFits, SeededRows
    <2>3. countries'[at].supportsPawapay = countries[at].supportsPawapay
      <3>1. u.source # "sync" /\ RowOf(u).supportsPawapay \in BOOLEAN
        BY <2>1, SupportBoolean, SeedUpsert
      <3> QED BY <1>4, <2>2, <3>1
    <2>4. SeededRows'
      <3> SUFFICES ASSUME NEW v \in SeedUpserts, v.item = 0
                   PROVE  /\ countries'[RowOf(v).iso2].exists
                          /\ countries'[RowOf(v).iso2].supportsPawapay = RowOf(v).supportsPawapay
        BY DEF SeededRows
      <3>1. /\ RowOf(v).iso2 \in Iso2 /\ countries[RowOf(v).iso2].exists
            /\ countries[RowOf(v).iso2].supportsPawapay = RowOf(v).supportsPawapay
        BY <1>8, SeedUpsert DEF CatalogFits, SeededRows
      <3> QED BY <1>4, <1>5, <2>3, <3>1
    <2>5. OperatorsFit'
      <3>1. \A i \in Iso2 : Supports(i) => Supports(i)'
        BY <1>4, <1>5, <2>3 DEF Supports
      <3>2. \A k \in Codes : k[2] \in Iso2
        BY DEF Codes
      <3> QED BY <1>1, <3>1, <3>2 DEF CatalogFits, OperatorsFit
    <2>6. CountryFirst'
      BY <1>1, <1>8 DEF CountryFirst
    <2> QED BY <1>6, <1>7, <2>4, <2>5, <2>6 DEF CatalogFits
  <1>9. CASE reseeded = "synced"
    <2>1. u.source = "sync"
      BY <1>9, SyncUpsert DEF CatalogFits, UpsertsKnown
    <2>2. countries'[at].supportsPawapay = TRUE
      BY <1>4, <2>1
    <2>3. \A i \in Iso2 : Supports(i) => Supports(i)'
      BY <1>4, <1>5, <2>2 DEF Supports
    <2>4. CountryFirst'
      <3> SUFFICES ASSUME NEW v \in upserts', v.item > 0
                   PROVE  [v EXCEPT !.item = 0] \in upserts' \/ Supports(RowOf(v).iso2)'
        BY DEF CountryFirst
      <3>1. v \in upserts /\ RowOf(v).iso2 \in Iso2 /\ RowOf([v EXCEPT !.item = 0]) = RowOf(v)
        BY <1>1, <1>9, SyncUpsert DEF CatalogFits, UpsertsKnown
      <3>2. [v EXCEPT !.item = 0] \in upserts \/ Supports(RowOf(v).iso2)
        BY <1>9, <3>1 DEF CatalogFits, CountryFirst
      <3>3. CASE [v EXCEPT !.item = 0] = u
        <4>1. RowOf(v).iso2 = at
          BY <3>1, <3>3
        <4> QED BY <1>3, <1>4, <2>2, <4>1 DEF Supports
      <3> QED BY <1>1, <2>3, <3>1, <3>2, <3>3
    <2>5. OperatorsFit'
      <3>1. \A k \in Codes : k[2] \in Iso2
        BY DEF Codes
      <3> QED BY <1>1, <2>3, <3>1 DEF CatalogFits, OperatorsFit
    <2>6. SeededRows'
      BY <1>1, <1>9 DEF SeededRows
    <2> QED BY <1>6, <1>7, <2>4, <2>5, <2>6 DEF CatalogFits
  <1>10. CASE reseeded = "reseeded"
    BY <1>1, <1>6, <1>7, <1>10 DEF CatalogFits, SeededRows, CountryFirst, OperatorsFit
  <1> QED BY <1>8, <1>9, <1>10 DEF CatalogFits, UpsertsKnown

LEMMA OperatorFits ==
  ASSUME CatalogFits, UpsertOperator
  PROVE  CatalogFits'
  <1>1. PICK u \in upserts :
          /\ Due(u) /\ upserts' = upserts \ {u}
          /\ u.source # "settings" /\ u.item > 0
          /\ operators' = [operators EXCEPT ![CodeOf(u)] = OperatorWritten(u)]
          /\ UNCHANGED <<countries, reseeded>>
    BY DEF UpsertOperator, Made
  <1>2. u \in SeedUpserts \cup SyncUpserts
    BY <1>1, SettingUpsert DEF CatalogFits, UpsertsKnown
  <1>3. CodeOf(u) \in Codes /\ CodeOf(u)[2] = RowOf(u).iso2
    BY <1>1, <1>2, CodeLemma
  <1>4. UpsertsKnown' /\ RowsWhole' /\ SeededRows'
    BY <1>1, <1>3 DEF CatalogFits, UpsertsKnown, RowsWhole, SeededRows, IsRecord
  <1>5. \A i : Supports(i)' = Supports(i)
    BY <1>1 DEF Supports
  <1>6. CountryFirst'
    <2> SUFFICES ASSUME reseeded = "synced", NEW v \in upserts', v.item > 0
                 PROVE  [v EXCEPT !.item = 0] \in upserts' \/ Supports(RowOf(v).iso2)'
      BY <1>1 DEF CountryFirst
    <2> DEFINE first == [v EXCEPT !.item = 0]
    <2>1. v \in upserts /\ first.item = 0
      BY <1>1, SyncUpsert DEF CatalogFits, UpsertsKnown
    <2>2. first \in upserts \/ Supports(RowOf(v).iso2)
      BY <2>1 DEF CatalogFits, CountryFirst
    <2> HIDE DEF first
    <2>3. first # u
      BY <1>1, <2>1
    <2> QED BY <1>1, <1>5, <2>2, <2>3 DEF first
  <1>7. OperatorsFit'
    <2> SUFFICES ASSUME reseeded # "reseeded", OperatorWritten(u).paymentMethod = "PAWAPAY"
                 PROVE  Supports(RowOf(u).iso2)
      <3> SUFFICES ASSUME reseeded # "reseeded", NEW k \in Codes, operators'[k].exists,
                          operators'[k].paymentMethod = "PAWAPAY"
                   PROVE  Supports(k[2])
        BY <1>1, <1>5 DEF OperatorsFit
      <3>1. CASE k = CodeOf(u)
        <4>1. operators'[k] = OperatorWritten(u)
          BY <1>1, <1>3, <3>1 DEF CatalogFits, RowsWhole, IsRecord
        <4> QED BY <1>3, <3>1, <4>1
      <3>2. CASE k # CodeOf(u)
        <4>1. operators'[k] = operators[k]
          BY <1>1, <3>2 DEF CatalogFits, RowsWhole, IsRecord
        <4> QED BY <4>1 DEF CatalogFits, OperatorsFit
      <3> QED BY <3>1, <3>2
    <2>1. CASE reseeded = "never synced"
      <3>1. u \in SeedUpserts
        BY <1>1, <2>1, SettingUpsert DEF CatalogFits, UpsertsKnown
      <3>2. u.source = "seed" /\ [u EXCEPT !.item = 0] \in SeedUpserts
            /\ RowOf([u EXCEPT !.item = 0]) = RowOf(u) /\ [u EXCEPT !.item = 0].item = 0
        BY <3>1, SeedUpsert
      <3>3. OperatorOf(u).paymentMethod = "PAWAPAY"
        <4>1. OperatorWritten(u) = [exists |-> TRUE, paymentMethod |-> OperatorOf(u).paymentMethod]
          BY <3>2 DEF OperatorWritten
        <4> QED BY <4>1
      <3>4. RowOf(u).supportsPawapay = TRUE
        BY <1>1, <3>1, <3>3, SeededSupport
      <3> QED BY <2>1, <3>2, <3>4 DEF CatalogFits, SeededRows, Supports
    <2>2. CASE reseeded = "synced"
      <3>1. u \in SyncUpserts
        BY <2>2 DEF CatalogFits, UpsertsKnown
      <3> DEFINE first == [u EXCEPT !.item = 0]
      <3>2. first.country = u.country /\ first.item = 0 /\ u.country \in Int /\ u.item \in Int
        <4>1. PICK n, m : u = [source |-> "sync", country |-> n, item |-> m]
          BY <3>1 DEF SyncUpserts, UpsertsOf
        <4>2. first = [source |-> "sync", country |-> n, item |-> 0]
          BY <4>1
        <4>3. u.country \in DOMAIN Listing /\ u.item \in 0..Len(RowOf(u).ops)
          BY <3>1, SyncUpsert
        <4> QED BY <4>1, <4>2, <4>3, ListingAssumption
      <3> HIDE DEF first
      <3>3. first \notin upserts
        BY <1>1, <3>2 DEF Due
      <3> QED BY <1>1, <2>2, <3>3 DEF CatalogFits, CountryFirst, first
    <2> QED BY <2>1, <2>2 DEF CatalogFits, UpsertsKnown
  <1> QED BY <1>4, <1>6, <1>7 DEF CatalogFits

LEMMA CatalogKeptFits ==
  ASSUME CatalogFits, UNCHANGED <<countries, operators, upserts, reseeded>>
  PROVE  CatalogFits'
  BY DEF CatalogFits, UpsertsKnown, RowsWhole, SeededRows, CountryFirst, OperatorsFit, Supports

LEMMA CatalogFitsStep ==
  ASSUME IInv, CatalogFits, [Next]_vars
  PROVE  CatalogFits'
  <1>1. CountriesOK
    BY TablesLemma DEF IInv
  <1>2. CASE SyncStart
    <2>1. CountryFirst'
      <3> SUFFICES ASSUME NEW u \in SyncUpserts PROVE [u EXCEPT !.item = 0] \in SyncUpserts
        BY <1>2 DEF SyncStart, CountryFirst
      <3> QED BY SyncUpsert
    <2> QED BY <1>2, <2>1 DEF SyncStart, CatalogFits, UpsertsKnown, RowsWhole, SeededRows,
               OperatorsFit, Supports
  <1>3. CASE SeedStart
    BY <1>3 DEF SeedStart, CatalogFits, UpsertsKnown, RowsWhole, SeededRows, CountryFirst,
       OperatorsFit, Supports
  <1>4. CASE UpsertFails \/ UpsertSetting
    <2>1. upserts' \subseteq upserts /\ UNCHANGED <<countries, operators, reseeded>>
      BY <1>4 DEF UpsertFails, UpsertSetting, Made
    <2>2. reseeded = "synced" => upserts' = {}
      <3>1. CASE UpsertFails
        BY <3>1 DEF UpsertFails
      <3>2. CASE UpsertSetting
        BY <3>2, SyncUpsert DEF UpsertSetting, CatalogFits, UpsertsKnown
      <3> QED BY <1>4, <3>1, <3>2
    <2> QED BY <2>1, <2>2 DEF CatalogFits, UpsertsKnown, RowsWhole, SeededRows, CountryFirst,
               OperatorsFit, Supports
  <1>5. CASE \E i \in Iso2, isActive \in BOOLEAN : setCountryActive(i, isActive)
    BY <1>1, <1>5, SwitchFits
  <1>6. CASE \E change \in Changes : updateSetting(change[1], change[2])
    BY <1>6, CatalogKeptFits DEF updateSetting
  <1>7. CASE CatNext
    BY <1>1, <1>2, <1>3, <1>4, <1>5, <1>6, <1>7, CountryFits, OperatorFits DEF CatNext
  <1>8. CASE ~ CatNext
    BY <1>8, CatalogKept, CatalogKeptFits DEF storeVars, vars, catVars
  <1> QED BY <1>7, <1>8

(* While the tables stand still between two synchronisations, create reads  *)
(* of the recipient's country what it read before; and no operator goes.    *)
LEMMA TablesAge ==
  ASSUME IInv, CatalogFits, [Next]_vars
  PROVE  /\ \A k \in Codes : operators[k].exists => operators'[k].exists
         /\ reseeded = "synced" => reseeded' # "never synced"
         /\ reseeded' # "reseeded" => reseeded # "reseeded"
         /\ reseeded' = reseeded /\ reseeded # "reseeded" /\ (reseeded = "synced" => upserts = {}) =>
              /\ reseeded = "synced" => upserts' = {}
              /\ \A i \in Iso2 : countries'[i].supportsPawapay = countries[i].supportsPawapay
  <1>1. CountriesOK
    BY TablesLemma DEF IInv
  <1>2. \A k \in Codes : operators[k].exists => operators'[k].exists
    <2>1. CASE UpsertOperator
      <3>1. PICK u \in upserts : operators' = [operators EXCEPT ![CodeOf(u)] = OperatorWritten(u)]
        BY <2>1 DEF UpsertOperator
      <3>2. OperatorWritten(u).exists = TRUE
        BY DEF OperatorWritten
      <3> QED BY <3>1, <3>2 DEF CatalogFits, RowsWhole, IsRecord
    <2>2. CASE CatNext /\ ~ UpsertOperator
      BY <2>2 DEF CatNext, SyncStart, SeedStart, UpsertFails, UpsertCountry, UpsertSetting,
         updateSetting, setCountryActive
    <2> QED BY <2>1, <2>2, CatalogKept DEF storeVars, vars, catVars
  <1>3. /\ reseeded = "synced" => reseeded' # "never synced"
        /\ reseeded' # "reseeded" => reseeded # "reseeded"
    <2>1. CASE CatNext
      BY <2>1 DEF CatNext, SyncStart, SeedStart, UpsertFails, UpsertCountry, UpsertOperator,
         UpsertSetting, updateSetting, setCountryActive
    <2> QED BY <2>1, CatalogKept DEF storeVars, vars, catVars
  <1>4. ASSUME reseeded' = reseeded, reseeded # "reseeded", reseeded = "synced" => upserts = {}
        PROVE  /\ reseeded = "synced" => upserts' = {}
               /\ \A i \in Iso2 : countries'[i].supportsPawapay = countries[i].supportsPawapay
    <2>1. CASE UpsertCountry
      <3>1. reseeded = "never synced"
        BY <1>4, <2>1 DEF UpsertCountry, CatalogFits, UpsertsKnown
      <3>2. SeededRows /\ SeededRows'
        BY <1>1, <2>1, CountryFits DEF CatalogFits
      <3>3. PICK u \in upserts :
              /\ u.source # "settings" /\ u.item = 0
              /\ countries' = [countries EXCEPT ![RowOf(u).iso2] = CountryWritten(u, @)]
        BY <2>1 DEF UpsertCountry
      <3>4. u \in SeedUpserts
        BY <3>1, <3>3, SettingUpsert DEF CatalogFits, UpsertsKnown
      <3>5. RowOf(u).iso2 \in Iso2
        BY <3>4, SeedUpsert
      <3>6. countries'[RowOf(u).iso2].supportsPawapay = countries[RowOf(u).iso2].supportsPawapay
        BY <1>4, <3>1, <3>2, <3>3, <3>4 DEF SeededRows
      <3>7. \A i \in Iso2 : i # RowOf(u).iso2 => countries'[i] = countries[i]
        BY <1>1, <3>3, <3>5, CountryUpserted
      <3> QED BY <3>1, <3>6, <3>7
    <2>2. ASSUME NEW j \in Iso2, NEW isActive \in BOOLEAN, setCountryActive(j, isActive)
          PROVE  /\ reseeded = "synced" => upserts' = {}
                 /\ \A i \in Iso2 : countries'[i].supportsPawapay = countries[i].supportsPawapay
      <3>1. upserts' = upserts
        BY <2>2 DEF setCountryActive
      <3>2. ASSUME NEW i \in Iso2
            PROVE  countries'[i].supportsPawapay = countries[i].supportsPawapay
        BY <1>1, <2>2, CountrySwitched DEF CatalogFits
      <3> QED BY <1>4, <3>1, <3>2
    <2>3. CASE SyncStart
      BY <1>4, <2>3 DEF SyncStart
    <2>4. CASE SeedStart
      BY <1>4, <2>4 DEF SeedStart
    <2>5. CASE UpsertFails \/ UpsertOperator \/ UpsertSetting
      BY <1>4, <2>5 DEF UpsertFails, UpsertOperator, UpsertSetting
    <2>6. CASE \E change \in Changes : updateSetting(change[1], change[2])
      BY <1>4, <2>6 DEF updateSetting
    <2>7. CASE CatNext
      BY <2>1, <2>2, <2>3, <2>4, <2>5, <2>6, <2>7 DEF CatNext
    <2> QED BY <1>4, <2>7, CatalogKept DEF storeVars, vars, catVars
  <1> QED BY <1>2, <1>3, <1>4

LEMMA RecipientLemma ==
  ASSUME NEW f \in Form
  PROVE  f.recipient \in Iso2 /\ (f.operator # NoOperator => f.operator \in Codes)
  BY CountriesAssumption DEF Form, Iso2

(* The page chooses among operators that are there.                         *)
LEMMA FormStep ==
  ASSUME IInv, CatalogFits, [Next]_vars, Known(form.operator)
  PROVE  Known(form.operator)'
  <1>1. ASSUME NEW k, Known(k) PROVE Known(k)'
    BY <1>1, TablesAge DEF Known
  <1>2. CASE UNCHANGED form
    BY <1>1, <1>2 DEF Known
  <1>3. ASSUME NEW recipient \in Recipients, NEW amount \in Amounts \cup {Empty},
               Edit(recipient, amount)
        PROVE  Known(form.operator)'
    <2>1. form'.operator = form.operator
      BY <1>3 DEF Edit, IInv, PageShape, Form
    <2> QED BY <1>1, <2>1 DEF Known
  <1>4. ASSUME NEW phone \in Phone, NEW operator \in Codes \cup {NoOperator}, Fill(phone, operator)
        PROVE  Known(form.operator)'
    <2>1. form'.operator = operator
      BY <1>4 DEF Fill, IInv, PageShape, Form
    <2>2. Known(operator)
      <3>1. \A k \in Offered : Known(k)
        BY DEF Offered, getOperators, Known
      <3> QED BY <1>4, <3>1 DEF Fill, Known
    <2> QED BY <1>1, <2>1, <2>2 DEF Known
  <1>5. CASE Leave
    BY <1>5 DEF Leave, NewForms, Known
  <1>6. CASE Server
    BY <1>2, <1>6 DEF Server, QuoteLimits, QuoteRates, ReadCountries, CreateLimits,
       ResolveOperator, DetectOperator, CreateRates, GatewayAccepts, FindBeneficiary,
       SaveBeneficiary, CreateFails, Orphaned, OnlyCreate, pageVars
  <1>7. CASE Beneficiaries
    BY <1>2, <1>7 DEF Beneficiaries, AddBeneficiary, UpdateBeneficiary, RemoveBeneficiary, pageVars
  <1>8. CASE Send \/ AskQuote \/ ShowQuote \/ ShowQuoteError \/ SendError
    BY <1>2, <1>8 DEF Send, AskQuote, ShowQuote, ShowQuoteError, SendError
  <1>9. CASE UNCHANGED <<pageVars, create, saved>> \/ UNCHANGED vars
    BY <1>2, <1>9 DEF vars, pageVars
  <1> QED BY <1>3, <1>4, <1>5, <1>6, <1>7, <1>8, <1>9 DEF Next, Page, Answers

(* A request that waits, whatever is written meanwhile.                     *)
LEMMA WaitingFits ==
  ASSUME IInv, CatalogFits, CreateFits, [Next]_vars, UNCHANGED create
  PROVE  CreateFits'
  <1>1. Known(form.operator)'
    BY FormStep DEF CreateFits
  <1>2. CatalogFits'
    BY CatalogFitsStep
  <1>3. create.pc \in Between \cup {"countries"} =>
          "form" \in DOMAIN create /\ create.form \in Form /\ Known(create.form.operator)'
    BY TablesAge DEF CreateFits, Known
  <1>4. ASSUME create.pc \in Between, create.seen = <<reseeded', TRUE>>, reseeded' # "reseeded"
        PROVE  /\ reseeded' = "synced" => upserts' = {}
               /\ create.supportsPawapay = countries'[create.form.recipient].supportsPawapay
    <2>1. reseeded' = reseeded
      BY <1>2, <1>4, TablesAge DEF CreateFits, CatalogFits, UpsertsKnown
    <2>2. /\ reseeded = "synced" => upserts = {}
          /\ create.supportsPawapay = countries[create.form.recipient].supportsPawapay
      BY <1>4, <2>1 DEF CreateFits
    <2>3. create.form.recipient \in Iso2
      BY <1>3, <1>4, RecipientLemma
    <2> QED BY <1>4, <2>1, <2>2, <2>3, TablesAge
  <1>5. create.pc \in Between =>
          /\ {"op", "seen", "supportsPawapay", "steady"} \subseteq DOMAIN create
          /\ create.op = Checkout
          /\ create.seen = <<"synced", TRUE>> => reseeded' # "never synced"
    BY <1>2, TablesAge DEF CreateFits, CatalogFits, UpsertsKnown
  <1>6. create.pc = "rates" =>
          /\ {"form", "op", "supportsPawapay", "steady"} \subseteq DOMAIN create
          /\ create.op # Checkout => create.op.code # NoOperator
          /\ create.steady /\ reseeded' # "reseeded" /\ create.op.paymentMethod = "PAWAPAY" =>
               create.supportsPawapay
    BY TablesAge DEF CreateFits
  <1>7. InGateway => {"request", "steady"} \subseteq DOMAIN create /\ PawapayNamesProvider'
    BY TablesAge DEF CreateFits, PawapayNamesProvider, InGateway
  <1>8. create' = create
    OBVIOUS
  <1> QED BY <1>1, <1>3, <1>4, <1>5, <1>6, <1>7, <1>8 DEF CreateFits, InGateway, Known

LEMMA CreateFitsStep ==
  ASSUME IInv, CatalogFits, CreateFits, [Next]_vars
  PROVE  CreateFits'
  <1> USE DEF IInv
  <1>1. Known(form.operator)'
    BY FormStep DEF CreateFits
  <1>2. ASSUME create'.pc \in {"idle", "refused"} PROVE CreateFits'
    BY <1>1, <1>2 DEF CreateFits, Between, InGateway
  <1>3. ASSUME UNCHANGED create PROVE CreateFits'
    BY <1>3, WaitingFits
  <1>4. CASE Send
    <2>1. /\ create'.pc = "countries" /\ create'.form = form /\ "form" \in DOMAIN create'
          /\ form' = form /\ form \in Form
      BY <1>4 DEF Send, PageShape
    <2> QED BY <1>1, <2>1 DEF CreateFits, Between, InGateway, Known
  <1>5. CASE Leave \/ CreateFails \/ Orphaned
    BY <1>2, <1>5, NothingBegun DEF Leave, CreateFails, Orphaned
  <1>6. CASE SendError
    BY <1>2, <1>3, <1>6, NothingBegun DEF SendError
  <1>7. CASE ReadCountries
    <2>1. CASE create.form.amount = Empty
      BY <1>2, <1>7, <2>1, NothingBegun DEF ReadCountries
    <2>2. CASE create.form.amount # Empty
      <3>1. /\ create'.pc = "limits" /\ create'.form = create.form /\ create'.op = Checkout
            /\ {"form", "op", "seen", "supportsPawapay", "steady"} \subseteq DOMAIN create'
            /\ create'.seen = <<reseeded, upserts = {}>>
            /\ create'.supportsPawapay = countries[create.form.recipient].supportsPawapay
        BY <1>7, <2>2 DEF ReadCountries
      <3>2. create.form \in Form /\ Known(create.form.operator)
        BY <1>7 DEF ReadCountries, CreateFits
      <3>3. UNCHANGED <<countries, operators, upserts, reseeded>>
        BY <1>7 DEF ReadCountries, OnlyCreate, catVars, storeVars
      <3> DEFINE still == upserts = {}
      <3>4. create'.seen = <<reseeded, still>>
        BY <3>1
      <3> HIDE DEF still
      <3>5. /\ create'.seen = <<reseeded, TRUE>> => still = TRUE
            /\ create'.seen = <<"synced", TRUE>> => reseeded # "never synced"
        <4>1. create'.seen[1] = reseeded /\ create'.seen[2] = still
          BY <3>4
        <4>2. <<reseeded, TRUE>>[2] = TRUE /\ <<"synced", TRUE>>[1] = "synced"
          OBVIOUS
        <4> QED BY <4>1, <4>2
      <3> QED BY <1>1, <3>1, <3>2, <3>3, <3>5 DEF CreateFits, Between, InGateway, Known, still
    <2> QED BY <2>1, <2>2
  <1>8. ASSUME create.pc \in Between, create'.pc \in Between, DOMAIN create' = DOMAIN create,
               create'.form = create.form, create'.op = create.op, create'.seen = create.seen,
               create'.supportsPawapay = create.supportsPawapay,
               UNCHANGED <<countries, operators, upserts, reseeded>>
        PROVE  CreateFits'
    BY <1>1, <1>8 DEF CreateFits, Between, InGateway, Known
  <1>9. CASE CreateLimits
    <2>1. CASE create' = Refused
      BY <1>2, <2>1, NothingBegun
    <2>2. CASE create' = [create EXCEPT !.pc = "operator"]
      <3>1. /\ create.pc = "limits" /\ IsRecord(create, DOMAIN create) /\ "pc" \in DOMAIN create
            /\ {"form", "op", "seen", "supportsPawapay", "steady"} \subseteq DOMAIN create
        BY <1>9 DEF CreateLimits, CreateShape, CreateFits, Between
      <3>2. /\ DOMAIN create' = DOMAIN create /\ create'.pc = "operator"
            /\ create'.form = create.form /\ create'.op = create.op /\ create'.seen = create.seen
            /\ create'.supportsPawapay = create.supportsPawapay
        BY <2>2, <3>1 DEF IsRecord
      <3>3. UNCHANGED <<countries, operators, upserts, reseeded>>
        BY <1>9 DEF CreateLimits, OnlyCreate, catVars, storeVars
      <3> QED BY <1>8, <3>1, <3>2, <3>3 DEF Between
    <2> QED BY <1>9, <2>1, <2>2 DEF CreateLimits
  <1>10. ASSUME create.pc \in Between, create'.pc = "rates", DOMAIN create' = DOMAIN create,
                create'.supportsPawapay = create.supportsPawapay,
                create'.steady => create.seen = <<reseeded, TRUE>>,
                UNCHANGED <<countries, operators, upserts, reseeded>>,
                create'.op # Checkout =>
                  /\ create'.op.code \in Codes /\ operators[create'.op.code].exists
                  /\ create'.op.code[2] = create.form.recipient
                  /\ create'.op.paymentMethod = operators[create'.op.code].paymentMethod
         PROVE  CreateFits'
    <2>1. {"form", "op", "supportsPawapay", "steady"} \subseteq DOMAIN create'
      BY <1>10 DEF CreateFits
    <2>2. create'.op # Checkout => create'.op.code # NoOperator
      <3>1. NoOperator \notin Codes
        BY DEF NoOperator, Codes
      <3> QED BY <1>10, <3>1
    <2>3. ASSUME create'.steady, reseeded # "reseeded", create'.op.paymentMethod = "PAWAPAY"
          PROVE  create'.supportsPawapay
      <3>1. create'.op # Checkout
        BY <2>3 DEF Checkout
      <3>2. countries[create.form.recipient].supportsPawapay
        BY <1>10, <2>3, <3>1 DEF CatalogFits, OperatorsFit, Supports
      <3>3. create.supportsPawapay = countries[create.form.recipient].supportsPawapay
        BY <1>10, <2>3 DEF CreateFits
      <3> QED BY <1>10, <3>2, <3>3
    <2> QED BY <1>1, <1>10, <2>1, <2>2, <2>3 DEF CreateFits, Between, InGateway
  <1>11. CASE ResolveOperator
    <2> DEFINE k == create.form.operator
               op == [code |-> k, paymentMethod |-> operators[k].paymentMethod]
               still == create.seen = <<reseeded, TRUE>>
               resolved == [create EXCEPT !.steady = still]
    <2>1. /\ IsRecord(create, DOMAIN create) /\ create.pc = "operator" /\ create.pc \in Between
          /\ {"pc", "form", "op", "seen", "supportsPawapay", "steady"} \subseteq DOMAIN create
          /\ Known(k)
      BY <1>11 DEF ResolveOperator, CreateShape, CreateFits, Between
    <2>2. UNCHANGED <<countries, operators, upserts, reseeded>>
      BY <1>11 DEF ResolveOperator, OnlyCreate, catVars, storeVars
    <2>3. CASE create' = Refused
      BY <1>2, <2>3, NothingBegun
    <2>4. CASE /\ k # NoOperator /\ Serves(k, create.form.recipient)
               /\ create' = [resolved EXCEPT !.pc = "rates", !.early = settings, !.op = op]
      <3>1. op.code = k /\ op.paymentMethod = operators[k].paymentMethod
        OBVIOUS
      <3> HIDE DEF op, still
      <3>2. /\ DOMAIN create' = DOMAIN create /\ create'.pc = "rates" /\ create'.op = op
            /\ create'.steady = still /\ create'.supportsPawapay = create.supportsPawapay
        BY <2>1, <2>4 DEF IsRecord
      <3> QED BY <1>10, <2>1, <2>2, <2>4, <3>1, <3>2 DEF Known, Serves, still
    <2>5. CASE create' = [resolved EXCEPT
                 !.pc = "detected", !.country = detectByPhone(Phones[create.form.phone])]
      <3> HIDE DEF still
      <3>1. /\ DOMAIN create' = DOMAIN create /\ create'.pc = "detected"
            /\ create'.form = create.form /\ create'.op = create.op /\ create'.seen = create.seen
            /\ create'.supportsPawapay = create.supportsPawapay
        BY <2>1, <2>5 DEF IsRecord
      <3> QED BY <1>8, <2>1, <2>2, <3>1 DEF Between
    <2> QED BY <1>11, <2>3, <2>4, <2>5 DEF ResolveOperator
  <1>12. CASE DetectOperator
    <2> DEFINE found == UNION {getOperators(i) : i \in create.country}
               one == create.country = {create.form.recipient} /\ Cardinality(found) = 1
               k == CHOOSE x \in found : TRUE
               op == IF one THEN [code |-> k, paymentMethod |-> operators[k].paymentMethod]
                            ELSE Checkout
               still == create.steady /\ create.seen = <<reseeded, TRUE>>
    <2>1. /\ IsRecord(create, DOMAIN create) /\ create.pc = "detected" /\ create.pc \in Between
          /\ {"pc", "form", "op", "seen", "supportsPawapay", "steady"} \subseteq DOMAIN create
      BY <1>12 DEF DetectOperator, CreateShape, CreateFits, Between
    <2>2. UNCHANGED <<countries, operators, upserts, reseeded>>
      BY <1>12 DEF DetectOperator, OnlyCreate, catVars, storeVars
    <2>3. op # Checkout =>
            /\ op.code \in Codes /\ operators[op.code].exists
            /\ op.code[2] = create.form.recipient
            /\ op.paymentMethod = operators[op.code].paymentMethod
      <3> SUFFICES ASSUME one
                   PROVE  /\ k \in Codes /\ operators[k].exists
                          /\ k[2] = create.form.recipient
        OBVIOUS
      <3>1. found # {}
        BY FS_EmptySet
      <3>2. k \in found
        BY <3>1
      <3>3. found = getOperators(create.form.recipient)
        OBVIOUS
      <3> QED BY <3>2, <3>3 DEF getOperators
    <2>4. create' = [create EXCEPT !.pc = "rates", !.early = settings, !.steady = still, !.op = op]
      BY <1>12 DEF DetectOperator
    <2> HIDE DEF op, still
    <2>5. /\ DOMAIN create' = DOMAIN create /\ create'.pc = "rates" /\ create'.op = op
          /\ create'.steady = still /\ create'.supportsPawapay = create.supportsPawapay
      BY <2>1, <2>4 DEF IsRecord
    <2> QED BY <1>10, <2>1, <2>2, <2>3, <2>5 DEF still
  <1>13. CASE CreateRates
    <2>1. PICK total : create' =
            [pc |-> "call", form |-> create.form, op |-> create.op,
             expected |-> create.expected, steady |-> create.steady,
             undisturbed |-> create.since = changes, request |-> buildPaymentRequest(total, create)]
      BY <1>13 DEF CreateRates
    <2>2. /\ create'.pc = "call" /\ {"request", "steady"} \subseteq DOMAIN create'
          /\ create'.steady = create.steady /\ create'.request = buildPaymentRequest(total, create)
      BY <2>1
    <2>3. reseeded' = reseeded
      BY <1>13 DEF CreateRates, OnlyCreate, catVars, storeVars
    <2>4. ASSUME create'.request.payment_method = "PAWAPAY", create'.steady, reseeded # "reseeded"
          PROVE  create'.request.mmo_provider # NoOperator
      <3> DEFINE routed == create.op # Checkout /\ create.supportsPawapay
      <3>1. /\ create'.request.payment_method =
                  IF routed THEN "PAWAPAY" ELSE create.op.paymentMethod
            /\ create'.request.mmo_provider = IF routed THEN create.op.code ELSE NoOperator
        BY <2>2 DEF buildPaymentRequest
      <3>2. /\ create.op # Checkout => create.op.code # NoOperator
            /\ create.op.paymentMethod = "PAWAPAY" => create.supportsPawapay
        BY <1>13, <2>2, <2>4 DEF CreateRates, CreateFits
      <3>3. create.op = Checkout => create.op.paymentMethod # "PAWAPAY"
        BY DEF Checkout
      <3> QED BY <2>4, <3>1, <3>2, <3>3
    <2>5. PawapayNamesProvider'
      BY <2>3, <2>4 DEF PawapayNamesProvider
    <2> QED BY <1>1, <2>2, <2>5 DEF CreateFits, Between, InGateway
  <1>14. ASSUME InGateway, create'.pc \in {"exists", "save", "answered"},
                create' = [create EXCEPT !.pc = create'.pc], reseeded' = reseeded
         PROVE  CreateFits'
    <2>1. /\ IsRecord(create, DOMAIN create)
          /\ {"pc", "request", "steady"} \subseteq DOMAIN create /\ PawapayNamesProvider
      BY <1>14 DEF CreateShape, CreateFits
    <2>2. /\ DOMAIN create' = DOMAIN create /\ create'.request = create.request
          /\ create'.steady = create.steady
      BY <1>14, <2>1 DEF IsRecord
    <2> QED BY <1>1, <1>14, <2>1, <2>2 DEF CreateFits, Between, InGateway, PawapayNamesProvider
  <1>15. CASE GatewayAccepts \/ FindBeneficiary \/ SaveBeneficiary
    <2>1. IsRecord(create, DOMAIN create) /\ "pc" \in DOMAIN create /\ InGateway
      BY <1>15 DEF GatewayAccepts, FindBeneficiary, SaveBeneficiary, CreateShape, InGateway
    <2>2. PICK pc \in {"exists", "save", "answered"} : create' = [create EXCEPT !.pc = pc]
      BY <1>15 DEF GatewayAccepts, FindBeneficiary, SaveBeneficiary
    <2>3. create'.pc = pc
      BY <2>1, <2>2 DEF IsRecord
    <2>4. reseeded' = reseeded
      BY <1>15 DEF GatewayAccepts, FindBeneficiary, SaveBeneficiary, OnlyCreate, catVars, storeVars
    <2> QED BY <1>14, <2>1, <2>2, <2>3, <2>4
  <1>16. CASE Page \/ AskQuote \/ ShowQuote \/ ShowQuoteError \/ QuoteLimits \/ QuoteRates
    BY <1>3, <1>4, <1>16 DEF Page, Edit, Fill, AskQuote, ShowQuote, ShowQuoteError, QuoteLimits,
       QuoteRates
  <1>17. CASE Beneficiaries
    BY <1>3, <1>17 DEF Beneficiaries, AddBeneficiary, UpdateBeneficiary, RemoveBeneficiary
  <1>18. CASE UNCHANGED <<pageVars, create, saved>> \/ UNCHANGED vars
    BY <1>3, <1>18 DEF vars
  <1> QED BY <1>5, <1>6, <1>7, <1>9, <1>11, <1>12, <1>13, <1>15, <1>16, <1>17, <1>18
          DEF Next, Answers, Server

(* A payment through PawaPay names its provider, for every seed, every      *)
(* listing and every order of upserts and requests: the synchronisation     *)
(* writes a country before its operators, so an operator of PawaPay's is    *)
(* found in a country of PawaPay's, until the seed runs over it (seed.ts,   *)
(* syncFromGeniusPay, resolveOperator, buildPaymentRequest).                *)
THEOREM PawapayTheorem == Spec => []PawapayNamesProvider
  <1>1. Init => CatalogFits /\ CreateFits
    <2> SUFFICES ASSUME Init PROVE CatalogFits /\ CreateFits
      OBVIOUS
    <2>1. CatalogFits
      BY CatalogBegins DEF Init
    <2>2. create.pc = "idle" /\ form.operator = NoOperator
      BY NothingBegun DEF Init, NewForms
    <2> QED BY <2>1, <2>2 DEF CreateFits, Known, Between, InGateway
  <1>2. IInv /\ CatalogFits /\ CreateFits /\ [Next]_vars => CatalogFits' /\ CreateFits'
    BY CatalogFitsStep, CreateFitsStep
  <1>3. CreateFits => PawapayNamesProvider
    BY DEF CreateFits, PawapayNamesProvider
  <1> QED BY <1>1, <1>2, <1>3, SendingInvariant, PTL DEF Spec

(* The sender's country keeps the currency of the seed ...                  *)
SenderKept ==
  /\ countries[Sender].exists
  /\ \A n \in DOMAIN COUNTRIES :
       COUNTRIES[n].iso2 = Sender => countries[Sender].currency = COUNTRIES[n].currency

OneCurrency ==
  \A n \in DOMAIN COUNTRIES, m \in DOMAIN Listing :
    COUNTRIES[n].iso2 = Sender /\ Listing[m].iso2 = Sender =>
      Listing[m].currency = COUNTRIES[n].currency

LEMMA SenderBegins == CatInit => SenderKept
  <1> SUFFICES ASSUME CatInit PROVE SenderKept
    OBVIOUS
  <1>1. PICK n \in DOMAIN COUNTRIES : COUNTRIES[n].iso2 = Sender /\ Sender \in Seeded
    BY SeededAssumption, CountriesAssumption
  <1> DEFINE u == [source |-> "seed", country |-> n, item |-> 0]
  <1>2. u \in SeedOf(Sender) /\ Sender \in Iso2
    <2>1. 0 \in 0..Len(COUNTRIES[n].ops)
      <3>1. COUNTRIES[n].ops # <<>> \/ Len(COUNTRIES[n].ops) \in Nat
        BY DEF COUNTRIES, Country
      <3> QED BY <3>1
    <2>2. u \in SeedUpserts
      BY <1>1, <2>1 DEF SeedUpserts, UpsertsOf
    <2> QED BY <1>1, <2>2 DEF SeedOf, RowOf, Iso2
  <1> DEFINE w == CHOOSE v \in SeedOf(Sender) : TRUE
  <1>3. w \in SeedUpserts /\ RowOf(w).iso2 = Sender
    BY <1>2 DEF SeedOf
  <1>4. countries[Sender] = CountryWritten(w, NoRow)
    BY <1>2 DEF CatInit
  <1> HIDE DEF w
  <1>5. countries[Sender].exists = TRUE /\ countries[Sender].currency = RowOf(w).currency
    BY <1>4 DEF CountryWritten
  <1>6. w.country \in DOMAIN COUNTRIES /\ RowOf(w) = COUNTRIES[w.country]
    BY <1>3, SeedUpsert
  <1> QED BY <1>3, <1>5, <1>6, SeedOnce DEF SenderKept

LEMMA SenderStep ==
  ASSUME OneCurrency, IInv, CatalogFits, SenderKept, [Next]_vars
  PROVE  SenderKept'
  <1>1. CountriesOK /\ Sender \in Iso2
    BY TablesLemma, CountriesAssumption DEF IInv, Iso2
  <1>2. CASE UNCHANGED countries
    BY <1>2 DEF SenderKept
  <1>3. CASE UpsertCountry
    <2>1. PICK u \in upserts :
            /\ u.source # "settings"
            /\ countries' = [countries EXCEPT ![RowOf(u).iso2] = CountryWritten(u, @)]
      BY <1>3 DEF UpsertCountry
    <2>2. u \in SeedUpserts \cup SyncUpserts
      BY <2>1, SettingUpsert DEF CatalogFits, UpsertsKnown
    <2>3. RowOf(u).iso2 \in Iso2
      BY <2>2, SeedUpsert, SyncUpsert
    <2>4. CASE RowOf(u).iso2 = Sender
      <3>1. countries'[Sender].exists = TRUE /\ countries'[Sender].currency = RowOf(u).currency
        BY <1>1, <2>1, <2>3, <2>4, CountryUpserted
      <3>2. ASSUME NEW n \in DOMAIN COUNTRIES, COUNTRIES[n].iso2 = Sender
            PROVE  RowOf(u).currency = COUNTRIES[n].currency
        <4>1. CASE u \in SeedUpserts
          <5>1. u.country \in DOMAIN COUNTRIES /\ RowOf(u) = COUNTRIES[u.country]
            BY <4>1, SeedUpsert
          <5> QED BY <2>4, <3>2, <5>1, SeedOnce
        <4>2. CASE u \in SyncUpserts
          <5>1. u.country \in DOMAIN Listing /\ RowOf(u) = Listing[u.country]
            BY <4>2, SyncUpsert
          <5> QED BY <2>4, <3>2, <5>1 DEF OneCurrency
        <4> QED BY <2>2, <4>1, <4>2
      <3> QED BY <3>1, <3>2 DEF SenderKept
    <2>5. CASE RowOf(u).iso2 # Sender
      <3>1. countries'[Sender] = countries[Sender]
        BY <1>1, <2>1, <2>3, <2>5, CountryUpserted
      <3> QED BY <3>1 DEF SenderKept
    <2> QED BY <2>4, <2>5
  <1>4. ASSUME NEW j \in Iso2, NEW isActive \in BOOLEAN, setCountryActive(j, isActive)
        PROVE  SenderKept'
    <2>1. /\ countries'[Sender].exists = countries[Sender].exists
          /\ countries[Sender].exists => countries'[Sender].currency = countries[Sender].currency
      BY <1>1, <1>4, CountrySwitched DEF CatalogFits
    <2> QED BY <2>1 DEF SenderKept
  <1>5. CASE CatNext
    BY <1>2, <1>3, <1>4, <1>5 DEF CatNext, SyncStart, SeedStart, UpsertFails, UpsertOperator,
       UpsertSetting, updateSetting
  <1> QED BY <1>2, <1>5, CatalogKept DEF storeVars, vars, catVars

(* ... so where GeniusPay lists it with that currency, or does not list it, *)
(* what GeniusPay is asked for is what the quiet page showed, whatever the  *)
(* seed, the synchronisation and the administrator do (page.tsx,            *)
(* transactions.service.ts, operators.service.ts).                          *)
THEOREM ChargedInOneCurrency ==
  ASSUME OneCurrency
  PROVE  Spec => []ChargedAsShown
  <1>1. Init => CatalogFits /\ SenderKept
    BY CatalogBegins, SenderBegins DEF Init
  <1>2. IInv /\ CatalogFits /\ SenderKept /\ [Next]_vars => CatalogFits' /\ SenderKept'
    BY CatalogFitsStep, SenderStep
  <1>3. SenderKept /\ SenderKept' => countries'[Sender].currency = countries[Sender].currency
    <2>1. PICK n \in DOMAIN COUNTRIES : COUNTRIES[n].iso2 = Sender
      BY SeededAssumption, CountriesAssumption
    <2> QED BY <2>1 DEF SenderKept
  <1>4. Spec => [][countries'[Sender].currency = countries[Sender].currency]_vars
    BY <1>1, <1>2, <1>3, SendingInvariant, PTL DEF Spec
  <1> QED BY <1>4, ChargedTheorem, PTL
===============================================================================
