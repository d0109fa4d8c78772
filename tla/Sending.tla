------------------------------- MODULE Sending -------------------------------
(***************************************************************************)
(* Sending money: the page of the form and of the quote                    *)
(* (src/frontend/src/app/dashboard/send/page.tsx), the two requests it     *)
(* makes, POST /transactions/quote and POST /transactions                  *)
(* (transactions.service.ts, quote and create up to GeniusPay's answer),   *)
(* and the sender's beneficiaries, beside what the administrator and the   *)
(* catalogue's jobs write meanwhile (Catalog).  What becomes of the        *)
(* transfer afterwards is the subject of Transfers.                        *)
(***************************************************************************)
EXTENDS Catalog, TransferFees

CONSTANTS
  Sender,        \* iso2 of the sender's country
  Recipients,    \* the recipient countries the sender may pick
  Phones,        \* the numbers the sender may type: country dialled of each
  Amounts,       \* the amounts the sender may type, in hundredths
  NetFaults      \* whether an answer may be lost

NoOperator == <<>>
Empty == 0       \* the amount field, empty

ASSUME CountriesAssumption == {Sender} \cup Recipients \subseteq Seeded
ASSUME AmountsAssumption == Amounts \subseteq Nat \ {Empty}
ASSUME ChangesAssumption == Changes \subseteq {"percent", "fixed", "feeEstimate", "min", "max"} \X Nat

VARIABLES
  form,    \* the fields of the page
  page,    \* its quote, its error, its timer, and whether it awaits create
  quoting, \* the last quote asked for, until its answer is shown
  create,  \* the create under way on the server
  saved    \* the table beneficiaries: rows of each number, by who wrote them

pageVars == <<form, page, quoting>>
vars == <<form, page, quoting, create, saved, catVars>>

Rates == {"percent", "fixed", "feeEstimate"}
Limits == {"min", "max"}
Phone == DOMAIN Phones

Form == [recipient : Recipients, phone : Phone,
         operator : Codes \cup {NoOperator}, amount : Amounts \cup {Empty}, save : BOOLEAN]

(* The forms before an amount is typed.  Name, number and box are filled in *)
(* already; the number and the recipient's country may still change.        *)
NewForms == {f \in Form : f.operator = NoOperator /\ f.amount = Empty}
NotShown == [total |-> -1]
NewPage == [shown |-> NotShown, error |-> FALSE, timer |-> FALSE, sending |-> FALSE]
NoQuote == [pc |-> "idle"]
NoCreate == [pc |-> "idle"]

Init ==
  /\ CatInit
  /\ form \in NewForms /\ page = NewPage
  /\ quoting = NoQuote /\ create = NoCreate
  /\ saved = [p \in Phone |-> [sends |-> 0, byHand |-> 0]]

-----------------------------------------------------------------------------
(* The page. *)

(* The effect of [senderIso2, recipientIso2, amount]: the error goes, a     *)
(* timer starts over, or the quote goes with the amount.                    *)
Effect(amount) ==
  [page EXCEPT !.error = FALSE,
               !.timer = amount # Empty,
               !.shown = IF amount = Empty THEN NotShown ELSE @]

Edit(recipient, amount) ==
  /\ \/ recipient # form.recipient /\ amount = form.amount
     \/ recipient = form.recipient /\ amount # form.amount
  /\ Event
  /\ form' = [form EXCEPT !.recipient = recipient, !.amount = amount]
  /\ page' = Effect(amount)
  /\ UNCHANGED <<quoting, create, saved, storeVars>>

(* The operators offered are those of the number typed; the one chosen      *)
(* stays chosen when the number changes, its list hidden or not.            *)
Offered == UNION {getOperators(i) : i \in detectByPhone(Phones[form.phone])}

Fill(phone, operator) ==
  /\ \/ phone # form.phone /\ operator = form.operator
     \/ /\ phone = form.phone /\ operator # form.operator
        /\ Offered # {} /\ operator \in Offered \cup {NoOperator}
  /\ Event
  /\ form' = [form EXCEPT !.phone = phone, !.operator = operator]
  /\ UNCHANGED <<page, quoting, create, saved, storeVars>>

(* 400 ms later the quote is asked for.  The callbacks of an earlier mutate *)
(* never run: only the last request counts.                                 *)
AskQuote ==
  /\ page.timer
  /\ page' = [page EXCEPT !.timer = FALSE]
  /\ quoting' = [pc |-> "limits", recipient |-> form.recipient, amount |-> form.amount,
                 early |-> settings, since |-> changes]
  /\ UNCHANGED <<form, create, saved, catVars>>

ShowQuote ==
  /\ quoting.pc = "answered"
  /\ page' = [page EXCEPT !.shown =
       [recipient |-> quoting.recipient, amount |-> quoting.amount,
        total |-> quoting.total, since |-> quoting.since]]
  /\ quoting' = NoQuote
  /\ UNCHANGED <<form, create, saved, catVars>>

(* A slip: the error of a quote is not shown. *)
ShowQuoteError_silent ==
  /\ quoting.pc = "refused" \/ (NetFaults /\ quoting.pc # "idle")
  /\ quoting' = NoQuote
  /\ UNCHANGED <<form, page, create, saved, catVars>>

(* The old quote stays on the page beside the error.                        *)
ShowQuoteError ==
  /\ quoting.pc = "refused" \/ (NetFaults /\ quoting.pc # "idle")
  /\ page' = [page EXCEPT !.error = TRUE]
  /\ quoting' = NoQuote
  /\ UNCHANGED <<form, create, saved, catVars>>

(* A name and a well-formed number are on the form from the start. *)
canSubmit == page.shown # NotShown

(* Nothing is pending, and no error tells the sender that the quote is old. *)
Quiet == ~ page.timer /\ quoting.pc = "idle" /\ ~ page.error

(* onSend: the request takes the fields as they are, whatever the quote     *)
(* shown is about.  expected: the total the sender saw, if the page had     *)
(* nothing to say against it (history).                                     *)
Send ==
  /\ canSubmit /\ ~ page.sending
  /\ create.pc = "idle"
  /\ create' = [pc |-> "countries", form |-> form,
                expected |-> IF Quiet THEN page.shown.total ELSE -1,
                since |-> page.shown.since]
  /\ page' = [page EXCEPT !.error = FALSE, !.sending = TRUE]
  /\ UNCHANGED <<form, quoting, saved, catVars>>

(* The transfer is created: the browser leaves for GeniusPay's page.  The   *)
(* sender may come back to an empty form.                                   *)
Leave ==
  /\ page.sending /\ create.pc = "answered"
  /\ form' \in NewForms /\ page' = NewPage /\ quoting' = NoQuote
  /\ create' = NoCreate
  /\ UNCHANGED <<saved, catVars>>

(* The request is refused, or its answer does not arrive, in which case the *)
(* server goes on with it.                                                  *)
SendError ==
  /\ page.sending
  /\ \/ create.pc = "refused" /\ create' = NoCreate
     \/ NetFaults /\ create.pc # "refused" /\ UNCHANGED create
  /\ page' = [page EXCEPT !.error = TRUE, !.sending = FALSE]
  /\ UNCHANGED <<form, quoting, saved, catVars>>

(* The server ends a request whose page has given up. *)
Orphaned ==
  /\ ~ page.sending /\ create.pc \in {"answered", "refused"}
  /\ create' = NoCreate
  /\ UNCHANGED <<pageVars, saved, catVars>>

-----------------------------------------------------------------------------
(* The settings that quote and create read: the limits, then the rates,     *)
(* each pair or triple concurrently.  A read yields what the setting held   *)
(* when the reads were issued, or what it holds when they are done.         *)

Reads(keys, early) == {got \in [keys -> {early[k] : k \in keys} \cup {settings[k] : k \in keys}] :
                         \A k \in keys : got[k] \in {early[k], settings[k]}}

WithinLimits(amount, got) == got.min <= amount /\ amount <= got.max

FeesOf(amount, recipient, rates) ==
  calculateTransferFees(amount, countries[Sender].currency, countries[recipient].currency, rates)

QuoteLimits ==
  /\ quoting.pc = "limits"
  /\ \E got \in Reads(Limits, quoting.early) :
       quoting' = IF WithinLimits(quoting.amount, got)
                    THEN [quoting EXCEPT !.pc = "rates", !.early = settings]
                    ELSE [pc |-> "refused"]
  /\ UNCHANGED <<form, page, create, saved, catVars>>

QuoteRates ==
  /\ quoting.pc = "rates"
  /\ \E got \in Reads(Rates, quoting.early) :
       quoting' = [pc |-> "answered", recipient |-> quoting.recipient, amount |-> quoting.amount,
                   total |-> FeesOf(quoting.amount, quoting.recipient, got).total,
                   since |-> quoting.since]
  /\ UNCHANGED <<form, page, create, saved, catVars>>

-----------------------------------------------------------------------------
(* create, up to its answer. *)

Refused == [pc |-> "refused"]
Checkout == [code |-> NoOperator, paymentMethod |-> "CHECKOUT"]   \* no operator
OnlyCreate == UNCHANGED <<pageVars, saved, catVars>>

(* The DTO wants a positive amount; both countries are read, active or not. *)
ReadCountries ==
  /\ create.pc = "countries"
  /\ create' = IF create.form.amount = Empty THEN Refused
               ELSE [pc |-> "limits", form |-> create.form, expected |-> create.expected,
                     since |-> create.since,
                     supportsPawapay |-> countries[create.form.recipient].supportsPawapay,
                     seen |-> <<reseeded, upserts = {}>>, steady |-> TRUE,
                     early |-> settings, country |-> {}, op |-> Checkout]
  /\ OnlyCreate

CreateLimits ==
  /\ create.pc = "limits"
  /\ \E got \in Reads(Limits, create.early) :
       create' = IF WithinLimits(create.form.amount, got) THEN [create EXCEPT !.pc = "operator"]
                                                         ELSE Refused
  /\ OnlyCreate

(* A slip: an operator is taken whatever its country. *)
Serves_any(k, recipient) == TRUE

Serves(k, recipient) == k[2] = recipient

(* resolveOperator: the operator asked for, which must be of the            *)
(* recipient's country; or the country that the number dials ...            *)
ResolveOperator ==
  LET k == create.form.operator
      resolved == [create EXCEPT !.steady = create.seen = <<reseeded, TRUE>>] IN
  /\ create.pc = "operator"
  /\ \/ /\ k # NoOperator /\ ~ Serves(k, create.form.recipient)
        /\ create' = Refused
     \/ /\ k # NoOperator /\ Serves(k, create.form.recipient)
        /\ create' = [resolved EXCEPT
             !.pc = "rates", !.early = settings,
             !.op = [code |-> k, paymentMethod |-> operators[k].paymentMethod]]
     \/ /\ k = NoOperator
        /\ create' = [resolved EXCEPT
             !.pc = "detected", !.country = detectByPhone(Phones[create.form.phone])]
  /\ OnlyCreate

(* ... and its operator, if it is the recipient's country and has only one. *)
DetectOperator ==
  LET found == UNION {getOperators(i) : i \in create.country} IN
  /\ create.pc = "detected"
  /\ create' = [create EXCEPT
       !.pc = "rates", !.early = settings,
       !.steady = @ /\ create.seen = <<reseeded, TRUE>>,
       !.op = IF create.country = {create.form.recipient} /\ Cardinality(found) = 1
                THEN LET k == CHOOSE x \in found : TRUE IN
                     [code |-> k, paymentMethod |-> operators[k].paymentMethod]
                ELSE Checkout]
  /\ OnlyCreate

(* A slip: the sender is charged what the recipient is sent. *)
buildPaymentRequest_noFees(total, c) ==
  LET routed == c.op # Checkout /\ c.supportsPawapay IN
  [amount |-> c.form.amount,
   payment_method |-> IF routed THEN "PAWAPAY" ELSE c.op.paymentMethod,
   mmo_provider |-> IF routed THEN c.op.code ELSE NoOperator]

(* The request to GeniusPay: with mmo_provider if the recipient's country   *)
(* is PawaPay's, else by the operator's method, else by the checkout page.  *)
buildPaymentRequest(total, c) ==
  LET routed == c.op # Checkout /\ c.supportsPawapay IN
  [amount |-> total,
   payment_method |-> IF routed THEN "PAWAPAY" ELSE c.op.paymentMethod,
   mmo_provider |-> IF routed THEN c.op.code ELSE NoOperator]

(* The rates are read, the row is inserted with its log, GeniusPay called.  *)
CreateRates ==
  /\ create.pc = "rates"
  /\ \E got \in Reads(Rates, create.early) :
       LET total == FeesOf(create.form.amount, create.form.recipient, got).total IN
       create' = [pc |-> "call", form |-> create.form, op |-> create.op,
                  expected |-> create.expected, steady |-> create.steady,
                  undisturbed |-> create.since = changes,
                  request |-> buildPaymentRequest(total, create)]
  /\ OnlyCreate

GatewayAccepts ==
  /\ create.pc = "call"
  /\ create' = [create EXCEPT !.pc = IF create.form.save THEN "exists" ELSE "answered"]
  /\ OnlyCreate

(* Any statement of create may fail, and GeniusPay may refuse. *)
CreateFails ==
  /\ NetFaults
  /\ create.pc \notin {"idle", "answered", "refused"}
  /\ create' = Refused
  /\ OnlyCreate

(* saveBeneficiary looks the number up ...                                  *)
Exists_byHandOnly(p) == saved[p].byHand > 0    \* a slip

Exists(p) == saved[p].sends + saved[p].byHand > 0

FindBeneficiary ==
  /\ create.pc = "exists"
  /\ create' = [create EXCEPT !.pc = IF Exists(create.form.phone) THEN "answered" ELSE "save"]
  /\ OnlyCreate

(* ... and inserts it. *)
SaveBeneficiary ==
  /\ create.pc = "save"
  /\ saved' = [saved EXCEPT ![create.form.phone].sends = @ + 1]
  /\ create' = [create EXCEPT !.pc = "answered"]
  /\ UNCHANGED <<pageVars, catVars>>

-----------------------------------------------------------------------------
(* beneficiaries.service.ts: create asks for no other row of the number;    *)
(* update and remove act on a row of the sender's.                          *)
AddBeneficiary(p) ==
  /\ Event
  /\ saved' = [saved EXCEPT ![p].byHand = @ + 1]
  /\ UNCHANGED <<pageVars, create, storeVars>>

UpdateBeneficiary(p, who, q) ==
  /\ saved[p][who] > 0
  /\ p # q /\ Event
  /\ saved' = [saved EXCEPT ![p][who] = @ - 1, ![q].byHand = @ + 1]
  /\ UNCHANGED <<pageVars, create, storeVars>>

RemoveBeneficiary(p, who) ==
  /\ saved[p][who] > 0 /\ Event
  /\ saved' = [saved EXCEPT ![p][who] = @ - 1]
  /\ UNCHANGED <<pageVars, create, storeVars>>

-----------------------------------------------------------------------------
Page ==
  \/ \E recipient \in Recipients, amount \in Amounts \cup {Empty} : Edit(recipient, amount)
  \/ \E phone \in Phone, operator \in Codes \cup {NoOperator} : Fill(phone, operator)
  \/ Send

Answers ==
  \/ ShowQuote \/ ShowQuoteError \/ Leave \/ SendError

Server ==
  \/ QuoteLimits \/ QuoteRates
  \/ ReadCountries \/ CreateLimits \/ ResolveOperator \/ DetectOperator \/ CreateRates
  \/ GatewayAccepts
  \/ FindBeneficiary \/ SaveBeneficiary \/ CreateFails \/ Orphaned

Beneficiaries ==
  \E p \in Phone :
    \/ AddBeneficiary(p)
    \/ \E who \in {"sends", "byHand"} :
         RemoveBeneficiary(p, who) \/ \E q \in Phone : UpdateBeneficiary(p, who, q)

Next ==
  \/ Page \/ AskQuote \/ Answers \/ Server \/ Beneficiaries
  \/ CatNext /\ UNCHANGED <<pageVars, create, saved>>

Spec == Init /\ [][Next]_vars

-----------------------------------------------------------------------------
(* When the page has nothing pending and shows no error, the quote it shows *)
(* is about the fields as they are: the debounce, the answers that arrive   *)
(* after the fields have changed, and the errors that keep an old quote     *)
(* never leave another one standing (page.tsx, lines 27 to 43).             *)
QuietQuoteIsCurrent ==
  Quiet /\ ~ page.sending /\ form.amount # Empty =>
    /\ page.shown # NotShown
    /\ page.shown.recipient = form.recipient /\ page.shown.amount = form.amount

InGateway == create.pc \in {"call", "exists", "save", "answered"}

(* What GeniusPay is asked for is the total the sender saw when they sent,  *)
(* if the page was quiet then and no setting has changed since the quote    *)
(* was asked for: quote and create compute alike from settings that each    *)
(* reads one by one.                                                        *)
ChargedAsShown ==
  InGateway /\ create.expected # -1 /\ create.undisturbed =>
    create.request.amount = create.expected

(* x is num / den within half a unit of the currency. *)
Near(x, num, den, currency) ==
  LET u == den * UnitOf(decimalsFor(currency)) IN 2 * den * x - 2 * num \in -u .. u

(* For the fields and the settings of the moment, each part of the quote is *)
(* within half a unit of what the rates say, and the total is exactly the   *)
(* sum of the parts shown above it (calculateTransferFees).                 *)
FeesAreRounded ==
  form.amount # Empty =>
    LET from == countries[Sender].currency
        to == countries[form.recipient].currency
        fees == calculateTransferFees(form.amount, from, to, settings)
        parts == fees.parts
        fx == estimateFxRate(from, to) IN
    /\ fees.total = parts.send + parts.commission + parts.fees
    /\ Near(parts.send, form.amount, 1, from)
    /\ Near(parts.commission, settings.percent * parts.send + 1000 * settings.fixed, 1000, from)
    /\ Near(parts.fees, settings.feeEstimate * parts.send, 1000, from)
    /\ Near(fees.receive, parts.send * fx.num, fx.den, to)

(* The operator paid out through is one of the recipient's country, though  *)
(* the page keeps an operator chosen for an earlier number                  *)
(* (resolveOperator, lines 363 to 377).                                     *)
OperatorServesRecipient ==
  InGateway /\ create.op # Checkout => create.op.code[2] = create.form.recipient

(* A payment through PawaPay names its provider, unless the seed was run    *)
(* again after a synchronisation had made an operator PawaPay's, or the     *)
(* catalogue was being written while create read it (buildPaymentRequest,   *)
(* lines 349 to 359; seed.ts; syncFromGeniusPay).                           *)
PawapayNamesProvider ==
  InGateway /\ create.request.payment_method = "PAWAPAY" /\ create.steady /\ reseeded # "reseeded" =>
    create.request.mmo_provider # NoOperator

(* However often a number is sent to, it is saved once: lookup and          *)
(* insertion of one request at a time (saveBeneficiary, lines 398 to 407).  *)
SavedOnce == \A p \in Phone : saved[p].sends <= 1

(* A country is active or not as the administrator last said, whatever the  *)
(* seed and the synchronisation write meanwhile.                            *)
ActivityIsAdmins ==
  \A i \in Iso2 : countries[i].exists => countries[i].isActive = switched[i]

-----------------------------------------------------------------------------
(* The inductive invariant. *)

IsRecord(r, fields) == DOMAIN r = fields /\ r = [x \in fields |-> r[x]]

(* What the page asks the quote about is what the fields say, unless the    *)
(* timer will ask again.                                                    *)
QuoteIsOfForm ==
  ~ page.timer /\ form.amount # Empty =>
    /\ quoting.pc \in {"limits", "rates", "answered"} =>
         quoting.recipient = form.recipient /\ quoting.amount = form.amount
    /\ quoting.pc = "idle" /\ ~ page.error /\ ~ page.sending =>
         /\ page.shown # NotShown
         /\ page.shown.recipient = form.recipient /\ page.shown.amount = form.amount

PageShape ==
  /\ form \in Form
  /\ IsRecord(page, {"shown", "error", "timer", "sending"})
  /\ quoting.pc \in {"idle", "limits", "rates", "answered", "refused"}
  /\ quoting.pc \in {"limits", "rates"} =>
       IsRecord(quoting, {"pc", "recipient", "amount", "early", "since"})

(* The operator resolved is the recipient's, from when it is known; what    *)
(* saveBeneficiary is about to insert, no other transfer has.               *)
CreateShape ==
  /\ IsRecord(create, DOMAIN create) /\ "pc" \in DOMAIN create
  /\ create.pc \notin {"idle", "refused", "countries"} => {"form", "op"} \subseteq DOMAIN create
  /\ create.pc \notin {"idle", "refused", "countries"} /\ create.op # Checkout =>
       create.op.code[2] = create.form.recipient
  /\ create.pc = "save" /\ create.form.phone \in Phone => saved[create.form.phone].sends = 0

(* A country that the tables lack was never switched. *)
TablesShape ==
  /\ saved \in [Phone -> [sends : Nat, byHand : Nat]] /\ SavedOnce
  /\ settings \in [{"percent", "fixed", "feeEstimate", "min", "max"} -> Nat]
  /\ switched \in [Iso2 -> BOOLEAN]
  /\ IsRecord(countries, Iso2)
  /\ \A i \in Iso2 :
       /\ IsRecord(countries[i], DOMAIN countries[i])
       /\ {"exists"} \subseteq DOMAIN countries[i] /\ countries[i].exists \in BOOLEAN
       /\ IF countries[i].exists
            THEN "isActive" \in DOMAIN countries[i] /\ countries[i].isActive = switched[i]
            ELSE switched[i] = TRUE

IInv == PageShape /\ QuoteIsOfForm /\ CreateShape /\ TablesShape
=============================================================================
