------------------------------- MODULE Catalog -------------------------------
(***************************************************************************)
(* Countries, operators and settings: the tables, the seed that fills them *)
(* (src/backend/prisma), the synchronisation with GeniusPay                *)
(* (countries/operators.service.ts), what the administrator changes, and   *)
(* the lookups (countries/countries.service.ts).                           *)
(*                                                                         *)
(* Seed and synchronisation are sequences of upserts, each a statement of  *)
(* its own: other requests read the tables in between, and a failure       *)
(* leaves them half done.  An operator's code is its brand and country     *)
(* (ORANGE_CIV: ORANGE in CI).                                             *)
(***************************************************************************)
EXTENDS Integers, Sequences, FiniteSets

CONSTANTS
  Seeded,        \* iso2 of the countries of the seed that are kept
  Listing,       \* what GET /pawapay/providers answers: countries in order, each
                 \* with its iso2, currency and ops, of which only the brand
  CatalogOps,    \* what happens to the tables: "sync", "seed", "switch"
  Changes,       \* the settings the administrator writes: <<key, value>>
  MaxEvents,     \* bound: edits of the sender, changes by anyone else
  CatalogFaults  \* whether an upsert may fail

VARIABLES
  countries,   \* the table: rows by iso2
  operators,   \* the table: rows by code
  settings,    \* the table: values by key
  upserts,     \* what the seed or the synchronisation under way still writes
  switched,    \* history: what the administrator last set isActive to
  reseeded,    \* history: whether the seed was run again after a synchronisation
  changes,     \* history: how many times a setting was written
  events       \* how many there have been

storeVars == <<countries, operators, settings, upserts, switched, reseeded, changes>>
catVars == <<storeVars, events>>

-----------------------------------------------------------------------------
(* prisma/seed-data.ts *)

Operator(brand, paymentMethod) == [brand |-> brand, paymentMethod |-> paymentMethod]
orange == Operator("ORANGE", "ORANGE_MONEY")
mtn == Operator("MTN_MOMO", "MTN_MONEY")
moov == Operator("MOOV", "MOOV_MONEY")
wave == Operator("WAVE", "WAVE")
airtel == Operator("AIRTEL", "AIRTEL_MONEY")
pawapay(brand) == Operator(brand, "PAWAPAY")

Country(iso2, currency, supportsPawapay, ops) ==
  [iso2 |-> iso2, currency |-> currency, supportsPawapay |-> supportsPawapay, ops |-> ops]

COUNTRIES == <<
  Country("CI", "XOF", TRUE, <<orange, mtn, moov, wave>>),
  Country("SN", "XOF", TRUE, <<orange, pawapay("FREE"), wave>>),
  Country("BJ", "XOF", TRUE, <<mtn, moov>>),
  Country("TG", "XOF", FALSE, <<moov, Operator("TMONEY", "MTN_MONEY")>>),
  Country("BF", "XOF", FALSE, <<orange, moov>>),
  Country("ML", "XOF", FALSE, <<orange, moov>>),
  Country("NE", "XOF", FALSE, <<orange, airtel, moov>>),
  Country("CM", "XAF", TRUE, <<mtn, orange>>),
  Country("CG", "XAF", TRUE, <<airtel, mtn>>),
  Country("CD", "CDF", TRUE, <<airtel, orange, pawapay("VODACOM_MPESA")>>),
  Country("GA", "XAF", TRUE, <<airtel>>),
  Country("CF", "XAF", FALSE, <<orange, Operator("TELECEL", "MOOV_MONEY")>>),
  Country("KE", "KES", TRUE, <<pawapay("MPESA")>>),
  Country("RW", "RWF", TRUE, <<airtel, mtn>>),
  Country("SL", "SLE", TRUE, <<orange>>),
  Country("UG", "UGX", TRUE, <<airtel, mtn>>),
  Country("ZM", "ZMW", TRUE, <<mtn, pawapay("ZAMTEL")>>) >>

ASSUME SeededAssumption == Seeded \subseteq {COUNTRIES[n].iso2 : n \in DOMAIN COUNTRIES}

CURRENCIES == {"XOF", "XAF", "CDF", "USD", "KES", "RWF", "SLE", "UGX", "ZMW", "EUR"}

(* The values of seedSettings: amounts in hundredths, percentages in tenths *)
(* (see TransferFees).                                                      *)
SETTINGS == [percent |-> 20, fixed |-> 10000, feeEstimate |-> 25,
             min |-> 20000, max |-> 200000000]

ASSUME ListingAssumption == DOMAIN Listing = 1..Len(Listing)

-----------------------------------------------------------------------------
(* The tables.  callingCode is null in the rows a synchronisation creates.  *)
NoRow == [exists |-> FALSE]

(* The upserts of the chosen countries of a list, in the order of the list: *)
(* each country is item 0, and its operators follow.                        *)
UpsertsOf(source, list, chosen) ==
  UNION {{[source |-> source, country |-> n, item |-> m] : m \in 0..Len(list[n].ops)} :
           n \in chosen}

SeedUpserts ==
  UpsertsOf("seed", COUNTRIES, {n \in DOMAIN COUNTRIES : COUNTRIES[n].iso2 \in Seeded})
SyncUpserts == UpsertsOf("sync", Listing, DOMAIN Listing)

(* seedSettings, at the end, writes the value too, over the administrator's. *)
SettingKeys == <<"percent", "fixed", "feeEstimate", "min", "max">>
SettingUpserts ==
  {[source |-> "settings", country |-> Len(COUNTRIES) + 1, item |-> m] : m \in DOMAIN SettingKeys}

(* What an upsert is about. *)
RowOf(u) == IF u.source = "sync" THEN Listing[u.country] ELSE COUNTRIES[u.country]
OperatorOf(u) == RowOf(u).ops[u.item]
CodeOf(u) == <<OperatorOf(u).brand, RowOf(u).iso2>>

Iso2 == Seeded \cup {Listing[n].iso2 : n \in DOMAIN Listing}
Brands == {OperatorOf(u).brand : u \in {v \in SeedUpserts \cup SyncUpserts : v.item > 0}}
Codes == Brands \X Iso2

inferMethod(brand) ==
  CASE brand = "WAVE"     -> "WAVE"
    [] brand = "ORANGE"   -> "ORANGE_MONEY"
    [] brand = "MTN_MOMO" -> "MTN_MONEY"
    [] brand = "MOOV"     -> "MOOV_MONEY"
    [] brand = "AIRTEL"   -> "AIRTEL_MONEY"
    [] OTHER              -> "PAWAPAY"

(* A slip: the synchronisation forgets supportsPawapay in its update.       *)
CountryWritten_oldPawapay(u, old) ==
  [exists |-> TRUE, currency |-> RowOf(u).currency,
   supportsPawapay |-> IF u.source = "sync" THEN ~ old.exists \/ old.supportsPawapay
                                            ELSE RowOf(u).supportsPawapay,
   callingCode |-> u.source = "seed" \/ (old.exists /\ old.callingCode),
   isActive |-> IF old.exists THEN old.isActive ELSE TRUE]

(* Another: an upsert puts the default of isActive back.                    *)
CountryWritten_active(u, old) ==
  [exists |-> TRUE, currency |-> RowOf(u).currency,
   supportsPawapay |-> u.source = "sync" \/ RowOf(u).supportsPawapay,
   callingCode |-> u.source = "seed" \/ (old.exists /\ old.callingCode),
   isActive |-> TRUE]

(* Both upserts of a country leave isActive alone; the synchronisation sets *)
(* supportsPawapay, whatever the seed said, and knows no calling code.      *)
CountryWritten(u, old) ==
  [exists |-> TRUE, currency |-> RowOf(u).currency,
   supportsPawapay |-> u.source = "sync" \/ RowOf(u).supportsPawapay,
   callingCode |-> u.source = "seed" \/ (old.exists /\ old.callingCode),
   isActive |-> IF old.exists THEN old.isActive ELSE TRUE]

(* The method of a synchronised operator is inferred from its code,         *)
(* whatever the row held.                                                   *)
OperatorWritten(u) ==
  [exists |-> TRUE,
   paymentMethod |-> IF u.source = "sync" THEN inferMethod(OperatorOf(u).brand)
                                          ELSE OperatorOf(u).paymentMethod]

(* The seed has been run once. *)
SeedOf(i) == {u \in SeedUpserts : u.item = 0 /\ RowOf(u).iso2 = i}
SeedOperator(k) == {u \in SeedUpserts : u.item > 0 /\ CodeOf(u) = k}

CatInit ==
  /\ countries = [i \in Iso2 |->
       IF SeedOf(i) = {} THEN NoRow ELSE CountryWritten(CHOOSE u \in SeedOf(i) : TRUE, NoRow)]
  /\ operators = [k \in Codes |->
       IF SeedOperator(k) = {} THEN NoRow ELSE OperatorWritten(CHOOSE u \in SeedOperator(k) : TRUE)]
  /\ settings = SETTINGS
  /\ upserts = {}
  /\ switched = [i \in Iso2 |-> TRUE]
  /\ reseeded = "never synced"
  /\ changes = 0
  /\ events = 0

-----------------------------------------------------------------------------
Event == events < MaxEvents /\ events' = events + 1

(* syncFromGeniusPay: GeniusPay has answered, the loop begins.              *)
SyncStart ==
  /\ "sync" \in CatalogOps /\ Event
  /\ upserts = {} /\ reseeded = "never synced"
  /\ upserts' = SyncUpserts
  /\ reseeded' = "synced"
  /\ UNCHANGED <<countries, operators, settings, switched, changes>>

(* npm run seed, again.                                                     *)
SeedStart ==
  /\ "seed" \in CatalogOps /\ Event
  /\ upserts = {} /\ reseeded # "reseeded"
  /\ upserts' = SeedUpserts \cup SettingUpserts
  /\ reseeded' = IF reseeded = "synced" THEN "reseeded" ELSE reseeded
  /\ UNCHANGED <<countries, operators, settings, switched, changes>>

(* An upsert is due when those before it have been made. *)
Due(u) ==
  \A v \in upserts : u.country < v.country \/ (u.country = v.country /\ u.item <= v.item)

Made(u) == Due(u) /\ upserts' = upserts \ {u}

UpsertCountry ==
  \E u \in upserts :
    /\ Made(u)
    /\ u.source # "settings" /\ u.item = 0
    /\ RowOf(u).currency \in CURRENCIES
    /\ countries' = [countries EXCEPT ![RowOf(u).iso2] = CountryWritten(u, @)]
    /\ UNCHANGED <<operators, settings, switched, reseeded, changes, events>>

UpsertOperator ==
  \E u \in upserts :
    /\ Made(u)
    /\ u.source # "settings" /\ u.item > 0
    /\ operators' = [operators EXCEPT ![CodeOf(u)] = OperatorWritten(u)]
    /\ UNCHANGED <<countries, settings, switched, reseeded, changes, events>>

UpsertSetting ==
  \E u \in upserts : LET key == SettingKeys[u.item] IN
    /\ Made(u)
    /\ u.source = "settings"
    /\ settings' = [settings EXCEPT ![key] = SETTINGS[key]]
    /\ changes' = IF settings[key] = SETTINGS[key] THEN changes ELSE changes + 1
    /\ UNCHANGED <<countries, operators, switched, reseeded, events>>

(* A currency that the table currencies lacks breaks the foreign key, or    *)
(* the process dies: the rest is not written.                               *)
UpsertFails ==
  /\ \E u \in upserts :
       /\ Due(u)
       /\ \/ CatalogFaults
          \/ u.source # "settings" /\ u.item = 0 /\ RowOf(u).currency \notin CURRENCIES
  /\ upserts' = {}
  /\ UNCHANGED <<countries, operators, settings, switched, reseeded, changes, events>>

setCountryActive(i, isActive) ==
  /\ "switch" \in CatalogOps /\ Event
  /\ countries[i].exists /\ countries[i].isActive # isActive
  /\ countries' = [countries EXCEPT ![i].isActive = isActive]
  /\ switched' = [switched EXCEPT ![i] = isActive]
  /\ UNCHANGED <<operators, settings, upserts, reseeded, changes>>

updateSetting(key, value) ==
  /\ Event
  /\ settings[key] # value
  /\ settings' = [settings EXCEPT ![key] = value]
  /\ changes' = changes + 1
  /\ UNCHANGED <<countries, operators, upserts, switched, reseeded>>

CatNext ==
  \/ SyncStart \/ SeedStart \/ UpsertFails
  \/ UpsertCountry \/ UpsertOperator \/ UpsertSetting
  \/ \E change \in Changes : updateSetting(change[1], change[2])
  \/ \E i \in Iso2, isActive \in BOOLEAN : setCountryActive(i, isActive)

-----------------------------------------------------------------------------
(* The lookups.  getByIso2 does not ask whether the country is active; the  *)
(* calling codes all have three digits, so that one at most matches.        *)
listActive == {i \in Iso2 : countries[i].exists /\ countries[i].isActive}
getOperators(i) == {k \in Codes : k[2] = i /\ operators[k].exists}

(* dialled: the country whose calling code the number begins with.          *)
detectByPhone(dialled) ==
  {i \in listActive : i = dialled /\ countries[i].callingCode}
=============================================================================
