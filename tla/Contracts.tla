---------------------------------- MODULE Contracts ----------------------------------
(***************************************************************************)
(* What a signal on an index is traded as: the instruments and strategies  *)
(* that are switched on (engine/state.py, engine/strategy_config.py), the  *)
(* lot sizes synced from the broker (broker/instrument_sync.py), the       *)
(* expiry chain and the contract resolved from it (engine/contract.py,     *)
(* domain/symbols.py), over days, restarts and a broker that may fail.     *)
(*                                                                         *)
(* A day is a number, its weekday the remainder by 7; a contract is named  *)
(* by its underlying, expiry and strike.                                   *)
(***************************************************************************)
EXTENDS Integers, Sequences, FiniteSets, FiniteSetsExt

CONSTANTS
  Underlyings, Weekday,        \* the four indices; their weekday of expiry
  OptionExpiries,              \* the days an option of the underlying really expires, as the broker lists them
  MonthEnds, LastDay,
  BrokerLots,                  \* the lot sizes an underlying has from a day on: rows [under, from, lot]
  SeedLot, SeedActive,         \* paper_cycle_lot_size, paper_cycle_instruments
  Strategies, Tradeable, SeedEnabled,
  Strikes, Quotes,             \* what option_symbol and quotes may answer
  MinPremium, MaxSpreadPct

(* One weekday an index, the weekly's or the monthly's; the contract limits *)
(* of settings.py.                                                          *)
ExpiryWeekday == [Underlyings -> 0..6]
ContractLimits == MinPremium \in Nat /\ MaxSpreadPct \in Nat

(* Only orb is on by default (DEFAULT_ENABLED), and a lot size that is not   *)
(* positive is refused before it is stored (symbol_meta).                   *)
DefaultTrades == SeedEnabled \subseteq Tradeable /\ Tradeable \subseteq Strategies
LotsAreUsable ==
  /\ BrokerLots \subseteq [under : Underlyings, from : Nat, lot : Nat \ {0}]
  /\ \A u \in Underlyings : \E row \in BrokerLots : row.under = u /\ row.from <= 1

ASSUME ContractAssumption == /\ Weekday \in ExpiryWeekday /\ ContractLimits /\ LastDay \in Nat \ {0} /\ SeedLot \in Nat
                             /\ SeedActive \subseteq Underlyings /\ DefaultTrades /\ LotsAreUsable

VARIABLES today, chains, rows, saved, enabled, resolved, band, told
contractVars == <<today, chains, rows, saved, enabled, resolved, band, told>>

Nothing == [symbol |-> <<>>]
Refused == {}
NothingStored == {"nothing stored"}

ContractInit ==
  /\ today = 1 /\ chains = <<>> /\ rows = {}
  /\ saved = {} /\ enabled = NothingStored
  /\ resolved = Nothing /\ band = {}
  /\ told = [u \in Underlyings |-> 0]

-----------------------------------------------------------------------------
(* symbols.py: expiries by arithmetic, for the futures only.                *)

LastWeekday(end, weekday) == end - ((end - weekday) % 7)
NextMonthly(u, day) ==
  LET ends == {e \in MonthEnds : e >= day}
      candidate == LastWeekday(Min(ends), Weekday[u])
  IN IF candidate >= day THEN candidate ELSE LastWeekday(Min(ends \ {Min(ends)}), Weekday[u])

(* The broker.                                                              *)
LotAt(u, day) == (CHOOSE row \in BrokerLots : row.under = u /\ row.from <= day /\
                    \A other \in BrokerLots : other.under = u /\ other.from <= day => other.from <= row.from).lot
Listed(u, day) == {e \in OptionExpiries[u] : e >= day}

-----------------------------------------------------------------------------
(* sync_instruments: a row replaces the one of its symbol.                  *)
Upserted(new) == {r \in rows : r.symbol \notin {row.symbol : row \in new}} \cup new

(* _run_instrument_sync: one future of every underlying, each on its own;   *)
(* an answer without a lot is none.                                         *)
Sync ==
  \E reached \in SUBSET Underlyings :
    LET new == {[symbol |-> <<u, NextMonthly(u, today)>>, under |-> u, lot |-> LotAt(u, today), at |-> today] : u \in reached}
    IN /\ rows' = Upserted(new)
       /\ told' = [u \in Underlyings |-> IF u \in reached THEN LotAt(u, today) ELSE told[u]]
       /\ UNCHANGED <<today, chains, saved, enabled, resolved, band>>

LatestLot(u) ==
  LET mine == {r \in rows : r.under = u}
  IN IF mine = {} THEN 0 ELSE (CHOOSE r \in mine : \A s \in mine : s.at <= r.at).lot

(* The selections as read: the synced lot, or nothing traded without one.   *)
Seeds == {[under |-> u, lot |-> SeedLot, active |-> u \in SeedActive] : u \in Underlyings}
WithRealLot(sel) ==
  LET real == LatestLot(sel.under)
  IN IF real # 0 THEN [sel EXCEPT !.lot = real] ELSE [sel EXCEPT !.active = FALSE]
Selections == {WithRealLot(sel) : sel \in IF saved = {} THEN Seeds ELSE saved}

(* All or nothing: one bad entry and the former choice stands.              *)
Select ==
  \E active \in SUBSET Underlyings, lot \in {0, SeedLot} :
    /\ saved' = IF lot <= 0 THEN saved ELSE {[under |-> u, lot |-> lot, active |-> u \in active] : u \in Underlyings}
    /\ UNCHANGED <<today, chains, rows, enabled, resolved, band, told>>

(* What is switched on, the default until something is stored.              *)
EnabledStrategies == IF enabled = NothingStored THEN SeedEnabled ELSE enabled \cap Strategies

Toggle ==
  /\ \E name \in Strategies, on \in BOOLEAN :
       enabled' = IF on /\ name \notin Tradeable THEN enabled
                  ELSE IF on THEN EnabledStrategies \cup {name} ELSE EnabledStrategies \ {name}
  /\ UNCHANGED <<today, chains, rows, saved, resolved, band, told>>

-----------------------------------------------------------------------------
(* The chain of an underlying, asked once a day and kept unless empty.      *)
KeyOfUnderlying(u) == <<u, 0>>    \* a slip of the key
ChainKey(u) == <<u, today>>

Chain(u, answer) == IF ChainKey(u) \in DOMAIN chains THEN chains[ChainKey(u)] ELSE answer
Kept(u, answer) ==
  IF answer = {} THEN chains
  ELSE [key \in DOMAIN chains \cup {ChainKey(u)} |-> IF key \in DOMAIN chains THEN chains[key] ELSE answer]

(* `expiry_dates` for the rules that ask whether it is a day of expiry.     *)
IsExpiryDay(u, answer) == today \in Chain(u, answer)

Tradable(q) ==
  /\ q.premium >= MinPremium
  /\ q.bid > 0 /\ q.ask >= q.bid
  /\ (q.ask - q.bid) * 100 <= MaxSpreadPct * q.premium

(* optionsymbol: the contract of an offset, when there is one.              *)
OptionSymbol(u, expiry, strike) == IF strike = 0 THEN Refused ELSE {<<u, expiry, strike>>}

(* One firing of an enabled strategy on an active instrument.  The broker   *)
(* may answer no chain, an empty one, no contract or no quote.              *)
Contract(sel, expiry, strike, q) ==
  IF OptionSymbol(sel.under, expiry, strike) = Refused \/ ~Tradable(q) THEN Nothing
  ELSE [symbol |-> CHOOSE c \in OptionSymbol(sel.under, expiry, strike) : TRUE,
        lot |-> LotAt(sel.under, today), quote |-> q, sized |-> sel.lot, on |-> today]
Resolve ==
  /\ EnabledStrategies # {}
  /\ \E sel \in Selections :
       /\ sel.active
       /\ \E answer \in {Listed(sel.under, today), Refused} :
            LET chain == Chain(sel.under, answer)
            IN /\ chains' = Kept(sel.under, answer)
               /\ resolved' \in IF chain = {} THEN {Nothing}
                                ELSE {Contract(sel, Min(chain), strike, q) : strike \in Strikes \cup {0}, q \in Quotes}
  /\ UNCHANGED <<today, rows, saved, enabled, band, told>>

(* The strikes to record, at the recorder's start: what resolved, once each.*)
StrikeBand(u, chain, answered) == UNION {OptionSymbol(u, Min(chain), strike) : strike \in answered}
Record ==
  \E reached \in SUBSET Underlyings :
    LET Answer(u) == IF u \in reached THEN Listed(u, today) ELSE {}
        with == {u \in Underlyings : Chain(u, Answer(u)) # {}}
        new == {u \in reached : Listed(u, today) # {}}
    IN /\ chains' = [key \in DOMAIN chains \cup {ChainKey(u) : u \in new} |->
                       IF key \in DOMAIN chains THEN chains[key] ELSE Listed(key[1], today)]
       /\ band' \in {UNION {StrikeBand(u, Chain(u, Answer(u)), answered) : u \in with} :
                      answered \in SUBSET (Strikes \cup {0})}
       /\ UNCHANGED <<today, rows, saved, enabled, resolved, told>>

Restart ==
  /\ chains' = <<>> /\ resolved' = Nothing /\ band' = {}
  /\ UNCHANGED <<today, rows, saved, enabled, told>>

NextDay ==
  /\ today < LastDay
  /\ today' = today + 1 /\ resolved' = Nothing /\ band' = {}
  /\ UNCHANGED <<chains, rows, saved, enabled, told>>

ContractNext == Sync \/ Select \/ Toggle \/ Resolve \/ Record \/ Restart \/ NextDay

ContractSpec == ContractInit /\ [][ContractNext]_contractVars

-----------------------------------------------------------------------------
(* What is traded and what is recorded is of the nearest expiry the broker  *)
(* lists on that day, whatever was cached before.                           *)
OfTodaysChain ==
  \A symbol \in band \cup (IF resolved = Nothing THEN {} ELSE {resolved.symbol}) :
    symbol[2] = Min(Listed(symbol[1], today))

(* An instrument trades only on a lot size the broker gave, the last it     *)
(* gave, through months whose futures differ and syncs that fail.           *)
LotIsConfirmed == \A sel \in Selections : sel.active => sel.lot = told[sel.under] /\ sel.lot > 0

(* The control every strategy is measured against never trades.             *)
ControlNeverTrades == EnabledStrategies \subseteq Tradeable

InstrumentSelection == [under : Underlyings, lot : Nat, active : BOOLEAN]
ContractTypeOK == /\ saved \subseteq InstrumentSelection /\ Selections \subseteq InstrumentSelection
                  /\ today \in 1..LastDay /\ told \in [Underlyings -> Nat]

TradedIsConfirmed == ContractTypeOK /\ OfTodaysChain /\ LotIsConfirmed /\ ControlNeverTrades
=============================================================================
