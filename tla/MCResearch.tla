------------------------------- MODULE MCResearch -------------------------------
(***************************************************************************)
(* What a trade rests on, for TLC: its numbers (Sizing), its contract and  *)
(* its signal, the labels and models learned from the archive, the labs    *)
(* that replay it and the evening's audit.  They share no state, so a      *)
(* behaviour is of one of them, `bench`, and the others stay put.          *)
(***************************************************************************)
EXTENDS Sizing, Contracts, Signals, Labels, Training, Audit, Lab, Structures, Archive, Features,
        Maturity

CONSTANT Benches

VARIABLE bench

-----------------------------------------------------------------------------
(* Sizing: amounts in paise, rates in 1/100 000, per cents as they are.     *)
Rates(from, order, stt, exercise, exch) ==
  [from |-> from, order |-> order, stt |-> stt, exercise |-> exercise, exch |-> exch, sebi |-> 1, gst |-> 18, stamp |-> 3]
MCRateTable == {Rates(1, 2000, 100, 125, [NFO |-> 35, BFO |-> 33]), Rates(3, 2000, 150, 150, [NFO |-> 36, BFO |-> 33])}
MCPremiums == {500, 1000, 2200, 16680} \cup {4150 + 36 * i : i \in 0..15} \cup {8100 + 51 * i : i \in 0..15}

(* Contracts: two indices, an expiry on day 1, a lot that changes on day 2. *)
MCWeekday == [nifty |-> 1, sensex |-> 3]
MCExpiries == [nifty |-> {1, 8}, sensex |-> {3, 10}]
LotFrom(u, day, lot) == [under |-> u, from |-> day, lot |-> lot]
MCLots == {LotFrom("nifty", 1, 75), LotFrom("nifty", 2, 65), LotFrom("sensex", 1, 20)}
Quote(premium, bid, ask) == [premium |-> premium, bid |-> bid, ask |-> ask]
MCQuotes == {Quote(300, 299, 301), Quote(600, 598, 602), Quote(600, 590, 610), Quote(600, 602, 598)}

(* Signals: a quiet bar, a burst up, a fall, after three yesterdays.        *)
Shape(o, h, l, c) == [o |-> o, h |-> h, l |-> l, c |-> c, v |-> 0]
MCShapes == {Shape(20, 21, 19, 20), Shape(20, 24, 20, 23), Shape(20, 20, 16, 17)}
MCYesterdays == {<<>>, [h |-> 22, l |-> 18, c |-> 19], [h |-> 23, l |-> 21, c |-> 22]}
MCCoin == <<"call", "put", "skip", "call", "put", "skip", "call">>

(* Labels: minutes of the index and of the option bought.                   *)
Traded(h, l, oh, ol, oc) == [h |-> h, l |-> l, oh |-> oh, ol |-> ol, oc |-> oc]
MCMinutes == {Traded(3, 0, 20, 11, 12), Traded(4, -4, 11, 9, 10)}
Evaluated(close, low, high) == [verdict |-> "traded", passed |-> TRUE, close |-> close, low |-> low, high |-> high]
MCEvaluations == {Evaluated(1, -1, 0), Evaluated(2, 3, 4)}
MCSnapshot == [premium |-> 10, delta |-> 100, stop |-> 2, target |-> 1]
MCEraCost == <<1, 2>>
MCListed == <<{}, {0, 2}>>

(* Training: how much later a firing is than the last, and how long it runs.*)
Row(later, lasts, y) == [later |-> later, lasts |-> lasts, y |-> y]
MCGrids == [xgboost |-> {"shallow", "deep"}, tabicl |-> {"sharp", "flat"}]
MCRows == {Row(1, 1, 0), Row(0, 2, 1), Row(2, 1, 1)}

MCTradeNets == {-2, 1}
MCMarks == {-3, 0}
InstrumentsAreAlike == Permutations(Instruments)
MCSharpes == {-1, 1}
MCOutcomes == {[lasts |-> 1, net |-> 4, unit |-> 4], [lasts |-> 2, net |-> -3, unit |-> 3]}

(* Structures: chains with a hole, an empty near expiry, an odd strike.     *)
Legs(c, p, cw, pw) == [call |-> c, put |-> p, callWing |-> cw, putWing |-> pw]
Strip(calls, puts) == [calls |-> calls, puts |-> puts]
MCChains == {<<Strip({0, 4, 8, 12}, {0, 4, 8, 12})>>, <<Strip({}, {0, 4, 8}), Strip({4, 8, 12}, {4, 8})>>,
             <<Strip({4, 8, 16}, {0, 4, 8}), Strip({4, 8, 12}, {0, 4, 8})>>, <<Strip({4, 8, 12}, {0, 8, 12})>>}
MCLegQuotes == {Legs(3, 2, 1, 1), Legs(2, 2, 1, 1), Legs(4, 3, 1, 1), Legs(1, 1, 1, 1), Legs(3, 2, 0, 1)}
MCPrints == {Legs(1, 1, 1, 1), Legs(6, 1, 2, 1), Legs(2, 3, 0, 1), Legs(1, 5, 1, 1), Legs(1, 0, 1, 1), Legs(2, 4, 1, 2)}

(* Archive: a contract and the index files of two expiries that overlap.    *)
Inside(key, symbol, minutes, spot) == [key |-> key, symbol |-> symbol, minutes |-> minutes, spot |-> spot]
MCInner == <<Inside("call", "call", {0, 2}, FALSE), Inside("spot1", "nifty", {0, 2}, TRUE), Inside("spot2", "nifty", {1, 2, 3}, TRUE)>>

(* Features: a gap of days without a session, a calendar that has changed.  *)
MCCloseOf == [vix |-> <<3, 1, 2, 2, 2>>, index |-> <<5, 6, 5, 7, 7>>]
MCExpiryCalendar == <<3, 3, 3, 5, 5>>

-----------------------------------------------------------------------------
ResearchInit ==
  /\ bench \in Benches
  /\ SizingInit /\ ContractInit /\ LabelInit /\ TrainingInit /\ AuditInit /\ ArchiveInit /\ FeatureInit /\ MaturityInit
  /\ LabInit /\ (bench # "lab" => compound = FALSE)
  /\ StructureInit /\ (bench # "structures" => fraction = 0)
  /\ SignalInit /\ (bench # "signals" => previous = <<>>)
  /\ (bench # "labels" => stocked = NothingStocked)

ResearchNext ==
  /\ UNCHANGED bench
  /\ \/ bench = "sizing" /\ SizingNext
          /\ UNCHANGED <<contractVars, signalVars, labelVars, trainingVars, auditVars, labVars, structureVars, archiveVars, featureVars, maturityVars>>
     \/ bench = "contracts" /\ ContractNext
          /\ UNCHANGED <<sizingVars, signalVars, labelVars, trainingVars, auditVars, labVars, structureVars, archiveVars, featureVars, maturityVars>>
     \/ bench = "signals" /\ SignalNext
          /\ UNCHANGED <<sizingVars, contractVars, labelVars, trainingVars, auditVars, labVars, structureVars, archiveVars, featureVars, maturityVars>>
     \/ bench = "labels" /\ LabelNext
          /\ UNCHANGED <<sizingVars, contractVars, signalVars, trainingVars, auditVars, labVars, structureVars, archiveVars, featureVars, maturityVars>>
     \/ bench = "training" /\ TrainingNext
          /\ UNCHANGED <<sizingVars, contractVars, signalVars, labelVars, auditVars, labVars, structureVars, archiveVars, featureVars, maturityVars>>
     \/ bench = "audit" /\ AuditNext
          /\ UNCHANGED <<sizingVars, contractVars, signalVars, labelVars, trainingVars, labVars, structureVars, archiveVars, featureVars, maturityVars>>
     \/ bench = "lab" /\ LabNext
          /\ UNCHANGED <<sizingVars, contractVars, signalVars, labelVars, trainingVars, auditVars, structureVars, archiveVars, featureVars, maturityVars>>
     \/ bench = "structures" /\ StructureNext
          /\ UNCHANGED <<sizingVars, contractVars, signalVars, labelVars, trainingVars, auditVars, labVars, archiveVars, featureVars, maturityVars>>
     \/ bench = "archive" /\ ArchiveNext
          /\ UNCHANGED <<sizingVars, contractVars, signalVars, labelVars, trainingVars, auditVars, labVars, structureVars, featureVars, maturityVars>>
     \/ bench = "features" /\ FeatureNext
          /\ UNCHANGED <<sizingVars, contractVars, signalVars, labelVars, trainingVars, auditVars, labVars, structureVars, archiveVars, maturityVars>>
     \/ bench = "maturity" /\ MaturityNext
          /\ UNCHANGED <<sizingVars, contractVars, signalVars, labelVars, trainingVars, auditVars, labVars, structureVars, archiveVars, featureVars>>

ResearchSpec == ResearchInit /\ [][ResearchNext]_<<bench, sizingVars, contractVars, signalVars, labelVars, trainingVars, auditVars, labVars, structureVars, archiveVars, featureVars, maturityVars>>

=================================================================================
