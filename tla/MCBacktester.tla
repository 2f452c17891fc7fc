---------------------------- MODULE MCBacktester ----------------------------
(* Model-checking instance of Backtester: two backtest uuids, one SimBroker *)
(* uuid, one symbol, and three definitions: a tick-count limit and a        *)
(* timestamp limit to a sink, and an unlimited one to the SimBroker.        *)
EXTENDS Backtester

CONSTANTS b1, b2, sb1, sym

MCBacktests == {b1, b2}
MCSimBrokers == {sb1}

MCDefs ==
    { [maxN |-> 2, maxTs |-> NoLimit, dest |-> Sink, symbol |-> sym],
      [maxN |-> NoLimit, maxTs |-> 2, dest |-> Sink, symbol |-> sym],
      [maxN |-> NoLimit, maxTs |-> NoLimit, dest |-> sb1, symbol |-> sym] }


=============================================================================
