----------------------------- MODULE ShareMarket ----------------------------
(***************************************************************************)
(* One provider's revenue share with an offering that sells part of it and *)
(* a wrapper that holds part of it.  Both hold RS like anybody else, and   *)
(* earn on it, but are no one's account: RS and dividends leave them only  *)
(* by their own functions.                                                 *)
(***************************************************************************)
EXTENDS InitialAPIOffering, WrappedRevenueShare

\* The offering and the wrapper call no function of one another.
ASSUME MarketAssumption ==
    /\ OfferingAddr # WrapperAddr
    /\ OfferingAddr \notin Wrappers
    /\ WrapperAddr \notin Backers

marketVars == <<shareVars, offeringVars, wrapperVars>>

MarketInit == ShareInit /\ OfferingInit /\ WrapperInit

MarketNext ==
    \/ ShareNext /\ UNCHANGED <<offeringVars, wrapperVars>>
    \/ OfferingNext /\ UNCHANGED wrapperVars
    \/ WrapperNext /\ UNCHANGED offeringVars

MarketSpec == MarketInit /\ [][MarketNext]_marketVars

(***************************************************************************)
(* finalize and cancel are open to anyone and every backer gains from one  *)
(* of them; a backer collects what it is entitled to; time passes.         *)
(***************************************************************************)
MarketFairness ==
    /\ WF_marketVars(Finalize /\ UNCHANGED wrapperVars)
    /\ WF_marketVars(Cancel /\ UNCHANGED wrapperVars)
    /\ WF_marketVars(Tick /\ UNCHANGED <<offeringVars, wrapperVars>>)
    /\ \A b \in Backers :
          /\ WF_marketVars(Refund(b) /\ UNCHANGED wrapperVars)
          /\ WF_marketVars((\E n \in TokenAmounts : ClaimRS(b, n)) /\ UNCHANGED wrapperVars)

FairMarketSpec == MarketSpec /\ MarketFairness
=============================================================================
