----------------------------- MODULE MCServices -----------------------------
(***************************************************************************)
(* Small instances of components with goroutines that have to get on and   *)
(* that do not share state: one behaviour is one of one component, which   *)
(* service says which, under that component's fairness; the variables of   *)
(* the others keep their initial values.                                   *)
(***************************************************************************)
EXTENDS Semaphore, IndexHandler, ConnectionPromotion, PullDispatch

VARIABLE service

serviceVars == <<service, vars, handlerVars, promotionVars,
                 dispatchVars>>

ServicesInit ==
    /\ service \in {"semaphore", "handler", "promotion", "dispatch"}
    /\ Init /\ HandlerInit /\ PromotionInit /\ DispatchInit

ServicesNext ==
    /\ \/ /\ service = "semaphore" /\ Next
          /\ UNCHANGED <<handlerVars, promotionVars, dispatchVars>>
       \/ /\ service = "handler" /\ HandlerNext
          /\ UNCHANGED <<vars, promotionVars, dispatchVars>>
       \/ /\ service = "promotion" /\ PromotionNext
          /\ UNCHANGED <<vars, handlerVars, dispatchVars>>
       \/ /\ service = "dispatch" /\ DispatchNext
          /\ UNCHANGED <<vars, handlerVars, promotionVars>>
    /\ UNCHANGED service

ServicesFairness ==
    \/ []<>(service = "semaphore") /\ Fairness
    \/ []<>(service = "handler") /\ HandlerFairness
    \/ []<>(service = "promotion") /\ PromotionFairness
    \/ []<>(service = "dispatch") /\ DispatchFairness

ServicesSpec ==
    ServicesInit /\ [][ServicesNext]_serviceVars /\ ServicesFairness
=============================================================================
