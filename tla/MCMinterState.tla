----------------------------- MODULE MCMinterState -----------------------------
(***************************************************************************)
(* Model checking of the parts of the state: a behaviour is one of one of  *)
(* them.  The lists of nonce accounts have one that is malformed, one that *)
(* repeats an account, and several at once.  A withdrawal and a deposit    *)
(* share nothing but the configuration, so that a behaviour has calls of   *)
(* one of the two endpoints.                                               *)
(***************************************************************************)
EXTENDS MinterState, MapSnapshot

CONSTANTS a, b

VARIABLE subject

MCNonceLists == {<<>>, <<a>>, <<b>>, <<a, b>>, <<a, a>>, <<Malformed>>}

txVars == <<entries, order, nextSeq>>
configVars == <<config, pool, keyKnown, withdrawal, reading, queued, charge>>
allVars == <<subject, vars, txVars, configVars>>

\* The configuration in the behaviours of the other parts.
SomeConfig == CHOOSE c \in Settings!Configs : Settings!Validate(c)

MCInit == Init /\ Transactions!Init /\ Settings!Init

CollectionsInit ==
  /\ MCInit /\ subject \in {"map", "transactions"}
  /\ pool = {} /\ config = SomeConfig

ConfigInit == MCInit /\ subject = "config"

NoDeposit == reading = None /\ charge = None
NoWithdrawals == \A w \in Withdrawal : withdrawal[w] = Settings!NoWithdrawal

MCNext ==
  \/ subject = "map" /\ Next /\ UNCHANGED <<subject, txVars, configVars>>
  \/ subject = "transactions" /\ Transactions!Next /\ UNCHANGED <<subject, vars, configVars>>
  \/ /\ subject = "config" /\ Settings!Next /\ (NoDeposit' \/ NoWithdrawals')
     /\ UNCHANGED <<subject, vars, txVars>>

\* The two runs: the collections, and the configuration.
CollectionsSpec == CollectionsInit /\ [][MCNext]_allVars
ConfigSpec == ConfigInit /\ [][MCNext]_allVars

================================================================================
