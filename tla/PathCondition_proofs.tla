------------------------ MODULE PathCondition_proofs ------------------------
(***************************************************************************)
(* What the operations of PathCondition do to the fields of a memory, and  *)
(* what the answers of the solver tell.                                    *)
(***************************************************************************)
EXTENDS PathCondition, TLAPS

LEMMA NewMemoryFacts ==
    /\ NewMemory \in Memories
    /\ NewMemory.path = Inputs
    /\ NewMemory.asserted = Inputs
    /\ NewMemory.fullErrorsCond = {}
    /\ NewMemory.errors = {}
BY DEF NewMemory, Memories, Conditions

LEMMA AddCondFacts ==
    ASSUME NEW m \in Memories, NEW c \in Conditions
    PROVE  /\ AddCond(m, c) \in Memories
           /\ AddCond(m, c).path = m.path \cap c
           /\ AddCond(m, c).asserted = m.asserted \cap c
           /\ AddCond(m, c).fullErrorsCond = m.fullErrorsCond
           /\ AddCond(m, c).errors = m.errors
BY DEF AddCond, Memories, Conditions

LEMMA CloneFacts ==
    ASSUME NEW m \in Memories
    PROVE  /\ Clone(m) \in Memories
           /\ Clone(m).path = m.path
           /\ Clone(m).asserted = m.path
           /\ Clone(m).fullErrorsCond = {}
           /\ Clone(m).errors = m.errors
BY DEF Clone, Memories, Conditions

LEMMA AddErrorFacts ==
    ASSUME NEW m \in Memories, NEW c \in Conditions,
           NEW sat \in SolverAnswers
    PROVE  /\ AddError(m, c, sat) \in Memories
           /\ AddError(m, c, sat).path = m.path
           /\ AddError(m, c, sat).asserted = m.asserted \ c
           /\ AddError(m, c, sat).fullErrorsCond \in {c, m.fullErrorsCond}
           /\ m.errors \subseteq AddError(m, c, sat).errors
<1>1. c \cap FullPathCond(m) \in Conditions
  BY DEF Conditions, FullPathCond
<1>2. m.errors \subseteq AddError(m, c, sat).errors
  BY DEF AddError, Memories
<1>3. AddError(m, c, sat).fullErrorsCond \in {c, m.fullErrorsCond}
  BY DEF AddError, Memories
<1>4. AddError(m, c, sat).path = m.path
  BY DEF AddError, Memories
<1>5. AddError(m, c, sat).asserted = m.asserted \ c
  BY DEF AddError, Memories
<1>6. AddError(m, c, sat) \in Memories
  <2>1. CASE sat = "SAT"
    BY <1>1, <2>1 DEF AddError, Memories, Conditions
  <2>2. CASE sat = "UNSAT"
    BY <1>1, <2>2 DEF AddError, Memories, Conditions
  <2>3. CASE sat = "UNKNOWN"
    BY <1>1, <2>3 DEF AddError, Memories, Conditions
  <2> QED
    BY <2>1, <2>2, <2>3 DEF SolverAnswers
<1> QED
  BY <1>2, <1>3, <1>4, <1>5, <1>6

LEMMA AddErrorSaves ==
    ASSUME NEW m \in Memories, NEW c \in Conditions,
           NEW sat \in SolverAnswers, sat # "UNSAT"
    PROVE  c \cap FullPathCond(m) \in AddError(m, c, sat).errors
BY DEF AddError, Memories

LEMMA AnswersFacts ==
    ASSUME NEW c
    PROVE  /\ Answers(c) \subseteq SolverAnswers
           /\ "UNSAT" \in Answers(c) => c = {}
BY DEF Answers, SolverAnswers
=============================================================================
