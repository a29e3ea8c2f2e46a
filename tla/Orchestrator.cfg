\* Two tasks at a time, with the same text or not, and one revision round.
CONSTANTS
  Tasks = {t1, t2}
  Texts = {fixTypo, addFeature}
  TrivialTexts = {fixTypo}
  MaxRevisions = 1
SPECIFICATION Spec
INVARIANT OutcomesAreJust
PROPERTIES PlanIsKept TasksEnd
