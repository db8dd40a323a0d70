SPECIFICATION Spec
CONSTANTS
  Runners <- TwoRunners
  Programs <- Asked2
  Present <- AllButOne
  Shadowed <- SliceRejected
  Inherited <- StaleValues
INVARIANTS ExitIsTheContract GuardsAreThere TestsWhatIsBuilt PristineIsOwn
CHECK_DEADLOCK FALSE
