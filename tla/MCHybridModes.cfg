SPECIFICATION Spec
CONSTANTS
  AtomBit = {a1}
  AddressBit = {b1, b2}
  Half = {h1}
  MaxEntries = 3
  MaxFuzzed = 2
  Inputs = 1
  CalCycles = 4
  CalCyclesLong = 5
  CalChances = 2
  Zero = Zero
INVARIANTS TypeOK MapsNotMixed CoverageOwned
PROPERTIES ConfirmedOnce ScoredByAddressMap CalibrationRestoresMode
SYMMETRY Symmetry
