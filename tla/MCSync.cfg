SPECIFICATION Spec
CONSTANTS
  fuzzer0 = fuzzer0
  fuzzer1 = fuzzer1
  c1 = c1
  c2 = c2
  Instances <- MCInstances
  Cases <- MCCases
PROPERTIES BackToFuzzing
