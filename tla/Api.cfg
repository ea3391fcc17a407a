SPECIFICATION Spec
CONSTANT MaxFlaws = 2
 
INVARIANT SdkTruthful
INVARIANT CommandsTruthful
INVARIANT RefusalsClassified
INVARIANT CallersIdentified
