CONSTANT Files <- ElementFiles
SPECIFICATION Spec
INVARIANT AssignedElementsHoldTheValue
