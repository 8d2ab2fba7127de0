SPECIFICATION StudySpec
CONSTANTS
  None = None
  Students = {u1}
  Slots = {s1, s2}
  MaxChapters = 3
  MaxLessons = 3
  MaxEdits = 2
  EditKinds <- AllKinds
  InitialChapter <- TwoChapters
  InitialLesson <- TwoLessons
  Plans <- MCPlans
INVARIANTS
  TypeOK
  ProgressInOrder
  NoLockout
PROPERTIES
  StudyEnds
