SPECIFICATION Spec
CONSTANTS
  None = None
  Students = {u1}
  Slots = {s1, s2}
  MaxChapters = 2
  MaxLessons = 2
  MaxEdits = 2
  EditKinds = {"editChapter"}
  InitialChapter <- TwoChapters
  InitialLesson <- TwoLessons
  Plans <- NoPlans
SYMMETRY SymSlots
INVARIANTS
  FirstLessonOpen
