SPECIFICATION ConversationsSpec
CONSTANTS
    s1 = s1
    s2 = s2
    t1 = t1
    t2 = t2
    Slots <- MCSlots
    Subjects <- MCSubjects
    Families <- AllFamilies
    MaxUpdates = 8
SYMMETRY Interchangeable
INVARIANTS
    AnsweredAsAsked
    QuestionHasItsSubject
    SavedForItsTarget
CHECK_DEADLOCK FALSE
