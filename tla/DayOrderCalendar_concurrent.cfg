\* Two administrators at a time: two dates, two day orders, two kinds of day off.
SPECIFICATION Spec
CONSTANTS
    w1 = w1
    w2 = w2
    holiday = holiday
    exam_day = exam_day
    Workers = {w1, w2}
    NDates = 2
    MaxOrder = 2
    NonWorkingTypes = {holiday, exam_day}
    MaxRows = 1
INVARIANTS TypeOK OrderIffWorking
SYMMETRY Interchangeable
