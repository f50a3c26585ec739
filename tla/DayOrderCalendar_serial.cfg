\* One administrator at a time.
SPECIFICATION Spec
CONSTANTS
    w1 = w1
    w2 = w2
    holiday = holiday
    exam_day = exam_day
    Workers = {w1}
    NDates = 4
    MaxOrder = 3
    NonWorkingTypes = {holiday}
    MaxRows = 1
PROPERTIES EditReachesOnlyTheRotation HolidayKeepsRotation BulkMarksEveryDate
