\* The resequencing does not start from the edited day.
SPECIFICATION Spec
CONSTANTS
    w1 = w1
    w2 = w2
    holiday = holiday
    exam_day = exam_day
    Workers = {w1}
    NDates = 3
    MaxOrder = 3
    NonWorkingTypes = {holiday}
    MaxRows = 1
PROPERTY RotationFollowsTheEdit
