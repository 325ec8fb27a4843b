SPECIFICATION Spec
PROPERTIES ProcessesGoOn SpinsEnd WritesEnd EndsClose
CHECK_DEADLOCK FALSE
