CONSTANTS
    LastYear = 2033
SPECIFICATION ClockSpec
INVARIANT
    SignedDateIsTheDate
PROPERTIES
    CodesFollowTheCalendar
CHECK_DEADLOCK FALSE
