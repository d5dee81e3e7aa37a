\* Two registrations with the watchdog racing its timer; three timer objects.
CONSTANTS
  MaxAdds = 2
  MaxTimers = 3
SPECIFICATION WSpec
INVARIANT
  SingleTimerChain
\* The registrations, the timers and the service's life all end.
CHECK_DEADLOCK FALSE
