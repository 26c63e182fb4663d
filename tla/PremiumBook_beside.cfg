SPECIFICATION BookSpec
CONSTANTS
    tick = tick
    hand = hand
    Ticker = tick
    Handler = hand
    Atms = {3}
    BookCases <- OneRequest
PROPERTY ReentryWaits
CHECK_DEADLOCK FALSE
