CONSTANTS
    None = None
    Fifo = 2
    Hardware = 2
    MaxSend = 2
    MaxIn = 5
    MaxOut = 4
    Profiles = {{"timer", "light"}, {"light", "infrared"}, {"sound", "timer"}, {"adc"},
                {"serial"}}
    Periods = {2}
    Colors <- RGB
    Signals <- Bits
    Config <- Times
    Width = 64
    MaxLate = 3
    MaxPlays = 2
    MaxMeasures = 3
SPECIFICATION AppSpec
INVARIANTS SerialRight TimersRight WaveRight LightRight WholeTune
PROPERTIES EventuallyServed EventuallyDone
CHECK_DEADLOCK FALSE
